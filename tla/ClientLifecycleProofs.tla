------------------------ MODULE ClientLifecycleProofs ------------------------
(***************************************************************************)
(* Theorems about ClientLifecycle for any finite number of calls and any   *)
(* closes.                                                                 *)
(*                                                                         *)
(* IInv is inductive: the exact count makes "the last one out" mean that   *)
(* no admitted call is left, and the shared promise keeps admission        *)
(* stopped from there until the store has closed.                          *)
(***************************************************************************)
EXTENDS ClientLifecycle, FiniteSetTheorems, TLAPS

IInv == LifecycleInv /\ StoreClosesAlone

AdmittedCalls == {c \in Calls : Admitted(c)}

(* No call counted means no admitted call, and conversely.                 *)
LEMMA CountZero ==
  ASSUME CountIsExact
  PROVE  /\ IsFiniteSet(AdmittedCalls)
         /\ activeOperations = Cardinality(AdmittedCalls)
         /\ activeOperations = 0 <=> \A c \in Calls : ~Admitted(c)
<1>1. IsFiniteSet(AdmittedCalls)
  BY LifecycleAssumption, FS_Subset DEF AdmittedCalls
<1>2. Cardinality(AdmittedCalls) = 0 <=> AdmittedCalls = {}
  BY <1>1, FS_EmptySet
<1>3. QED BY <1>1, <1>2 DEF CountIsExact, AdmittedCalls

(* A step that leaves the set of admitted calls alone keeps the count.     *)
LEMMA CountKept ==
  ASSUME CountIsExact, UNCHANGED activeOperations,
         \A c \in Calls : Admitted(c) <=> Admitted(c)'
  PROVE  CountIsExact'
BY DEF CountIsExact

LEMMA InitInv == Init => IInv
<1> SUFFICES ASSUME Init PROVE IInv
  OBVIOUS
<1>1. TypeOK
  <2>1. 0 \in 0 .. MaxStoreCalls
    BY LifecycleAssumption
  <2>2. storeCalls \in [Calls -> 0 .. MaxStoreCalls]
    BY <2>1 DEF Init
  <2>3. QED BY <2>2 DEF Init, TypeOK, Phases, Attempts
<1>2. CountIsExact
  <2>1. {c \in Calls : Admitted(c)} = {}
    BY DEF Init, Admitted
  <2>2. QED BY <2>1, FS_EmptySet DEF Init, CountIsExact
<1>3. QED BY <1>1, <1>2
  DEF Init, IInv, LifecycleInv, StoreClosesAlone, AdmittedIsServed, OneClose,
      StateMatchesClose, WaitersWillWake, Pending

(* Admission happens only in the open state, where no close is pending.    *)
LEMMA AdmitInv ==
  ASSUME IInv, NEW c \in Calls,
         NEW k \in {"recall", "buildContext", "other"}, Admit(c, k)
  PROVE  IInv'
<1> USE DEF IInv, LifecycleInv
<1>1. TypeOK'
  BY DEF Admit, TypeOK, closeVars, Phases
<1>2. CountIsExact'
  <2>1. c \notin AdmittedCalls /\ AdmittedCalls' = AdmittedCalls \union {c}
    BY DEF Admit, TypeOK, AdmittedCalls, Admitted
  <2>2. Cardinality(AdmittedCalls') = Cardinality(AdmittedCalls) + 1
    BY <2>1, CountZero, FS_AddElement
  <2>3. QED BY <2>2, CountZero DEF Admit, CountIsExact, AdmittedCalls
<1>3. \A j \in Closers : ~Pending(j)
  BY DEF Admit, StateMatchesClose
<1>4. StoreClosesAlone'
  BY <1>3 DEF Admit, closeVars, StoreClosesAlone, Pending
<1>5. AdmittedIsServed'
  BY DEF Admit, TypeOK, AdmittedIsServed
<1>6. OneClose' /\ StateMatchesClose'
  BY DEF Admit, closeVars, OneClose, StateMatchesClose, Pending
<1>7. WaitersWillWake'
  BY <1>3 DEF Admit, closeVars, WaitersWillWake, Pending
<1>8. QED BY <1>1, <1>2, <1>4, <1>5, <1>6, <1>7

(* Steps of calls that neither enter nor leave the set of admitted calls.  *)
LEMMA CallInv ==
  ASSUME IInv, NEW c \in Calls,
         \/ Refuse(c) \/ RefusalObserved(c) \/ Started(c)
         \/ StartStoreCall(c) \/ StoreReturns(c) \/ EndWork(c)
         \/ AccessTracked(c)
  PROVE  IInv'
<1> USE DEF IInv, LifecycleInv, MoveTo, EndWith
<1>1. TypeOK'
  <2>1. CASE Refuse(c) \/ RefusalObserved(c) \/ AccessTracked(c)
    BY <2>1 DEF Refuse, RefusalObserved, AccessTracked, TypeOK, closeVars,
                Phases
  <2>2. CASE Started(c) \/ StartStoreCall(c) \/ StoreReturns(c)
    BY <2>2, LifecycleAssumption
    DEF Started, StartStoreCall, StoreReturns, TypeOK, closeVars, Phases
  <2>3. CASE EndWork(c)
    BY <2>3 DEF EndWork, TypeOK, closeVars, Phases
  <2>4. QED BY <2>1, <2>2, <2>3
<1>2. /\ UNCHANGED <<state, activeOperations, draining, closePromise, attempt,
                     joined>>
      /\ \A d \in Calls : Admitted(d) <=> Admitted(d)'
  BY DEF Refuse, RefusalObserved, AccessTracked, Started, StartStoreCall,
         StoreReturns, EndWork, closeVars, Admitted, TypeOK
<1>3. CountIsExact'
  BY <1>2, CountKept
<1>4. StoreClosesAlone'
  BY <1>2 DEF StoreClosesAlone
<1>5. AdmittedIsServed'
  <2>1. CASE Started(c)
    BY <2>1 DEF Started, RefusesWork, StoreClosesAlone, Admitted, TypeOK,
                AdmittedIsServed
  <2>2. CASE Refuse(c) \/ RefusalObserved(c) \/ AccessTracked(c)
    BY <2>2 DEF Refuse, RefusalObserved, AccessTracked, TypeOK,
                AdmittedIsServed
  <2>3. CASE StartStoreCall(c) \/ StoreReturns(c) \/ EndWork(c)
    BY <2>3 DEF StartStoreCall, StoreReturns, EndWork, TypeOK,
                AdmittedIsServed
  <2>4. QED BY <2>1, <2>2, <2>3
<1>6. OneClose' /\ StateMatchesClose' /\ WaitersWillWake'
  BY <1>2 DEF OneClose, StateMatchesClose, WaitersWillWake, Pending
<1>7. QED BY <1>1, <1>3, <1>4, <1>5, <1>6

(* The last admitted call out wakes the waiting close; any other leaves it *)
(* a call to wait for.                                                     *)
LEMMA SettleInv ==
  ASSUME IInv, NEW c \in Calls, Settle(c)
  PROVE  IInv'
<1> USE DEF IInv, LifecycleInv
<1>1. /\ c \in AdmittedCalls
      /\ AdmittedCalls' = AdmittedCalls \ {c}
      /\ activeOperations \in Nat \ {0}
  <2>1. c \in AdmittedCalls /\ AdmittedCalls' = AdmittedCalls \ {c}
    BY DEF Settle, TypeOK, AdmittedCalls, Admitted
  <2>2. activeOperations # 0
    BY <2>1, CountZero DEF AdmittedCalls
  <2>3. QED BY <2>1, <2>2 DEF TypeOK
<1>2. TypeOK'
  BY <1>1 DEF Settle, TypeOK, Phases, Attempts
<1>3. CountIsExact'
  <2>1. Cardinality(AdmittedCalls') = Cardinality(AdmittedCalls) - 1
    BY <1>1, CountZero, FS_RemoveElement
  <2>2. QED BY <2>1, CountZero DEF Settle, CountIsExact, AdmittedCalls
<1>4. \A k \in Closers : Pending(k)' <=> Pending(k)
  BY DEF Settle, TypeOK, Pending
<1>5. StoreClosesAlone'
  <2>1. CASE LastOut
    <3>1. Cardinality(AdmittedCalls') = 0 /\ IsFiniteSet(AdmittedCalls')
      BY <1>1, <2>1, CountZero, FS_RemoveElement DEF LastOut
    <3>2. AdmittedCalls' = {}
      BY <3>1, FS_EmptySet
    <3>3. QED BY <3>2 DEF AdmittedCalls, StoreClosesAlone
  <2>2. CASE ~LastOut
    BY <2>2 DEF Settle, TypeOK, StoreClosesAlone, Admitted
  <2>3. QED BY <2>1, <2>2
<1>6. AdmittedIsServed'
  BY DEF Settle, TypeOK, AdmittedIsServed
<1>7. OneClose'
  BY <1>4 DEF OneClose
<1>8. StateMatchesClose'
  BY <1>4 DEF Settle, TypeOK, StateMatchesClose
<1>9. WaitersWillWake'
  BY <1>1 DEF Settle, TypeOK, LastOut, WaitersWillWake
<1>10. QED BY <1>2, <1>3, <1>5, <1>6, <1>7, <1>8, <1>9

(* Steps of a close, none of which changes a call.                         *)
LEMMA CloseInv ==
  ASSUME IInv, NEW k \in Closers,
         \/ Close(k) \/ JoinClose(k) \/ CloseProgress(k)
  PROVE  IInv'
<1> USE DEF IInv, LifecycleInv, callVars
<1>1. TypeOK'
  BY DEF Close, JoinClose, CloseProgress, WaitForActiveOperations, StoreClose,
         StoreCloses, StoreCloseFails, CloseObserved, TypeOK, Attempts
<1>2. /\ UNCHANGED <<activeOperations, callVars>>
      /\ \A c \in Calls : Admitted(c) <=> Admitted(c)'
  BY DEF Close, JoinClose, CloseProgress, WaitForActiveOperations, StoreClose,
         StoreCloses, StoreCloseFails, CloseObserved, Admitted
<1>3. CountIsExact' /\ AdmittedIsServed'
  BY <1>2, CountKept DEF AdmittedIsServed
<1>4. \A j \in Closers : j # k => attempt'[j] = attempt[j]
  BY DEF Close, JoinClose, CloseProgress, WaitForActiveOperations, StoreClose,
         StoreCloses, StoreCloseFails, CloseObserved, TypeOK
<1>5. CASE Close(k)
  <2>1. state = "open" /\ \A j \in Closers : ~Pending(j)
    BY <1>5 DEF Close, StateMatchesClose, TypeOK
  <2>2. QED BY <1>1, <1>2, <1>3, <1>4, <1>5, <2>1, LifecycleAssumption
    DEF Close, TypeOK, StoreClosesAlone, OneClose, StateMatchesClose, Pending,
        WaitersWillWake
<1>6. CASE JoinClose(k)
  <2>1. \A j \in Closers : Pending(j)' <=> Pending(j)
    BY <1>4, <1>6 DEF JoinClose, TypeOK, Pending
  <2>2. closePromise \in Closers /\ closePromise # k
    BY <1>6 DEF JoinClose, TypeOK, StateMatchesClose, Pending
  <2>3. QED BY <1>1, <1>2, <1>3, <1>4, <1>6, <2>1, <2>2
    DEF JoinClose, TypeOK, StoreClosesAlone, OneClose, StateMatchesClose,
        WaitersWillWake
<1>7. CASE CloseProgress(k) /\ Pending(k)
  <2>1. state = "closing" /\ closePromise = k
    BY <1>7 DEF StateMatchesClose, OneClose, TypeOK
  <2>2. CASE WaitForActiveOperations(k)
    BY <1>1, <1>2, <1>3, <1>4, <2>1, <2>2, CountZero
    DEF WaitForActiveOperations, TypeOK, StoreClosesAlone, OneClose,
        StateMatchesClose, Pending, WaitersWillWake
  <2>3. CASE StoreClose(k)
    BY <1>1, <1>2, <1>3, <1>4, <2>1, <2>3
    DEF StoreClose, TypeOK, StoreClosesAlone, OneClose, StateMatchesClose,
        Pending, WaitersWillWake
  <2>4. CASE StoreCloses(k)
    BY <1>1, <1>2, <1>3, <1>4, <2>1, <2>4, LifecycleAssumption
    DEF StoreCloses, TypeOK, StoreClosesAlone, OneClose, StateMatchesClose,
        Pending, WaitersWillWake
  <2>5. CASE StoreCloseFails(k)
    BY <1>1, <1>2, <1>3, <1>4, <2>1, <2>5
    DEF StoreCloseFails, TypeOK, StoreClosesAlone, OneClose,
        StateMatchesClose, Pending, WaitersWillWake
  <2>6. CASE CloseObserved(k)
    BY <1>7, <2>6 DEF CloseObserved, Pending
  <2>7. QED BY <1>7, <2>2, <2>3, <2>4, <2>5, <2>6 DEF CloseProgress
<1>8. CASE CloseObserved(k)
  BY <1>1, <1>2, <1>3, <1>4, <1>8
  DEF CloseObserved, TypeOK, StoreClosesAlone, OneClose, StateMatchesClose,
      Pending, WaitersWillWake
<1>9. CloseProgress(k) => Pending(k) \/ CloseObserved(k)
  BY DEF CloseProgress, WaitForActiveOperations, StoreClose, StoreCloses,
         StoreCloseFails, Pending
<1>10. QED BY <1>5, <1>6, <1>7, <1>8, <1>9

LEMMA StepInv == IInv /\ [Next]_vars => IInv'
<1> SUFFICES ASSUME IInv, [Next]_vars PROVE IInv'
  OBVIOUS
<1>1. CASE UNCHANGED vars
  BY <1>1 DEF vars, IInv, LifecycleInv, TypeOK, CountIsExact, StoreClosesAlone,
              AdmittedIsServed, OneClose, StateMatchesClose, WaitersWillWake,
              Admitted, Pending
<1>2. CASE Next
  <2>1. ASSUME NEW c \in Calls, CallProgress(c) PROVE IInv'
    BY <2>1, CallInv, SettleInv DEF CallProgress
  <2>2. QED BY <1>1, <1>2, <2>1, AdmitInv, CallInv, CloseInv DEF Next, Quiet
<1>3. QED BY <1>1, <1>2

LEMMA InvHolds == Spec => []IInv
BY InitInv, StepInv, PTL DEF Spec

-----------------------------------------------------------------------------
(* Admission and close() keep their whole invariant, for any number of     *)
(* concurrent calls and closes.                                            *)
THEOREM LifecycleCorrect == Spec => []LifecycleInv
<1>1. IInv => LifecycleInv
  BY DEF IInv
<1>2. QED BY InvHolds, <1>1, PTL

(* The store is never closed under an admitted call.                       *)
THEOREM ClosesAlone == Spec => []StoreClosesAlone
<1>1. IInv => StoreClosesAlone
  BY DEF IInv
<1>2. QED BY InvHolds, <1>1, PTL

(* Concurrent calls of close share one attempt.                            *)
THEOREM CloseShared == Spec => []OneClose
<1>1. LifecycleInv => OneClose
  BY DEF LifecycleInv
<1>2. QED BY LifecycleCorrect, <1>1, PTL

(* A closed client stays closed.                                           *)
THEOREM ClosedStays == Spec => ClosedForGood
<1>1. ASSUME LifecycleInv, [Next]_vars, state = "closed"
      PROVE  state' = "closed"
  <2>1. \A k \in Closers : ~Pending(k)
    BY <1>1 DEF LifecycleInv, StateMatchesClose
  <2>2. closePromise # NoCloser
    BY <1>1 DEF LifecycleInv, StateMatchesClose
  <2>3. ASSUME NEW c \in Calls, CallProgress(c) PROVE state' = state
    BY <2>3 DEF CallProgress, RefusalObserved, Started, StartStoreCall,
                StoreReturns, EndWork, Settle
  <2>4. ASSUME NEW k \in Closers, CloseProgress(k) PROVE state' = state
    BY <2>1, <2>4 DEF CloseProgress, WaitForActiveOperations, StoreClose,
                      StoreCloses, StoreCloseFails, CloseObserved, Pending
  <2>5. QED BY <1>1, <2>2, <2>3, <2>4
    DEF Next, Admit, Refuse, AccessTracked, Close, JoinClose,
        Quiet, vars
<1>2. LifecycleInv /\ [Next]_vars
        => [state = "closed" => state' = "closed"]_state
  BY <1>1
<1>3. QED BY LifecycleCorrect, <1>2, PTL DEF Spec, ClosedForGood
=============================================================================
