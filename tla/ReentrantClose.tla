--------------------------- MODULE ReentrantClose ---------------------------
(* ClientLifecycle with a hook that calls close() when it hears of close().*)
EXTENDS ClientLifecycle

(* k's start event reaches the hook before k's promise is assigned; the    *)
(* hook calls close() itself, as j, and finds no promise to join.          *)
CloseInHook(k, j) ==
  /\ j # k
  /\ attempt[k] = "idle" /\ attempt[j] = "idle"
  /\ closePromise = NoCloser
  /\ state' = "closing"
  /\ closePromise' = k
  /\ attempt' = [attempt EXCEPT ![k] = "start", ![j] = "start"]
  /\ joined' = [joined EXCEPT ![k] = k, ![j] = j]
  /\ UNCHANGED <<activeOperations, draining, callVars>>

ReentrantNext == Next \/ \E k, j \in Closers : CloseInHook(k, j)

ReentrantSpec == Init /\ [][ReentrantNext]_vars
=============================================================================
