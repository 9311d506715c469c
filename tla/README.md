# mnemocyte in TLA+

A model of [mnemocyte](../src/README.md), a TypeScript library that gives an
application a durable memory: texts about an entity, embedded by a provider,
stored in Postgres (or in process memory), recalled by similarity, and
maintained by consolidation, pruning and deletion. The modules here are
translated from `src/src`; comments in them name the functions they stand for,
and `PROJECT.json` maps every definition to its lines. Paths below are those
of the repository, with its root at `src/`.

Contents: [the system](#the-system), [the modules](#the-modules),
[what the runs check](#what-the-runs-check),
[what is proved](#what-is-proved), [disagreements found](#disagreements-found),
[what is not modelled](#what-is-not-modelled), [plan](#plan),
[how to run it](#how-to-run-it).

## The system

A **client** (`memory/client-core.ts`) is a value of the application's process.
It owns a **store** (Postgres or in-memory) and an **embedder**. Many clients
in many processes share one Postgres **installation**; nothing but the database
coordinates them. Inside one process everything runs on one event loop, so the
code between two `await`s is atomic and everything else interleaves.

| Component | State | Operations | Interacts with |
|---|---|---|---|
| Store contract (`memory/store.ts`) and in-memory store (`memory/in-memory.ts`) | memories, audit events | insert, guarded delete, prune, consolidate, mark accessed, search, list, stats | called by the client; every operation atomic |
| Postgres store (`db/queries/memories.ts`, `events.ts`) | rows, row locks, events | the same operations, one SQL statement in one transaction each | the Postgres lock manager, foreign key and deadlock detector |
| Embedding compatibility (`memory/postgres.ts`, `db/queries/meta.ts`) | the installation row; per store a cache of checks | check, infer, record | every call that embeds awaits it |
| Client operations (`memory/client-core.ts`) | none between calls | remember, rememberMany, recall, buildContext, forget, forgetAll, prune, consolidate | several store operations and provider calls each, with other clients in between; best-effort audit |
| Client lifecycle and hooks (`memory/client-core.ts`, `observability.ts`) | state, active operations, drain promise, close promise | admission, drain, close, start/success/error events | callbacks into the application, which may call back |
| Audit log (`db/queries/events.ts`, `memory/in-memory.ts`) | events ordered by (timestamp, id) | append, page with `beforeCursor` / `afterCursor` | written by store and client, read by pagers |
| Migrations (`db/migrations/runner.ts`) | catalog, tracking table, advisory lock | fresh install, adoption, one migration per transaction | several instances at start-up |
| Resilience (`resilience.ts`, `memory/embeddings.ts`) | per call: attempts, timers, listeners | attempt, timeout, abort, pause, retry | the provider, the caller's AbortSignal |
| OpenAI embedder (`embedders/openai.ts`) | none | one request; check and sort its answer | embedOne and embedMany, under the retries of resilience |
| Recall scoring and fusion (`retrieval/scorer.ts`) | none | rank two lists, fuse, boost, sort | recall, on what two concurrent searches found |
| Context builder (`context/`) | two binary searches and a loop | fit memories, or a header, into a token budget | buildContext; the caller's token counter |
| Validation (`memory/validation.ts`, `memory/json.ts`) | none | check inputs | every call |
| SQL executors (`sql/`), public types | none | I/O and declarations | |

What is hard in it:

- **Consolidation under concurrency.** `supersededBy` pointers must stay
  acyclic, within an entity and never dangle, while consolidations that read
  one another's rows, and deletes whose check ran before a consolidation
  committed, run at once. One statement has to lock, decide, write pointers,
  merge tags and write events.
- **Deadlocks.** A delete locks in scan order, the others in id order.
- **Check-then-act across awaits.** `consolidate` reads twice before it writes;
  `remember` embeds before it inserts; the embedding check infers a model from
  rows that others delete, and records it in a row that others write.
- **Late and hidden results.** A connection breaks after a commit; a provider
  answers after its timeout; audit events are lost in part.
- **Draining.** `close()` counts calls in and out around hooks of the
  application's, may fail and be tried again, and may be called from a hook.
- **Racing and interrupted migrations** over databases in any state.
- **Paging a log that grows**, at equal timestamps and below what was read.
- **Pairing by position.** A batch of texts, the provider's items and the
  returned rows are lists that must agree, and only the first is in the
  client's hands.
- **Two searches, two snapshots.** A recall fuses two lists that were taken of
  different states of the store, with ties in any order.
- **Searching with somebody else's counter.** The loops of buildContext must
  end and stay within the budget whatever the caller's token counter says.

For each component, what makes it correct is stated as the properties of its
module; `PROJECT.json` lists the hazards, each at the line where it bites, with
the properties that would notice.

## The modules

`MCX` extends `X` with the values of a small instance; `XProofs` extends `X`
with its theorems. An operator with the comment *fault* is a definition with a
plausible bug in it, used by no specification: putting it in the place of the
definition next to it must break a property, which is how each property has
been shown to depend on the code.

### MemoryStore — what a store promises

The contract of `memory/store.ts`, as the in-memory store has it: each
operation one atomic step on `memories` (state, `supersededBy`, tags, access
count) and `events` (the `memory.superseded` events per memory). Content,
embeddings and metadata never change after the insert and are left out. The
guarded delete has two forms: the *strict* one of the interface (nothing may
point at a selected memory, even a selected one) and a *relaxed* one (nothing
may be left dangling), which is what the Postgres statements provide. `Spec`
uses the relaxed form and is the abstract specification of the next two
modules.

### PostgresStore — concurrent SQL statements

| In the model | In the code |
|---|---|
| `Start` | the statement's snapshot: target rows, and `dependents` of a delete |
| `NextRows`, `LockRow`, `SkipRow` | `ORDER BY id FOR UPDATE` (consolidate, mark) or scan order (delete); a row deleted meanwhile is skipped |
| `SurvivorActive`, `HasConflict`, `NewlySuperseded`, `MergedTags` | the CTEs of `consolidateMemories` |
| `CommitConsolidation`, `RejectConsolidation` | its writes, or CONFLICT |
| `CommitMark` | `markMemoriesAccessed` |
| `CommitDelete`, `RejectDelete` | `deleteMemories`/`prune`; the foreign key and its CONFLICT |
| `DeadlockVictim`, `Cancel` | Postgres' detector; an AbortSignal or a lost connection |

`Deletion` covers forget, forgetAll and prune: `ids` is what their filters on
columns that never change select; the filters on `supersededBy`,
`lastAccessedAt` and `tags`, which other statements write, are evaluated. A statement's
writes are invisible until it commits and its rows are locked until then, so
deciding, writing and committing are one step. Row locks, the re-read of a row
after a wait, the foreign key and the detector are modelled as the queries
rely on them and marked external.

### ClientOperations — calls of several steps

Extends `MemoryStore`: a call is a program counter over store operations of the
contract, with the other calls' steps in between. Every store operation may
also fail without an effect (`Fail`) or after it (a second outcome of
`InsertStep`, `DeleteStep`, `Mutate`). A prune by `notAccessedSince` may select
any part of what its other filters leave (`Selections`), because recalls, which
are not calls of this module, write access times all the while. `WriteAudit` writes any part of a call's
events, as the one-by-one inserts of `addAuditEvents` and the swallowed error
of `recordAudit` allow.

### ClientLifecycle — admission, drain and close

`Admit`/`Refuse` are `beginOperation`; `Started`, `StartStoreCall`,
`StoreReturns`, `EndWork`, `Settle` the work of a call between the hooks of
`observe`; `tracking` the access write that nobody counts. `Close`,
`JoinClose`, `WaitForActiveOperations`, `StoreClose`, `StoreCloses`,
`StoreCloseFails`, `CloseObserved` are `close()`. A hook may call the client and
close it at any of its events, which is a call like any other, except on the
start event of `close()` itself: `ReentrantClose` adds that step
(`CloseInHook`).

### Migrations — racing and interrupted migrate() calls

Each transaction of the loop is `Begin`, `TakeLock`, `Read`, then one of
`Reject`, `FreshInstall`, `Adopt`, `ApplyNext`, `NothingLeft`. What a transaction
does is decided from the database that it *read* (`Creates`, `Records`); whether
its statements succeed depends on the database that they *meet*
(`WritesSucceed`). SQL is abstracted to the schema objects that each version
adds, which is what `installedVersion` tells versions apart by, and the tables
that it needs: a migration adds its objects to whatever is there, and fails if
one of them exists or a table is missing. Nothing compares the tracking table
with the catalog, in the code or here, so a table that does not tell the truth
is believed. `WriteFails` keeps the codes apart: a migration's own statements
throw MIGRATION, the tracking table's throw DB. `Interrupt` ends a call
anywhere.

### EmbeddingCompatibility — one vector space

Each query of a shared check is a step: `ReadMeta`, `ReadStored`, `Record`,
`Reread`, `Compare`. `check` is the map of promises of every store (a passed
check stays, a failed one leaves), `Call` joins or starts a check, `Insert`
stores a row of the embedder's model afterwards. A query may fail before it has
an effect (`QueryFails`), and the UPDATE of `Record` also after it. `Delete` removes the last row
of a model and `Migrate` records a model as migration 0002 does, at any time.

### Resilience — attempts, timers and late answers

`Attempt`, `Refuse`, `Continue`, `Resume` are the loop of `withResilience` and
its `delay`; `Answer`, `Timer` and `Abort` the three ways an attempt's promise
settles in `runAttempt`. `timers` and `listeners` are kept so that leaks can be
seen. An `embed` that throws before it returns a promise is the second branch
of `Attempt`: it leaves its timer and listener behind, and `NothingLeft` exempts
exactly those attempts (they end with the timer or the signal).

### AuditPaging — paging a growing log

`Within` and `Page` are the WHERE, ORDER BY and LIMIT of `listEvents` (the same
in `in-memory.ts`); `Begin` and `Down` a reader that pages down with
`beforeCursor` inside an `afterCursor` window; `Up` a follower that pages up
with `afterCursor` alone. Events arrive at any timestamp, several at once.

### RankFusion, EmbeddingBatch, ContextBudget — the parts of EmbeddedCalls

`RankFusion` is `retrieval/scorer.ts` and the merging in `recall`:
`RankByScore`, `FusedScore`, `Boosted`, `Precedes`, `InOrder` and `Fuse`, with
exact fractions in the place of floating-point numbers. Similarities, lexical
scores and boosts are inputs. `recencyScore` reads the clock anew for every
candidate, in the order of the merged lists (`Merged`, `Readings`): a boost is a
function of the time, and later candidates are scored later.

`EmbeddingBatch` pairs texts with embeddings and rows: `ValidResponse` and
`SortByIndex` of the OpenAI embedder, `BatchAccepted` and `SingleAccepted` of
`memory/embeddings.ts`, `NormalizeStoreRows` of the client. The embedding of
text i is i, so a wrong pairing shows.

`ContextBudget` is a state machine of the loops of `context/builder.ts` and
`context/tokens.ts`: `Probe` is one turn of either binary search,
`ShortenFragment` one of the loop over the truncation marker. A text is its
token count, so the contexts with 0, 1, ... memories are a table of counts; any
table is allowed, since the counter is the caller's. For the default counter
and the three formats the tables do grow with the number of memories, although
the note on omitted memories gets shorter and finally disappears: every format
adds more characters for a memory than the whole note has.

### EmbeddedCalls — remember, recall and buildContext around the embedder

Puts the three together in the steps of a call. `Embed` takes any answer of the
provider, up to one item too many, with repeated or impossible indices;
`Insert` any rows from the store, in any order, missing, repeated or unknown.
`Search` is one of the two concurrent searches of a recall, with
`OtherClient` before, between and after them: memories appear, are superseded
or expire, and are deleted. The vector index is approximate, and its scan is
filtered afterwards: the vector search looks at any part of the eligible
memories (`Scans`), and lists the best of that. `AnswerRecall` and `RecallForContext` fuse what was
found, `BuildContext` runs the loops. A failed search ends the call at once, as
`Promise.all` does.

## What the runs check

Deadlock is checked unless noted. Every passing run enumerates its instance
completely.

| Run | Instance | Shows |
|---|---|---|
| `pg_safety` | 3 statements, 4 memories of 2 entities | no interleaving breaks the `supersededBy` graph, loses a tag or an event, reports an id twice, or leaves the contract |
| `pg_liveness` | 3 statements, 2 memories | every started statement ends, through deadlocks too |
| `client_operations` | 3 calls of 12 kinds, 4 memories | multi-step calls make only the contract's steps; what they report and audit is true |
| `lifecycle` | 2 calls of up to 2 store calls, 2 closes | one close at a time, never under an admitted call; a failed close reopens; every call and close settles |
| `migrations` | 2 callers, 19 databases | each migration is reported once, a true tracking table stays true, what is refused stays as it was, success means a complete table (and the newest schema if what was read was sound), every call ends |
| `embedding` | 5 calls, 2 stores, 3 embedders, 2 models | stored vectors never mix; cached checks stay true; every waiting call ends |
| `resilience` | up to 3 attempts, every configuration | a late answer is never taken, abandoned attempts are told, nothing is left behind; a timeout or an abort ends the call though no provider answers (a call ends: no deadlock check) |
| `retrieval` | one call of 4 kinds, 3 memories, batches up to 3, every table of counts up to 4 long | texts keep their embeddings; a memory that does better in both searches and was scored with no lower boost is not below the other; the context is the largest that fits; the loops end |
| `audit_safety` | 4 events, 3 timestamps, pages of 2, 2 rounds | a round misses no event that was there and repeats none (a reader stops: no deadlock check) |

Three more runs end in a counterexample, see
[disagreements found](#disagreements-found).

### Bounds, and why they are enough

- **pg_safety.** Three statements give every shape of wait (two against one, a
  chain, a cycle of three) and every order of two conflicting consolidations
  around a delete. Three memories of one entity give chains and two survivors
  with a shared loser; the fourth is another entity's; one is inserted during
  the run. The operations are every consolidation among the three, one that
  names the foreign memory, one without tag merging, forget, forgetAll, three
  prunes whose filters others write, and overlapping access writes. Statements
  are interchangeable in every formula of the run, hence the symmetry. The
  invariants that are proved hold for any number of all of these. Properties
  that others imply are proved and not run: `LinksWithinEntity`,
  `EventsMatchLinks` and `SupersededForGood` follow from `ImplementsContract`.
- **client_operations.** Two calls suffice for each check-then-act race, the
  third is the deleting or repeating one. `kSubset(count, ...)` is bounded by
  `Ids`: a `remember` that finds no id left can only fail.
- **lifecycle.** Two calls let one be counted out while the other still holds the
  drain, and a refused one stand beside an admitted one. Two closes allow one
  that joins the other, and one that tries again after the other failed. The
  proofs cover any number of both. `MaxStoreCalls` bounds the store calls of one
  call; every store call meets the same states.
- **migrations.** Versions are the real ones (0 to 3). The databases are an
  empty one with and without pgvector or an empty tracking table, every version
  installed by hand, every tracked version, and eight that no history of the
  migrations explains. Of those, four are refused (a half-made schema, gaps, a
  newer version), and four have a contiguous table that is not true: one where
  the pending migrations run all the same and the call succeeds without
  `embedding_model`, one where they fail, one with nothing left to do, and one
  whose other tables were dropped.
- **embedding.** Two stores stand for two processes; two calls share a check,
  one uses the same store with another model, one embedder has the wrong
  dimensions. Whether a recorded model is absent, null or present, and what
  older versions have stored, is every possibility.
- **resilience.** Three attempts: one that answers late, one that runs and one
  more. `config` ranges over every combination of timeout, signal, pauses and
  retries.
- **audit.** A page of two out of four events needs two pages and an empty one;
  two rounds exercise the `afterCursor` window.

- **retrieval.** Three memories give two that compete and one that changes, is
  cut off or is missed by the index; every profile has ties in a list, and
  boosts and creation times that agree or disagree with the scores. The clock
  shows two times during a recall (`LastInstant`), before and after any of its
  candidates; some boosts fall in between. The candidate limit is smaller than,
  equal to and larger than what can be found, and one list may have weight 0.
  Batches of three have every order and every duplicate. A binary search over
  five candidates meets every shape of its last turns; counts matter only as
  within the budget or not. Calls are independent of one another but for the
  store, whose changes are `OtherClient`'s, so one call is enough.

Properties that are conjuncts of an invariant of the same run (`OneClose` of
`LifecycleInv`, `CachedIsTrue` of `EmbeddingInv`) are not listed a second time;
`StoreClosesAlone` and `OneVectorSpace` are properties of their own and not part
of those invariants.

Access counts and event counts need no bound: statements and calls run once.

### Fairness

- `PostgresStore`: weak fairness of what Postgres does for a started statement.
  A statement that waits is not enabled until the lock is free; deadlocks are
  broken by the detector, which is part of that progress. Clients need not
  start or cancel anything.
- `ClientLifecycle`: weak fairness of each call's and each close's own steps:
  provider calls, store calls and hooks settle, and the event loop runs what
  they resolve. A hook that never settles blocks its call in the code as well.
- `Migrations`: weak fairness of each caller's transaction. It is enough for
  the lock, because each other caller takes it finitely often.
- `EmbeddingCompatibility`: weak fairness of queries and of the call's insert.
- `Resilience`: weak fairness of the loop's continuation and of timers. Nothing
  makes a provider answer or a caller abort: `CallEnds` holds without.
- `EmbeddedCalls`: weak fairness of `BuildContext` alone. Its loops are one
  synchronous computation and run to their end; the provider and the store
  need not answer.

## What is proved

The proofs are checked by TLAPS for every value of the constants that satisfies
the named assumptions (`MemoryAssumption`, `StatementAssumption`,
`RequestAssumption`, `LifecycleAssumption`, `MigrationAssumption`,
`EmbedderAssumption`, `ResilienceAssumption`, `PagingAssumption`,
`BoostAssumption`, `TextsAssumption`, `CallAssumption`). All of
those are facts that the code establishes before the modelled part runs: ids
are minted, inputs are validated, null is no id, an entity has finitely many
memories. Every safety property and every action property that a passing run checks is
stated by a theorem.

**`PostgresStoreProofs`** — statements, memories, entities and operations of any
number, for `Spec`:

- `InvariantCorrect`: `[]IInv`, where `IInv` is `TypeOK` and

  - `LockedRowsAreCurrent`: a row that a statement holds is stored and as it was
    when it was locked. It is why a decision made from the locked rows is still
    right when the writes are made, and it holds because all writes of a step go
    to rows that the writing statement holds (`WritesAreHeld`);
  - `HeldRowsAreTargets`: what a consolidation holds is its survivor and losers
    within the entity;
  - `UnbornAreUnlinked`: an insert brings no pointer with it.

- From `IInv`, each with its own step lemma: `SurvivorsStay` (nothing dangles: a
  new pointer goes to a row that is held and stored, a delete that leaves a
  pointer behind is rejected by the foreign key), `NoCycles` (a new pointer
  leads from an active memory to an active one that stays active, so a set
  closed under pointers would have been closed before), `LinksStayWithin`,
  `EventsFollowLinks`, `SupersededOnce`.
- `Refinement`: `Spec => MemoryStore!Spec` with the identity on `memories` and
  `events`; every commit is one step of the contract, everything else a stutter
  (`ConsolidationEffect`, `OtherEffects`).
- From the refinement, `RowsAge`: whatever statement commits, a memory is born,
  superseded once at most, and deleted for good. That is what lets a report of
  the past be compared with the present. In `HistoryInv`, a running
  consolidation holds or awaits each loser that is still to be superseded
  (`LosersAccounted`), so that a finished one has left none behind, and its
  survivor has the tags of those it superseded (`ConsolidationsKept`); no memory
  loses a tag of its own (`OriginalTagsKept`); what a delete reported is gone
  (`DeletionsKept`). Hence `ConsolidationsStand`, `NoTagLost`, `NoDoubleReport`.
- `OrderedDeadlockFree`, for consolidations and access writes: such a statement
  holds rows below the one it waits for (`LocksInOrder` of `OrderInv`). Of a set
  of statements that wait for one another, which is finite because only
  finitely many have started (`StartedAreFinite`), one waits for the highest
  row, but the holder of that row waits for a higher one (`FiniteHasMaximal`, in
  the place of an induction along the cycle).

**`ClientOperationsProofs`** — any set of calls and requests, any finite set of
memories, failures before and after every store operation:

- `ClientTypeCorrect`, and `ImplementsStore`: the calls' steps are steps of the
  contract (`StoreStep`). The preflight reads of `consolidate` protect nothing
  against other clients; what the contract needs of the mutation is that a
  loser, once seen within the entity, is stored there or deleted, never unborn
  (`LosersKnown`).
- `ConsolidateIsDelivered`: a loser that is still stored points to the survivor
  of the call that reported success (`Delivered`).
- `AuditIsTrue`: what the store reported to one call as inserted or deleted it
  reported to no other (`ResultsAreTheirs`), an event names a memory at most
  once (`EventsNameOnce`), and the totals in prune and forgetAll events are at
  most the memories those calls deleted, counted per entity (`CountsAreTallied`).

**`ClientLifecycleProofs`** — any finite number of calls and any closes (with the
step of `ReentrantClose`, `OneClose` is false, see below): `LifecycleCorrect`
(`[]LifecycleInv`), `ClosesAlone`, `CloseShared`, `ClosedStays`. The inductive
`IInv` is `LifecycleInv` and `StoreClosesAlone`, which need one another: a
close may go on because the counter is exact, the counter stays zero because an
attempt is pending and the client therefore refuses calls, and only one attempt
is pending because the promise names it. `CountKept` and `CountZero` are the
facts about cardinalities.

**`MigrationsProofs`** — any number of racing calls, interrupted anywhere, on any
databases: `TypeCorrect`, `OneReport`, `NoRacerFails`, `SoundStaysSound`,
`SuccessIsLatest`, `RefusedIsUntouched`. In `MigrationInv`, only the holder of the lock is
between its read and the end of its transaction (`LockHeld`), so what it read is
still the database (`ReadIsCurrent`); every reported version is tracked
(`ReportsTracked`), so a later report names others (`ReportsDisjoint`).
A sound database stays sound (`SoundStaysSound`), and none becomes sound that was
not, so a call that met a failing statement or row met it on a database that is
still unsound (`NoRacerFails`). Nothing is assumed of the tracking table:
`SuccessIsLatest` promises a complete table and a column of the requested
dimensions always, and the newest schema only if what the last transaction read
was sound, which is all that the code guarantees.

**`EmbeddingCompatibilityProofs`** — any number of stores, embedders, models and
calls: `CompatibilityCorrect` (`[]EmbeddingInv`), `VectorSpaceKept`,
`CacheCorrect`, `RecordKept`. The inductive `IInv` is `EmbeddingInv` and
`OneVectorSpace`, and the strengthening is `InferenceHolds`: while a
check has inferred a model that it has not recorded and none is recorded, every
row carries the inferred model. It is kept because no row is added meanwhile: a
call inserts only after a passed check, and a passed check means a recorded
model (`CachedIsTrue`). So rows only shrink between inference and recording.

**`ResilienceProofs`** — any number of attempts and any set of retryable errors:
`CallCorrect` (`[]ResilienceInv`), `AnswersAreOwn`, `AbandonedTold`,
`NothingStays`, `EndIsFinal`. The strengthening is `AttemptsSettle`: at any time
only the awaited attempt is open, every other one has settled (and thereby
taken down its timer and listener) or threw at once, and whatever settled while
its provider was running was told. `ResultIsCurrent` adds that a value comes
from the last attempt, untold.

**`AuditPagingProofs`** — any number of readers, followers, events and
timestamps, any page size: `TypeCorrect`, `ReadersMissNothing`, `NothingTwice`,
`RoundsAreComplete`. `PagingInv` says where a process is: what it was given lies
at or above its beforeCursor or at or below its afterCursor (`GivenArePassed`),
and what is due to it lies above its afterCursor (`DueAreAbove`). A page takes
the newest of what lies between, so moving the cursor to its oldest event passes
over nothing (positions are totally ordered, `NewerIsOrder`; the log is finite,
`LogIsFinite`, so a page has an oldest event).

**`EmbeddedCallsProofs`** — any memories, scores, calls and texts, batches of any
length, any token counter:

- *The loops of buildContext*: `LoopsCorrect` (`[]BudgetInv`) and
  `ContextIsLargest`. The invariant of a binary search (`SearchInv`) says that
  the best candidate is the one just below the lower bound, and that the
  candidate just above the upper bound does not fit. The second fact is what a
  growing counter turns into "nothing above fits" (`NoneAbove`), and it must not
  be stated in that form, because for a counter that does not grow it is false
  and the loop goes on all the same. `StageInv` carries what one ladder has
  ruled out over to the next. `LoopsRunDown`: every turn lowers the natural
  number `TurnsLeft`, which is all of `ContextEnds` but its fairness.
- *In a call*: every step of a call is a step of `ContextBudget` or leaves it
  alone (`StepsOfTheLoops`), so `BudgetInv` is an invariant of the composition
  (`CallsReturnLargest`).
- *Pairing*, `BatchesArePaired`: a valid answer to n texts has n items with
  distinct indices below n, hence every index (`AllIndices`, by counting), so
  the item that is sorted into place i is the one for text i (`SortedByText`);
  and rows that pass `normalizeStoreRows` are the prepared rows in some order
  (`RowsPaired`). The invariant `PairInv` says where in a call this holds.
- *Ranking*, `BetterFirst`, with `CallTypeCorrect`: by `RecallInv` each list
  holds the best of what its search saw, in order, and does not change once
  recall has fused it. The recursion of `rankByScore` has a solution, the first
  place of each run of equal scores (`RanksOfScores`); ranks grow along a list
  and equal scores share one (`RanksGrow`, `EqualsShareRank`, by the least place
  where that fails). So who keeps up in a list is in it, with no smaller share
  (`KeepsUpInList`), and sums of shares and boosts keep the order of fractions
  (`PlusGrows`, `KeepsAhead`). The candidate that comes first in the lists is
  scored no later than the other (`FirstReadsMore`), so if it is never boosted
  less it is not boosted less now. The order of `compareScoredMemories` is total
  (`PrecedesTotal`), so what is kept can be sorted (`FiniteAreSortable`, by a
  smallest set that cannot), and the better memory is kept and comes first.

### Only model-checked

- Liveness (`EveryStatementEnds`, `EverythingSettles`, `EveryCallEnds`,
  `CallEnds`, `ContextEnds`): out of the prover's reach, for want of ENABLED.
- The three runs that end in a counterexample.

## Disagreements found

Each is a run that ends in a counterexample of a property that states what a
document or comment says.

1. `pg_selected_dependents`: **a guarded delete may delete a survivor together
   with its dependent.** `docs/features/maintenance.md:8-10` and
   `memory/store.ts:146-160` say a delete rejects while any memory points at a
   selected one, *including when that dependent is selected too*. The Postgres
   statement looks for dependents in its snapshot only; the foreign key sees
   only dependents that survive the delete. A forgetAll or prune that waits for
   a consolidation of two of its targets therefore deletes both and reports
   success. Nothing is left dangling (`SurvivorsStay`): the statements implement
   the contract with the relaxed delete.
2. `lifecycle_reentrant`: **a hook that calls `close()` on the start event of
   `close()` starts a second close.** `observe()` calls `onEvent` before
   `closePromise` is assigned; `types.ts:1047-1048` says concurrent calls share the
   same close operation. The step is in a module of its own, `ReentrantClose`,
   so that everything else about the client is checked and proved without it.
3. `audit_follower`: **paging with `afterCursor` alone is not complete.** The
   documents recommend it for complete pagination; a page after a cursor holds
   the *newest* events, so those between are skipped when more than a page has
   arrived. Paging down inside the window is complete (`audit_safety`).

Read in the code, and of a kind that no run here shows:

- **Caller-owned values.** `docs/guide/api.md:84-86` and
  `docs/DEVELOPMENT.md:104-105` say that tags, metadata and dates are
  snapshotted when a method is called. `remember` does so; `recall` spreads its
  input only after it has awaited the compatibility check and the embedding
  (`memory/client-core.ts:501`), so tags and dates that the caller changes in
  the meantime are searched for.
- **Ties at the candidate limit.** The comment on `compareScoredMemories`
  (`retrieval/scorer.ts:202-203`) says that the order does not depend on the
  stores. `vectorSearch` has no tie-breaker, so which of several equal memories
  is the last candidate does. `BetterNeverBelow` exempts memories that such a
  tie cut off.
- **Recency.** The same comment and `docs/features/retrieval.md:60` promise
  ties to the newer memory, then to the lower id. `recencyScore` reads the clock
  anew for every candidate (`retrieval/scorer.ts:154`), in the order of the
  stores' lists, so memories of one batch that are equal in everything may
  differ in score by the time between two readings: the one that the stores
  list first comes first, whatever its id, and it may even come before a
  slightly newer one. `BetterNeverBelow` says what is left of the promise: it
  holds for memories that were scored with the same boost, and for the one that
  was scored first (`ScoredFirst`).
- **A tracking table that is not true.** `migrate()` looks at the catalog only
  when the table has no rows. If objects are missing that a contiguous table
  lists, the pending migrations run as far as their statements succeed, and the
  call may report success without the newest schema: on the tables of 0001 with
  versions 0 to 2 recorded, 0003 commits and `embedding_model` is missing.
  `SuccessMeansLatest` leaves this open, and the run has such databases.
- **An empty `types`.** A recall with `types: []` finds nothing in memory
  (`memory/filters.ts:108`) and is unfiltered in Postgres
  (`db/queries/memories.ts:141`), where `docs/DEVELOPMENT.md:98-100` wants the
  backends to behave alike. The memories of a model are those that pass the
  filter.
- **Nothing fits.** `docs/guide/api.md:171-172` says that buildContext then
  returns a part of the line on omitted memories, or nothing;
  `docs/features/retrieval.md:159-161` says a part of a truncation marker. The
  code first tries the header cut short with the marker below it. `LargestContext`
  states what the code does.

## What is not modelled

- **get, list, stats and findDuplicates**: each reads one snapshot and changes
  nothing.
- **Scores**: cosine similarity, term matching, `ts_rank` and the exponential of
  the recency factor are floating-point functions of single memories;
  `RankFusion` starts from their values, and so it does for the recency at
  each time the clock shows. Rounding is left out with them.
- **Formats**: markdown, plain and XML are reduced to token counts.
- **Validation**: pure checks; the ones the models rely on are assumptions of
  the modules that use them (`ValidConsolidation`, `CallAssumption`).
- **The options and the request of the OpenAI embedder**, **driver adapters**:
  I/O; its outcomes are the failures of `Resilience`, `PostgresStore`,
  `ClientOperations` and `EmbeddedCalls`.
- **The check of pgvector's column type** next to the embedding check, cached
  in the same way.
- **A caller's own `shouldRetry`** replaces the default one in the code, also for
  the errors that the comment on `withResilience` (`resilience.ts:243-244`) says
  are never retried (VALIDATION, CONFIG, CONFLICT: only ABORTED is checked in the
  loop). `Resilience` takes the set of retried errors as the constant
  `Retryable`; the run gives it the default's.
- **An operator's manual change of the recorded model**: outside of the library.
- **The number of access writes after close**: documented as not waited for.

## Plan

Done, in this order: `MemoryStore`, `PostgresStore`, `ClientOperations`,
`ClientLifecycle`, `Migrations`, `EmbeddingCompatibility`, `Resilience`,
`AuditPaging`, `RankFusion`, `EmbeddingBatch`, `ContextBudget` and
`EmbeddedCalls`, each with its proofs.

Next theorems: what the liveness properties rest on, as far as it needs no
ENABLED, in the form of `LoopsRunDown`: a call of `Resilience` has finitely many
attempts, a statement finitely many rows to lock.

Next modules: the vector-type cache in `EmbeddingCompatibility`; a caller that
changes the input of a recall.

## How to run it

    tlc -workers 2 -config PostgresStoreSafety.cfg MCPostgresStore
    tlapm PostgresStoreProofs.tla

`PROJECT.json` lists, for each run, its module, configuration and properties.
