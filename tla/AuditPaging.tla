---------------------------- MODULE AuditPaging ----------------------------
(***************************************************************************)
(* listAuditLog (src/db/queries/events.ts, src/memory/in-memory.ts) and the*)
(* readers that page through it while events keep arriving.  A reader pages*)
(* from the newest event down with beforeCursor; afterCursor keeps it from *)
(* what its earlier rounds have seen.  A follower pages up with afterCursor*)
(* alone.                                                                  *)
(*                                                                         *)
(* Only the position <<timestamp, id>> of an event is kept.  Ids are random*)
(* and clocks differ, so that an event may arrive below older ones.  Bound:*)
(* Times and EventIds are finite, an id is used once, a reader makes       *)
(* MaxRounds rounds.                                                       *)
(***************************************************************************)
EXTENDS Naturals, SequencesExt

CONSTANTS
  Times,      \* timestamps
  EventIds,   \* event ids, in the order of their text
  Limit,      \* the page size
  Readers,    \* processes that page down
  Followers,  \* processes that page up
  MaxRounds,  \* the bound on rounds
  InOrder     \* does every event arrive above the ones before it?

VARIABLES
  log,     \* the positions of mnemocyte_events
  before,  \* the beforeCursor of each reader, None at the start of a round
  after,   \* the afterCursor of each process, None for all events
  pages,   \* the pages that each process has been given
  due,     \* the events that were there when the reader's round started
  rounds   \* the rounds that each reader has begun

vars == <<log, before, after, pages, due, rounds>>
Processes == Readers \union Followers
Positions == Times \X EventIds
None == <<>>

ASSUME PagingAssumption ==
  /\ Times \subseteq Nat /\ EventIds \subseteq Nat
  /\ Limit \in Nat \ {0} /\ MaxRounds \in Nat
  /\ Readers \intersect Followers = {}
  /\ InOrder \in BOOLEAN

Pages == {page \in SUBSET Positions : Cardinality(page) \in 1 .. Limit}

TypeOK ==
  /\ log \subseteq Positions
  /\ before \in [Readers -> Positions \union {None}]
  /\ after \in [Processes -> Positions \union {None}]
  /\ pages \in [Processes -> Seq(Pages)]
  /\ due \in [Readers -> SUBSET Positions]
  /\ rounds \in [Readers -> 0 .. MaxRounds]

Init ==
  /\ log = {}
  /\ before = [r \in Readers |-> None]
  /\ after = [p \in Processes |-> None]
  /\ pages = [p \in Processes |-> <<>>]
  /\ due = [r \in Readers |-> {}]
  /\ rounds = [r \in Readers |-> 0]

-----------------------------------------------------------------------------
(* listAuditLog                                                            *)

(* compareAuditPositions; (timestamp, id) > (..., ...)                     *)
Newer(x, y) == x[1] > y[1] \/ (x[1] = y[1] /\ x[2] > y[2])

StampsOnly(lower, upper) ==  \* fault: cursors compare timestamps only
  {e \in log : (lower # None => e[1] > lower[1]) /\
               (upper # None => upper[1] > e[1])}
Inclusive(lower, upper) ==  \* fault: <= and >= in the place of < and >
  {e \in log : (lower # None => ~Newer(lower, e)) /\
               (upper # None => ~Newer(e, upper))}
(* What the cursors let through                                            *)
Within(lower, upper) ==
  {e \in log : (lower # None => Newer(e, lower)) /\
               (upper # None => Newer(upper, e))}

OldestFirst(S) ==  \* fault: the order of the page is ascending
  {e \in S : Cardinality({f \in S : Newer(e, f)}) < Limit}
OneTooMany(S) ==  \* fault: a page over the limit
  {e \in S : Cardinality({f \in S : Newer(f, e)}) <= Limit}
(* ORDER BY timestamp DESC, id DESC LIMIT                                  *)
Page(S) == {e \in S : Cardinality({f \in S : Newer(f, e)}) < Limit}

Newest(S) == CHOOSE e \in S : \A f \in S \ {e} : ~Newer(f, e)
Oldest(S) == CHOOSE e \in S : \A f \in S \ {e} : ~Newer(e, f)

-----------------------------------------------------------------------------
(* addAuditEvents, consolidateMemories: an operation adds a few events,    *)
(* which may share its timestamp.                                          *)
Add(t, ids) ==
  /\ ids # {} /\ IsFiniteSet(ids) /\ \A e \in log : e[2] \notin ids
  /\ LET new == {t} \X ids IN
       /\ InOrder => \A e \in log, n \in new : Newer(n, e)
       /\ log' = log \union new
  /\ UNCHANGED <<before, after, pages, due, rounds>>

Give(p, page) == pages' = [pages EXCEPT ![p] = Append(@, page)]
Seen(p) == UNION Range(pages[p])

(* The first page of a round: the last event of a page is the next cursor. *)
Begin(r) ==
  /\ before[r] = None /\ rounds[r] < MaxRounds
  /\ LET all == Within(after[r], None) IN
       /\ rounds' = [rounds EXCEPT ![r] = @ + 1]
       /\ due' = [due EXCEPT ![r] = all]
       /\ IF all = {}
          THEN UNCHANGED <<before, pages>>
          ELSE /\ before' = [before EXCEPT ![r] = Oldest(Page(all))]
               /\ Give(r, Page(all))
  /\ UNCHANGED <<log, after>>

(* A further page: an empty one ends the round.                            *)
Down(r) ==
  /\ before[r] # None
  /\ LET rest == Within(after[r], before[r]) IN
       IF rest = {}
       THEN /\ before' = [before EXCEPT ![r] = None]
            /\ after' = [after EXCEPT ![r] = Newest(Seen(r))]
            /\ UNCHANGED pages
       ELSE /\ before' = [before EXCEPT ![r] = Oldest(Page(rest))]
            /\ Give(r, Page(rest))
            /\ UNCHANGED after
  /\ UNCHANGED <<log, due, rounds>>

(* A page of a follower: its first event is the next cursor.               *)
Up(p) ==
  /\ LET rest == Within(after[p], None) IN
       /\ rest # {}
       /\ Give(p, Page(rest))
       /\ after' = [after EXCEPT ![p] = Newest(Page(rest))]
  /\ UNCHANGED <<log, before, due, rounds>>

-----------------------------------------------------------------------------
Next ==
  \/ \E t \in Times, ids \in SUBSET EventIds : Add(t, ids)
  \/ \E r \in Readers : Begin(r) \/ Down(r)
  \/ \E p \in Followers : Up(p)

Spec == Init /\ [][Next]_vars

-----------------------------------------------------------------------------
(* Whatever is between the cursors of a round and was there when the round *)
(* began has been given to the reader; events that share a timestamp and   *)
(* events that arrive meanwhile do not make it miss one.                   *)
NothingSkipped ==
  \A r \in Readers : \A e \in due[r] :
    (before[r] # None => ~Newer(before[r], e)) => e \in Seen(r)

(* No process is given an event twice, in one round or in two.             *)
NoRepeats ==
  \A p \in Processes : \A i, j \in DOMAIN pages[p] :
    i # j => pages[p][i] \intersect pages[p][j] = {}

(* A round is complete: what the reader has not been given either came     *)
(* after the round began or lies below what an earlier round has seen.     *)
RoundIsComplete ==
  [][\A r \in Readers : before[r] # None /\ before'[r] = None =>
       \A e \in due[r] : e \in Seen(r) /\ ~Newer(e, after'[r])]_vars

(* What the documents say of afterCursor, where events arrive in order:    *)
(* between the events that a follower was given it has missed none.        *)
FollowingIsComplete ==
  \A p \in Followers : \A e \in log \ Seen(p) :
    ~ \E x, y \in Seen(p) : Newer(x, e) /\ Newer(e, y)
=============================================================================
