-------------------------- MODULE AuditPagingProofs --------------------------
(***************************************************************************)
(* Theorems about AuditPaging for any number of readers, followers, events *)
(* and timestamps, and any page size.                                      *)
(*                                                                         *)
(* The invariant says where a process is: all that it has been given lies  *)
(* at or above its beforeCursor or at or below its afterCursor, and all    *)
(* that is due to it and strictly between the two is still to come.  A     *)
(* page is upward closed in what lies between, so moving the cursor to its *)
(* oldest event passes over nothing.                                       *)
(***************************************************************************)
EXTENDS AuditPaging, FiniteSetTheorems, SequenceTheorems,
        WellFoundedInduction, TLAPS

-----------------------------------------------------------------------------
(* Positions.                                                              *)

(* compareAuditPositions is a strict total order on the positions.         *)
LEMMA NewerIsOrder ==
  ASSUME NEW x \in Positions, NEW y \in Positions, NEW z \in Positions
  PROVE  /\ ~Newer(x, x)
         /\ Newer(x, y) => ~Newer(y, x)
         /\ Newer(x, y) /\ Newer(y, z) => Newer(x, z)
         /\ x = y \/ Newer(x, y) \/ Newer(y, x)
<1>1. /\ x[1] \in Nat /\ x[2] \in Nat /\ x = <<x[1], x[2]>>
      /\ y[1] \in Nat /\ y[2] \in Nat /\ y = <<y[1], y[2]>>
      /\ z[1] \in Nat /\ z[2] \in Nat /\ z = <<z[1], z[2]>>
  <2>1. \A p \in Positions : /\ p[1] \in Times /\ p[2] \in EventIds
                             /\ p = <<p[1], p[2]>>
    BY DEF Positions
  <2>2. QED BY <2>1, PagingAssumption
<1>2. x[1] = y[1] /\ x[2] = y[2] => x = y
  BY <1>1
<1>3. QED BY <1>1, <1>2 DEF Newer

(* None is no position.                                                    *)
LEMMA NoneIsNoPosition == None \notin Positions
<1>1. \A x \in Positions : DOMAIN x = 1 .. 2
  BY DEF Positions
<1>2. DOMAIN None = {}
  BY DEF None
<1>3. QED BY <1>1, <1>2

(* A finite set has an element that no other is above, in any strict order:*)
(* one that as few as possible are above.                                  *)
LEMMA FiniteHasMaximal ==
  ASSUME NEW S, IsFiniteSet(S), S # {}, NEW R,
         \A x \in S : <<x, x>> \notin R,
         \A x, y, z \in S : <<x, y>> \in R /\ <<y, z>> \in R => <<x, z>> \in R
  PROVE  \E m \in S : \A x \in S : <<m, x>> \notin R
<1> DEFINE Above(x) == {y \in S : <<x, y>> \in R}
           Aboves == {Above(x) : x \in S}
<1>1. IsWellFoundedOn(StrictSubsetOrdering(S), SUBSET S)
  BY FS_StrictSubsetOrderingWellFounded, FS_FiniteSubsetsOfFinite
<1>2. Aboves \subseteq SUBSET S /\ Aboves # {}
  <2>1. \A x \in S : Above(x) \in SUBSET S
    OBVIOUS
  <2> HIDE DEF Above
  <2>2. QED BY <2>1
<1>3. PICK A \in Aboves :
        \A B \in Aboves : <<B, A>> \notin StrictSubsetOrdering(S)
  <2> HIDE DEF Aboves
  <2>1. QED BY <1>1, <1>2, WFMin
<1>4. PICK m \in S : A = Above(m)
  OBVIOUS
<1>5. ASSUME NEW x \in S, <<m, x>> \in R PROVE FALSE
  <2>1. Above(x) \subseteq Above(m) /\ x \in Above(m) /\ x \notin Above(x)
    BY <1>5
  <2>2. <<Above(x), Above(m)>> \in StrictSubsetOrdering(S)
    BY <2>1 DEF StrictSubsetOrdering
  <2>3. QED BY <1>3, <1>4, <2>2
<1>6. QED BY <1>5

(* A finite, non-empty set of positions has a newest and an oldest member. *)
LEMMA OldestOf ==
  ASSUME NEW S \in SUBSET Positions, IsFiniteSet(S), S # {}
  PROVE  Oldest(S) \in S /\ \A f \in S : ~Newer(Oldest(S), f)
<1> DEFINE R == {p \in S \X S : Newer(p[1], p[2])}
<1>1. /\ \A x \in S : <<x, x>> \notin R
      /\ \A x, y, z \in S : <<x, y>> \in R /\ <<y, z>> \in R => <<x, z>> \in R
  BY NewerIsOrder
<1>2. \A x, y \in S : <<x, y>> \in R <=> Newer(x, y)
  OBVIOUS
<1> HIDE DEF R
<1>3. \E e \in S : \A f \in S : <<e, f>> \notin R
  BY <1>1, FiniteHasMaximal
<1>4. \E e \in S : \A f \in S \ {e} : ~Newer(e, f)
  BY <1>2, <1>3
<1>5. Oldest(S) \in S /\ \A f \in S \ {Oldest(S)} : ~Newer(Oldest(S), f)
  BY <1>4 DEF Oldest
<1>6. QED BY <1>5, NewerIsOrder

LEMMA NewestOf ==
  ASSUME NEW S \in SUBSET Positions, IsFiniteSet(S), S # {}
  PROVE  Newest(S) \in S /\ \A f \in S : ~Newer(f, Newest(S))
<1> DEFINE R == {p \in S \X S : Newer(p[2], p[1])}
<1>1. /\ \A x \in S : <<x, x>> \notin R
      /\ \A x, y, z \in S : <<x, y>> \in R /\ <<y, z>> \in R => <<x, z>> \in R
  BY NewerIsOrder
<1>2. \A x, y \in S : <<x, y>> \in R <=> Newer(y, x)
  OBVIOUS
<1> HIDE DEF R
<1>3. \E e \in S : \A f \in S : <<e, f>> \notin R
  BY <1>1, FiniteHasMaximal
<1>4. \E e \in S : \A f \in S \ {e} : ~Newer(f, e)
  BY <1>2, <1>3
<1>5. Newest(S) \in S /\ \A f \in S \ {Newest(S)} : ~Newer(f, Newest(S))
  BY <1>4 DEF Newest
<1>6. QED BY <1>5, NewerIsOrder

(* The members of S that are newer than e.                                 *)
Above(e, S) == {f \in S : Newer(f, e)}

(* A page of S is not empty, holds at most Limit events and leaves out no  *)
(* event that is newer than one of its own.                                *)
LEMMA PageOf ==
  ASSUME NEW S \in SUBSET Positions, IsFiniteSet(S), S # {}
  PROVE  /\ Page(S) \subseteq S /\ Page(S) # {} /\ IsFiniteSet(Page(S))
         /\ Page(S) \in Pages
         /\ \A e \in Page(S), f \in S : Newer(f, e) => f \in Page(S)
<1>0. Limit \in Nat /\ Limit >= 1
  BY PagingAssumption
<1>1. \A e : IsFiniteSet(Above(e, S)) /\ Cardinality(Above(e, S)) \in Nat
  BY FS_Subset, FS_CardinalityType DEF Above
<1>2. Page(S) = {e \in S : Cardinality(Above(e, S)) < Limit}
  BY DEF Page, Above
<1>3. Page(S) \subseteq S /\ IsFiniteSet(Page(S))
  BY <1>2, FS_Subset
<1>4. Newest(S) \in Page(S)
  <2>1. Newest(S) \in S /\ Above(Newest(S), S) = {}
    BY NewestOf DEF Above
  <2>2. Cardinality(Above(Newest(S), S)) = 0
    BY <2>1, FS_EmptySet
  <2>3. QED BY <1>0, <1>2, <2>1, <2>2
<1>5. ASSUME NEW e \in Page(S), NEW f \in S, Newer(f, e)
      PROVE  f \in Page(S)
  <2>1. Above(f, S) \subseteq Above(e, S)
    BY <1>3, <1>5, NewerIsOrder DEF Above
  <2>2. Cardinality(Above(f, S)) <= Cardinality(Above(e, S))
    BY <1>1, <2>1, FS_Subset
  <2>3. Cardinality(Above(e, S)) < Limit
    BY <1>2
  <2>4. QED BY <1>0, <1>1, <1>2, <2>2, <2>3
<1>6. Cardinality(Page(S)) \in 1 .. Limit
  <2> DEFINE o == Oldest(Page(S))
  <2>1. o \in Page(S) /\ \A f \in Page(S) : ~Newer(o, f)
    BY <1>3, <1>4, OldestOf
  <2> HIDE DEF o
  <2>2. Page(S) \ {o} \subseteq Above(o, S)
    BY <1>3, <2>1, NewerIsOrder DEF Above
  <2>3. Cardinality(Page(S) \ {o}) <= Cardinality(Above(o, S))
    BY <1>1, <2>2, FS_Subset
  <2>4. Cardinality(Page(S) \ {o}) = Cardinality(Page(S)) - 1
    BY <1>3, <2>1, FS_RemoveElement
  <2>5. Cardinality(Above(o, S)) < Limit
    BY <1>2, <2>1
  <2>6. Cardinality(Page(S)) \in Nat /\ Cardinality(Page(S)) # 0
    BY <1>3, <1>4, FS_CardinalityType, FS_EmptySet
  <2>7. QED BY <1>0, <1>1, <2>3, <2>4, <2>5, <2>6
<1>7. QED BY <1>3, <1>4, <1>5, <1>6 DEF Pages

-----------------------------------------------------------------------------
(* The invariant.                                                          *)

LogIsFinite == IsFiniteSet(log)

(* A process has been given events of the log; the due ones of a reader    *)
(* are of it too and, in a round, lie above the round's afterCursor.       *)
GivenAreLogged == \A p \in Processes : Seen(p) \subseteq log

DueAreAbove ==
  \A r \in Readers :
    /\ due[r] \subseteq log
    /\ before[r] # None =>
         /\ Seen(r) # {}
         /\ after[r] # None => \A e \in due[r] : Newer(e, after[r])

(* What a process has been given is behind one of its cursors.             *)
Passed(p, e) ==
  \/ after[p] # None /\ ~Newer(e, after[p])
  \/ p \in Readers /\ before[p] # None /\ ~Newer(before[p], e)

GivenArePassed == \A p \in Processes : \A e \in Seen(p) : Passed(p, e)

PagingInv == /\ TypeOK
             /\ LogIsFinite
             /\ GivenAreLogged
             /\ DueAreAbove
             /\ GivenArePassed
             /\ NothingSkipped
             /\ NoRepeats

LEMMA InitInv == Init => PagingInv
<1> SUFFICES ASSUME Init PROVE PagingInv
  OBVIOUS
<1>1. \A p \in Processes : pages[p] = <<>> /\ Seen(p) = {}
  BY RangeEquality, EmptySeq DEF Init, Seen, Range
<1>2. TypeOK
  BY PagingAssumption, EmptySeq DEF Init, TypeOK
<1>3. LogIsFinite
  BY FS_EmptySet DEF Init, LogIsFinite
<1>4. GivenAreLogged /\ GivenArePassed
  BY <1>1 DEF GivenAreLogged, GivenArePassed
<1>5. DueAreAbove /\ NothingSkipped
  BY DEF Init, DueAreAbove, NothingSkipped
<1>6. NoRepeats
  BY <1>1 DEF NoRepeats
<1>7. QED BY <1>2, <1>3, <1>4, <1>5, <1>6 DEF PagingInv

(* What a process is given.                                                *)
LEMMA GiveTo ==
  ASSUME PagingInv, NEW p \in Processes, NEW page \in Pages, Give(p, page)
  PROVE  /\ pages' \in [Processes -> Seq(Pages)]
         /\ Seen(p)' = Seen(p) \union page
         /\ \A q \in Processes : q # p => Seen(q)' = Seen(q)
         /\ page \intersect Seen(p) = {} => NoRepeats'
<1> DEFINE s == pages[p]
           n == Len(pages[p])
<1>1. pages \in [Processes -> Seq(Pages)]
  BY DEF PagingInv, TypeOK
<1>2. /\ pages' = [pages EXCEPT ![p] = Append(s, page)]
      /\ pages'[p] = Append(s, page)
      /\ \A q \in Processes : q # p => pages'[q] = pages[q]
  BY <1>1 DEF Give
<1>3. s \in Seq(Pages) /\ Append(s, page) \in Seq(Pages)
  BY <1>1, AppendProperties
<1>4. pages' \in [Processes -> Seq(Pages)]
  BY <1>1, <1>2, <1>3
<1>5. /\ n \in Nat /\ DOMAIN s = 1 .. n
      /\ DOMAIN Append(s, page) = 1 .. n + 1
      /\ \A i \in 1 .. n : Append(s, page)[i] = s[i]
      /\ Append(s, page)[n + 1] = page
  BY <1>3, AppendProperties, LenProperties
<1>6. Seen(p)' = Seen(p) \union page
  <2> HIDE DEF s, n
  <2>1. Range(Append(s, page)) = Range(s) \union {page}
    <3>1. 1 .. n + 1 = (1 .. n) \union {n + 1}
      BY <1>5
    <3>2. QED BY <1>5, <3>1 DEF Range
  <2>2. UNION (Range(s) \union {page}) = (UNION Range(s)) \union page
    OBVIOUS
  <2>3. QED BY <1>2, <2>1, <2>2 DEF Seen, s
<1>7. \A q \in Processes : q # p => Seen(q)' = Seen(q)
  BY <1>2 DEF Seen
<1>8. ASSUME page \intersect Seen(p) = {} PROVE NoRepeats'
  <2>1. \A i \in 1 .. n : s[i] \subseteq Seen(p)
    BY <1>5 DEF Seen, Range
  <2>2. ASSUME NEW q \in Processes, NEW i \in DOMAIN pages'[q],
               NEW j \in DOMAIN pages'[q], i # j
        PROVE  pages'[q][i] \intersect pages'[q][j] = {}
    <3>1. CASE q # p
      BY <1>2, <2>2, <3>1 DEF PagingInv, NoRepeats
    <3>2. CASE q = p /\ i \in 1 .. n /\ j \in 1 .. n
      BY <1>2, <1>5, <2>2, <3>2 DEF PagingInv, NoRepeats
    <3>3. CASE q = p /\ (i = n + 1 \/ j = n + 1)
      BY <1>2, <1>5, <1>8, <2>1, <2>2, <3>3
    <3>4. QED BY <1>2, <1>5, <2>2, <3>1, <3>2, <3>3
  <2>3. QED BY <2>2 DEF NoRepeats
<1>9. QED BY <1>4, <1>6, <1>7, <1>8

(* Events that arrive move nobody's cursors.                               *)
LEMMA AddInv ==
  ASSUME PagingInv, NEW t \in Times, NEW ids \in SUBSET EventIds, Add(t, ids)
  PROVE  PagingInv'
<1> USE DEF PagingInv
<1>1. log \subseteq log' /\ log' = log \union ({t} \X ids)
  BY DEF Add
<1>2. UNCHANGED <<before, after, pages, due, rounds>>
  BY DEF Add
<1>3. \A p \in Processes : Seen(p)' = Seen(p)
  BY <1>2 DEF Seen
<1>4. TypeOK'
  BY <1>1, <1>2 DEF TypeOK, Positions
<1>5. LogIsFinite'
  <2>1. IsFiniteSet(ids) /\ IsFiniteSet({t})
    BY FS_Singleton DEF Add
  <2>2. IsFiniteSet({t} \X ids)
    BY <2>1, FS_Product
  <2>3. QED BY <1>1, <2>2, FS_Union DEF LogIsFinite
<1>6. GivenAreLogged' /\ DueAreAbove'
  BY <1>1, <1>2, <1>3 DEF GivenAreLogged, DueAreAbove, Processes
<1>7. GivenArePassed' /\ NothingSkipped' /\ NoRepeats'
  BY <1>2, <1>3
  DEF GivenArePassed, Passed, NothingSkipped, NoRepeats, Processes
<1>8. QED BY <1>4, <1>5, <1>6, <1>7

(* What a page that lies between the cursors brings, for its reader.       *)
LEMMA NextPage ==
  ASSUME PagingInv, NEW lower, NEW upper,
         NEW rest, rest = Within(lower, upper), rest # {},
         NEW page, page = Page(rest)
  PROVE  /\ rest \in SUBSET Positions /\ IsFiniteSet(rest)
         /\ page \subseteq rest /\ page \subseteq log /\ page # {}
         /\ page \in Pages /\ IsFiniteSet(page)
         /\ \A e \in page, f \in rest : Newer(f, e) => f \in page
         /\ \A e \in rest : /\ lower # None => Newer(e, lower)
                            /\ upper # None => Newer(upper, e)
         /\ Oldest(page) \in page /\ \A e \in page : ~Newer(Oldest(page), e)
         /\ Newest(page) \in page /\ \A e \in page : ~Newer(e, Newest(page))
<1>1. rest \subseteq log /\ rest \in SUBSET Positions /\ IsFiniteSet(rest)
  BY FS_Subset DEF Within, PagingInv, TypeOK, LogIsFinite
<1>2. /\ page \subseteq rest /\ page # {} /\ page \in Pages
      /\ IsFiniteSet(page)
      /\ \A e \in page, f \in rest : Newer(f, e) => f \in page
  BY <1>1, PageOf
<1>3. page \in SUBSET Positions
  BY <1>1, <1>2
<1>4. Oldest(page) \in page /\ \A e \in page : ~Newer(Oldest(page), e)
  BY <1>2, <1>3, OldestOf
<1>5. Newest(page) \in page /\ \A e \in page : ~Newer(e, Newest(page))
  BY <1>2, <1>3, NewestOf
<1>6. \A e \in rest : /\ lower # None => Newer(e, lower)
                      /\ upper # None => Newer(upper, e)
  BY DEF Within
<1>7. QED BY <1>1, <1>2, <1>4, <1>5, <1>6

(* A reader is given the page below its cursor, or the first page of a     *)
(* round, and moves the cursor to the oldest event of it.                  *)
LEMMA ReadInv ==
  ASSUME PagingInv, NEW r \in Readers,
         NEW rest, rest = Within(after[r], before[r]), rest # {},
         Give(r, Page(rest)),
         before' = [before EXCEPT ![r] = Oldest(Page(rest))],
         due' = [due EXCEPT ![r] = IF before[r] = None THEN rest ELSE @],
         rounds' \in [Readers -> 0 .. MaxRounds],
         UNCHANGED <<log, after>>
  PROVE  PagingInv'
<1> USE DEF PagingInv
<1> DEFINE page == Page(rest)
           o == Oldest(page)
<1>0. /\ r \in Processes /\ before[r] \in Positions \union {None}
      /\ page = Page(rest) /\ o = Oldest(page)
  BY DEF Processes, TypeOK
<1> HIDE DEF page, o
<1>1. /\ rest \in SUBSET Positions
      /\ page \subseteq rest /\ page \subseteq log /\ page # {}
      /\ page \in Pages
      /\ \A e \in page, f \in rest : Newer(f, e) => f \in page
      /\ \A e \in rest : /\ after[r] # None => Newer(e, after[r])
                         /\ before[r] # None => Newer(before[r], e)
      /\ o \in page /\ \A e \in page : ~Newer(o, e)
  BY <1>0, NextPage
<1>2. o \in Positions /\ o # None
  BY <1>1, NoneIsNoPosition
<1>3. /\ before'[r] = o
      /\ \A q \in Readers : q # r => before'[q] = before[q] /\ due'[q] = due[q]
      /\ before[r] = None => due'[r] = rest
      /\ before[r] # None => due'[r] = due[r]
  BY DEF TypeOK, o, page
<1>4. /\ pages' \in [Processes -> Seq(Pages)]
      /\ Seen(r)' = Seen(r) \union page
      /\ \A q \in Processes : q # r => Seen(q)' = Seen(q)
      /\ page \intersect Seen(r) = {} => NoRepeats'
  BY <1>0, <1>1, GiveTo DEF page
<1>5. Seen(r) \subseteq Positions /\ \A e \in Seen(r) : Passed(r, e)
  BY <1>0 DEF GivenAreLogged, GivenArePassed, TypeOK
<1>6. TypeOK'
  <2>1. rest \in SUBSET Positions
    BY <1>1
  <2>2. before' \in [Readers -> Positions \union {None}]
    BY <1>2 DEF TypeOK, o, page
  <2>3. due' \in [Readers -> SUBSET Positions]
    BY <2>1 DEF TypeOK
  <2>4. QED BY <1>4, <2>2, <2>3 DEF TypeOK
<1>7. LogIsFinite'
  BY DEF LogIsFinite
<1>8. GivenAreLogged'
  BY <1>1, <1>4 DEF GivenAreLogged
<1>9. DueAreAbove'
  <2>1. rest \subseteq log
    BY DEF Within
  <2>2. ASSUME NEW q \in Readers, q # r
        PROVE  /\ due'[q] \subseteq log'
               /\ before'[q] # None =>
                    /\ Seen(q)' # {}
                    /\ after'[q] # None =>
                         \A e \in due'[q] : Newer(e, after'[q])
    BY <1>3, <1>4, <2>2 DEF DueAreAbove, Processes
  <2>3. /\ due'[r] \subseteq log' /\ Seen(r)' # {}
        /\ after'[r] # None => \A e \in due'[r] : Newer(e, after'[r])
    BY <1>1, <1>3, <1>4, <2>1 DEF DueAreAbove
  <2>4. QED BY <2>2, <2>3 DEF DueAreAbove
<1>10. GivenArePassed'
  <2>1. ASSUME NEW q \in Processes, q # r, NEW e \in Seen(q)'
        PROVE  Passed(q, e)'
    BY <1>3, <1>4, <2>1 DEF GivenArePassed, Passed
  <2>2. ASSUME NEW e \in Seen(r)' PROVE Passed(r, e)'
    <3>1. CASE e \in page
      BY <1>1, <1>2, <1>3, <3>1 DEF Passed
    <3>2. CASE e \in Seen(r) /\ after[r] # None /\ ~Newer(e, after[r])
      BY <3>2 DEF Passed
    <3>3. CASE e \in Seen(r) /\ before[r] # None /\ ~Newer(before[r], e)
      <4>1. Newer(before[r], o)
        BY <1>1, <3>3
      <4>2. /\ before[r] \in Positions /\ e \in Positions
        BY <1>0, <1>5, <3>3
      <4>3. ~Newer(o, e)
        BY <1>2, <3>3, <4>1, <4>2, NewerIsOrder
      <4>4. QED BY <1>2, <1>3, <4>3 DEF Passed
    <3>4. QED BY <1>4, <1>5, <3>1, <3>2, <3>3 DEF Passed
  <2>3. QED BY <2>1, <2>2 DEF GivenArePassed
<1>11. NothingSkipped'
  <2>1. ASSUME NEW q \in Readers, q # r, NEW e \in due'[q],
               before'[q] # None => ~Newer(before'[q], e)
        PROVE  e \in Seen(q)'
    BY <1>3, <1>4, <2>1 DEF NothingSkipped, Processes
  <2>2. ASSUME NEW e \in due'[r], ~Newer(o, e)
        PROVE  e \in Seen(r)'
    <3>1. CASE e \in rest
      <4>1. e = o \/ Newer(e, o)
        BY <1>1, <1>2, <2>2, <3>1, NewerIsOrder
      <4>2. QED BY <1>1, <1>4, <3>1, <4>1
    <3>2. CASE e \notin rest
      <4>1. before[r] # None /\ e \in due[r]
        BY <1>3, <2>2, <3>2
      <4>2. ~Newer(before[r], e)
        BY <3>2, <4>1 DEF DueAreAbove, Within
      <4>3. QED BY <1>4, <4>1, <4>2 DEF NothingSkipped
    <3>3. QED BY <3>1, <3>2
  <2>3. QED BY <1>2, <1>3, <2>1, <2>2 DEF NothingSkipped
<1>12. NoRepeats'
  <2>1. ASSUME NEW e \in page PROVE ~Passed(r, e)
    BY <1>1, <2>1 DEF Passed
  <2>2. page \intersect Seen(r) = {}
    BY <1>5, <2>1
  <2>3. QED BY <1>4, <2>2
<1>13. QED BY <1>6, <1>7, <1>8, <1>9, <1>10, <1>11, <1>12

LEMMA BeginInv ==
  ASSUME PagingInv, NEW r \in Readers, Begin(r)
  PROVE  PagingInv'
<1> USE DEF PagingInv
<1> DEFINE all == Within(after[r], None)
<1>1. /\ before[r] = None /\ all \subseteq log
      /\ UNCHANGED <<log, after>>
      /\ due' = [due EXCEPT ![r] = all]
      /\ rounds' \in [Readers -> 0 .. MaxRounds]
  <2>1. rounds[r] + 1 \in 0 .. MaxRounds
    BY PagingAssumption DEF Begin, TypeOK
  <2>2. QED BY <2>1 DEF Begin, TypeOK, Within
<1>2. CASE all # {}
  <2>1. all = Within(after[r], before[r])
    BY <1>1
  <2>2. Give(r, Page(all)) /\ before' = [before EXCEPT ![r] = Oldest(Page(all))]
    BY <1>2 DEF Begin
  <2>3. due' = [due EXCEPT ![r] = IF before[r] = None THEN all ELSE @]
    BY <1>1
  <2> HIDE DEF all
  <2>4. QED BY <1>1, <1>2, <2>1, <2>2, <2>3, ReadInv
<1>3. CASE all = {}
  <2>1. UNCHANGED <<before, pages>> /\ due' = [due EXCEPT ![r] = {}]
    BY <1>1, <1>3 DEF Begin
  <2>2. \A p \in Processes : Seen(p)' = Seen(p)
    BY <2>1 DEF Seen
  <2>3. \A q \in Readers : due'[q] = IF q = r THEN {} ELSE due[q]
    BY <2>1 DEF TypeOK
  <2>4. TypeOK'
    BY <1>1, <2>1 DEF TypeOK
  <2>5. LogIsFinite' /\ GivenAreLogged'
    BY <1>1, <2>2 DEF LogIsFinite, GivenAreLogged
  <2>6. DueAreAbove' /\ NothingSkipped'
    BY <1>1, <2>1, <2>2, <2>3 DEF DueAreAbove, NothingSkipped, Processes
  <2>7. GivenArePassed' /\ NoRepeats'
    BY <1>1, <2>1, <2>2 DEF GivenArePassed, Passed, NoRepeats
  <2>8. QED BY <2>4, <2>5, <2>6, <2>7
<1>4. QED BY <1>2, <1>3

(* The end of a round: nothing due is left below the cursor.               *)
LEMMA RoundEnd ==
  ASSUME PagingInv, NEW r \in Readers, Down(r),
         Within(after[r], before[r]) = {}
  PROVE  /\ before[r] # None /\ UNCHANGED <<log, pages, due, rounds>>
         /\ before' = [before EXCEPT ![r] = None]
         /\ after' = [after EXCEPT ![r] = Newest(Seen(r))]
         /\ Newest(Seen(r)) \in Positions
         /\ \A e \in Seen(r) : ~Newer(e, Newest(Seen(r)))
         /\ due[r] \subseteq Seen(r)
<1> USE DEF PagingInv
<1>1. /\ before[r] # None /\ UNCHANGED <<log, pages, due, rounds>>
      /\ before' = [before EXCEPT ![r] = None]
      /\ after' = [after EXCEPT ![r] = Newest(Seen(r))]
  BY DEF Down
<1>2. Seen(r) \in SUBSET Positions /\ Seen(r) # {} /\ IsFiniteSet(Seen(r))
  BY <1>1, FS_Subset
  DEF DueAreAbove, GivenAreLogged, LogIsFinite, TypeOK, Processes
<1>3. /\ Newest(Seen(r)) \in Positions
      /\ \A e \in Seen(r) : ~Newer(e, Newest(Seen(r)))
  BY <1>2, NewestOf
<1>4. ASSUME NEW e \in due[r] PROVE e \in Seen(r)
  <2>1. e \in log /\ (after[r] # None => Newer(e, after[r]))
    BY <1>1, <1>4 DEF DueAreAbove
  <2>2. ~Newer(before[r], e)
    BY <2>1 DEF Within
  <2>3. QED BY <1>4, <2>2 DEF NothingSkipped
<1>5. QED BY <1>1, <1>3, <1>4

LEMMA DownInv ==
  ASSUME PagingInv, NEW r \in Readers, Down(r)
  PROVE  PagingInv'
<1> USE DEF PagingInv
<1> DEFINE rest == Within(after[r], before[r])
<1>1. CASE rest # {}
  <2>1. /\ Give(r, Page(rest)) /\ UNCHANGED <<log, after, due, rounds>>
        /\ before' = [before EXCEPT ![r] = Oldest(Page(rest))]
        /\ before[r] # None
    BY <1>1 DEF Down
  <2>2. due' = [due EXCEPT ![r] = IF before[r] = None THEN rest ELSE @]
    BY <2>1 DEF TypeOK
  <2>3. rounds' \in [Readers -> 0 .. MaxRounds]
    BY <2>1 DEF TypeOK
  <2> HIDE DEF rest
  <2>4. QED BY <1>1, <2>1, <2>2, <2>3, ReadInv DEF rest
<1>2. CASE rest = {}
  <2> DEFINE n == Newest(Seen(r))
  <2>1. /\ UNCHANGED <<log, pages, due, rounds>>
        /\ before' = [before EXCEPT ![r] = None]
        /\ after' = [after EXCEPT ![r] = n]
        /\ n \in Positions /\ due[r] \subseteq Seen(r)
        /\ \A e \in Seen(r) : ~Newer(e, n)
    BY <1>2, RoundEnd
  <2> HIDE DEF n
  <2>2. \A p \in Processes : Seen(p)' = Seen(p)
    BY <2>1 DEF Seen
  <2>3. r \in Processes /\ n # None
    BY <2>1, NoneIsNoPosition DEF Processes
  <2>4. /\ before'[r] = None /\ after'[r] = n
        /\ \A q \in Processes : q # r =>
             /\ after'[q] = after[q]
             /\ q \in Readers => before'[q] = before[q]
    BY <2>1, <2>3 DEF TypeOK
  <2>5. TypeOK'
    BY <2>1, <2>3 DEF TypeOK
  <2>6. LogIsFinite' /\ GivenAreLogged' /\ NoRepeats'
    BY <2>1, <2>2 DEF LogIsFinite, GivenAreLogged, NoRepeats
  <2>7. DueAreAbove' /\ NothingSkipped'
    BY <2>1, <2>2, <2>4 DEF DueAreAbove, NothingSkipped, Processes
  <2>8. GivenArePassed'
    BY <2>1, <2>2, <2>3, <2>4 DEF GivenArePassed, Passed
  <2>9. QED BY <2>5, <2>6, <2>7, <2>8
<1>3. QED BY <1>1, <1>2

(* A follower's page lies above its cursor; the cursor moves to the newest *)
(* event of it.                                                            *)
LEMMA UpInv ==
  ASSUME PagingInv, NEW p \in Followers, Up(p)
  PROVE  PagingInv'
<1> USE DEF PagingInv
<1> DEFINE rest == Within(after[p], None)
           page == Page(rest)
           n == Newest(page)
<1>1. /\ rest # {} /\ Give(p, page) /\ after' = [after EXCEPT ![p] = n]
      /\ UNCHANGED <<log, before, due, rounds>>
  BY DEF Up
<1>2. p \in Processes /\ p \notin Readers
  BY PagingAssumption DEF Processes
<1>3. /\ rest \in SUBSET Positions
      /\ page \subseteq rest /\ page \subseteq log /\ page \in Pages
      /\ \A e \in rest : after[p] # None => Newer(e, after[p])
      /\ n \in page /\ \A e \in page : ~Newer(e, n)
  BY <1>1, <1>2, NextPage
<1>4. /\ pages' \in [Processes -> Seq(Pages)]
      /\ Seen(p)' = Seen(p) \union page
      /\ \A q \in Processes : q # p => Seen(q)' = Seen(q)
      /\ page \intersect Seen(p) = {} => NoRepeats'
  BY <1>1, <1>2, <1>3, GiveTo
<1> HIDE DEF rest, page, n
<1>5. n \in Positions /\ n # None
  BY <1>3, NoneIsNoPosition
<1>6. after'[p] = n /\ \A q \in Processes : q # p => after'[q] = after[q]
  BY <1>1, <1>2 DEF TypeOK
<1>7. /\ Seen(p) \subseteq Positions
      /\ \A e \in Seen(p) : after[p] # None /\ ~Newer(e, after[p])
  BY <1>2 DEF GivenAreLogged, GivenArePassed, Passed, TypeOK
<1>8. TypeOK'
  BY <1>1, <1>2, <1>4, <1>5 DEF TypeOK
<1>9. LogIsFinite' /\ GivenAreLogged'
  BY <1>1, <1>3, <1>4 DEF LogIsFinite, GivenAreLogged
<1>10. \A r \in Readers : r # p /\ Seen(r)' = Seen(r) /\ after'[r] = after[r]
  BY <1>2, <1>4, <1>6 DEF Processes
<1>11. DueAreAbove' /\ NothingSkipped'
  BY <1>1, <1>10 DEF DueAreAbove, NothingSkipped
<1>12. GivenArePassed'
  <2>1. ASSUME NEW q \in Processes, q # p, NEW e \in Seen(q)'
        PROVE  Passed(q, e)'
    BY <1>1, <1>4, <1>6, <2>1 DEF GivenArePassed, Passed
  <2>2. ASSUME NEW e \in Seen(p)' PROVE ~Newer(e, n)
    <3>1. CASE e \in page
      BY <1>3, <3>1
    <3>2. CASE e \in Seen(p)
      <4>1. after[p] \in Positions /\ e \in Positions
        BY <1>2, <1>7, <3>2 DEF TypeOK
      <4>2. ~Newer(e, after[p]) /\ Newer(n, after[p])
        BY <1>3, <1>7, <3>2
      <4>3. QED BY <1>5, <4>1, <4>2, NewerIsOrder
    <3>3. QED BY <1>4, <3>1, <3>2
  <2>3. QED BY <1>5, <1>6, <2>1, <2>2 DEF GivenArePassed, Passed
<1>13. NoRepeats'
  <2>1. page \intersect Seen(p) = {}
    BY <1>3, <1>7
  <2>2. QED BY <1>4, <2>1
<1>14. QED BY <1>8, <1>9, <1>11, <1>12, <1>13

LEMMA StepInv == PagingInv /\ [Next]_vars => PagingInv'
<1>1. CASE UNCHANGED vars
  BY <1>1
  DEF vars, PagingInv, TypeOK, LogIsFinite, GivenAreLogged, DueAreAbove,
      GivenArePassed, Passed, NothingSkipped, NoRepeats, Seen
<1>2. QED BY <1>1, AddInv, BeginInv, DownInv, UpInv DEF Next

LEMMA Inductive == Spec => []PagingInv
BY InitInv, StepInv, PTL DEF Spec

-----------------------------------------------------------------------------
(* The theorems.                                                           *)

(* Every page holds between one and Limit events of the log's positions.   *)
THEOREM TypeCorrect == Spec => []TypeOK
<1>1. PagingInv => TypeOK
  BY DEF PagingInv
<1>2. QED BY <1>1, Inductive, PTL

(* Paging down with beforeCursor misses no event that was there when the   *)
(* round began: not among events of one timestamp, and not when events     *)
(* arrive above, between or below the cursors.                             *)
THEOREM ReadersMissNothing == Spec => []NothingSkipped
<1>1. PagingInv => NothingSkipped
  BY DEF PagingInv
<1>2. QED BY <1>1, Inductive, PTL

(* Neither a reader nor a follower is given an event twice.                *)
THEOREM NothingTwice == Spec => []NoRepeats
<1>1. PagingInv => NoRepeats
  BY DEF PagingInv
<1>2. QED BY <1>1, Inductive, PTL

(* A round that ends has given its reader all that was due, and the        *)
(* afterCursor of the next round is at or above all of it.                 *)
THEOREM RoundsAreComplete == Spec => RoundIsComplete
<1> DEFINE Complete ==
      \A r \in Readers : before[r] # None /\ before'[r] = None =>
        \A e \in due[r] : e \in Seen(r) /\ ~Newer(e, after'[r])
<1>1. ASSUME PagingInv, [Next]_vars PROVE [Complete]_vars
  <2> SUFFICES ASSUME NEW r \in Readers, before[r] # None, before'[r] = None,
                      NEW e \in due[r]
               PROVE  e \in Seen(r) /\ ~Newer(e, after'[r])
    OBVIOUS
  <2>1. CASE before' = before
    BY <2>1
  <2>2. ASSUME NEW q \in Readers, Begin(q) \/ Down(q), q # r
        PROVE  before'[r] = before[r]
    <3>1. \/ before' = before
          \/ \E x : before' = [before EXCEPT ![q] = x]
      BY <2>2 DEF Begin, Down
    <3>2. QED BY <1>1, <2>2, <3>1 DEF PagingInv, TypeOK
  <2>3. ~Begin(r)
    BY DEF Begin
  <2>4. ASSUME Down(r), Within(after[r], before[r]) # {} PROVE FALSE
    <3> DEFINE rest == Within(after[r], before[r])
               o == Oldest(Page(rest))
    <3>1. /\ r \in Processes /\ before[r] \in Positions \union {None}
          /\ rest = Within(after[r], before[r]) /\ rest # {}
          /\ o = Oldest(Page(rest))
      BY <1>1, <2>4 DEF Processes, PagingInv, TypeOK
    <3>2. before' = [before EXCEPT ![r] = o]
      BY <2>4 DEF Down
    <3> HIDE DEF o, rest
    <3>3. o \in Page(rest) /\ Page(rest) \subseteq rest
          /\ rest \in SUBSET Positions
      BY <1>1, <3>1, NextPage
    <3>4. before'[r] = o
      BY <1>1, <3>2 DEF PagingInv, TypeOK
    <3>5. QED BY <3>3, <3>4, NoneIsNoPosition
  <2>5. CASE Down(r) /\ Within(after[r], before[r]) = {}
    <3>1. /\ after' = [after EXCEPT ![r] = Newest(Seen(r))]
          /\ \A f \in Seen(r) : ~Newer(f, Newest(Seen(r)))
          /\ due[r] \subseteq Seen(r)
      BY <1>1, <2>5, RoundEnd
    <3>2. after'[r] = Newest(Seen(r))
      BY <1>1, <3>1 DEF PagingInv, TypeOK, Processes
    <3>3. QED BY <3>1, <3>2
  <2>6. QED
    BY <1>1, <2>1, <2>2, <2>3, <2>4, <2>5 DEF Next, vars, Add, Up
<1>2. QED BY <1>1, Inductive, PTL DEF Spec, RoundIsComplete
=============================================================================
