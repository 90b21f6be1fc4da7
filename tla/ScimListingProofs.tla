--------------------------- MODULE ScimListingProofs ---------------------------
(***************************************************************************)
(* The lists, for every table, every page size and every query: types, the *)
(* size of a page, what a lookup returns, and what a client that reads     *)
(* page after page skips and repeats.                                      *)
(***************************************************************************)
EXTENDS ScimListing, FiniteSetTheorems, TLAPS

(* Max and Min of two numbers, which the arithmetic of a page is made of.  *)
LEMMA MaxOfTwo ==
  ASSUME NEW a \in Int, NEW b \in Int
  PROVE  Max({a, b}) = IF a >= b THEN a ELSE b
<1> DEFINE m == IF a >= b THEN a ELSE b
<1>1. m \in {a, b} /\ \A y \in {a, b} : m >= y
  OBVIOUS
<1>2. \A x \in {a, b} : (\A y \in {a, b} : x >= y) => x = m
  OBVIOUS
<1> HIDE DEF m
<1>3. Max({a, b}) = m
  BY <1>1, <1>2 DEF Max
<1> QED
  BY <1>3 DEF m

LEMMA MinOfTwo ==
  ASSUME NEW a \in Int, NEW b \in Int
  PROVE  Min({a, b}) = IF a <= b THEN a ELSE b
<1> DEFINE m == IF a <= b THEN a ELSE b
<1>1. m \in {a, b} /\ \A y \in {a, b} : m <= y
  OBVIOUS
<1>2. \A x \in {a, b} : (\A y \in {a, b} : x <= y) => x = m
  OBVIOUS
<1> HIDE DEF m
<1>3. Min({a, b}) = m
  BY <1>1, <1>2 DEF Min
<1> QED
  BY <1>3 DEF m

LEMMA AtMost ==
  ASSUME NEW a \in Int, NEW b \in Int
  PROVE  Min({a, Max({b, 0})}) <= a
<1>1. Max({b, 0}) \in Int
  BY MaxOfTwo
<1> PICK m : m = Max({b, 0})
  OBVIOUS
<1>2. m \in Int
  BY <1>1
<1>3. Min({a, m}) = IF a <= m THEN a ELSE m
  BY <1>2, MinOfTwo
<1> QED
  BY <1>2, <1>3

(* What is read from the numbers of a query that Prisma accepts.           *)
LEMMA NumbersRead ==
  ASSUME NEW q \in Query \cup PageQuery, PrismaAccepts(q)
  PROVE  /\ StartIndex(q.startIndex) \in Nat \ {0}
         /\ Skip(StartIndex(q.startIndex)) = StartIndex(q.startIndex) - 1
         /\ Count(q.count) \in Nat
         /\ q.count \in Nat => Count(q.count) = q.count
<1>1. q.startIndex \in {NaN, Fraction} \cup Int /\ q.count \in {NaN, Fraction} \cup Int
  BY NumbersAssumption, PageSizeAssumption, RowsAssumption, FS_CardinalityType
     DEF Query, PageQuery
<1>2. /\ StartIndex(q.startIndex) \in Nat \ {0} /\ Count(q.count) \in Nat
      /\ q.count \in Nat => Count(q.count) = q.count
  BY <1>1, NumbersAssumption DEF PrismaAccepts, StartIndex, Count, Usable
<1>3. Skip(StartIndex(q.startIndex)) = StartIndex(q.startIndex) - 1
  <2> DEFINE from == StartIndex(q.startIndex)
  <2>1. from \in Nat \ {0}
    BY <1>2
  <2> HIDE DEF from
  <2>2. Max({from - 1, 0}) = IF from - 1 >= 0 THEN from - 1 ELSE 0
    BY <2>1, MaxOfTwo
  <2>3. Skip(from) = from - 1
    BY <2>1, <2>2 DEF Skip
  <2> QED
    BY <2>3 DEF from
<1> QED
  BY <1>2, <1>3

(* A page fits its set when it has rows of the set, as many as skip and    *)
(* count leave, and all of them when the page is as long as the set.       *)
Fits(page, S, skip, count) ==
  /\ page \subseteq S
  /\ Cardinality(page) = Min({count, Max({Cardinality(S) - skip, 0})})
  /\ skip = 0 /\ Cardinality(S) <= count => page = S

LEMMA PageOfSet ==
  ASSUME NEW S, IsFiniteSet(S), NEW o \in SetToSeqs(S), NEW q,
         NEW skip \in Nat, Skip(StartIndex(q.startIndex)) = skip,
         NEW count \in Nat, Count(q.count) = count
  PROVE  Fits(Page(o, q), S, skip, count)
<1> DEFINE n == Cardinality(S)
           last == IF skip + count <= n THEN skip + count ELSE n
           J == {j \in DOMAIN o : skip < j /\ j <= skip + count}
           P == Page(o, q)
           onto == [j \in J |-> o[j]]
<1>1. n \in Nat
  BY FS_CardinalityType
<1>2. o \in [1..n -> S] /\ DOMAIN o = 1..n /\ \A i, j \in 1..n : i # j => o[i] # o[j]
  BY DEF SetToSeqs
<1>3. P = {o[i] : i \in J}
  BY DEF Page
<1> HIDE DEF n, P
<1>4. P \subseteq S
  BY <1>2, <1>3
<1>5. J = (skip + 1)..last /\ last \in Nat
  BY <1>1, <1>2
<1>6. IsFiniteSet(J) /\ Cardinality(J) = IF skip + 1 > last THEN 0 ELSE last - skip
  <2>1. last \in Int /\ skip + 1 \in Int /\ last - (skip + 1) + 1 = last - skip
    BY <1>5
  <2> HIDE DEF last, J
  <2>2. IsFiniteSet((skip + 1)..last)
        /\ Cardinality((skip + 1)..last) = IF skip + 1 > last THEN 0 ELSE last - (skip + 1) + 1
    BY <2>1, FS_Interval
  <2> QED
    BY <1>5, <2>1, <2>2
<1>7. Cardinality(P) = Cardinality(J)
  <2>1. onto \in [J -> P] /\ \A j \in J : onto[j] = o[j]
    BY <1>3
  <2>2. onto \in Surjection(J, P)
    BY <1>3, <2>1 DEF Surjection
  <2>3. \A i, j \in J : onto[i] = onto[j] => i = j
    BY <1>2, <2>1
  <2>4. onto \in Injection(J, P)
    BY <2>1, <2>3, Zenon DEF Injection, IsInjective
  <2> QED
    BY <1>6, <2>2, <2>4, FS_Surjection
<1>8. Min({count, Max({n - skip, 0})}) = IF skip + 1 > last THEN 0 ELSE last - skip
  <2>1. Max({n - skip, 0}) = IF n - skip >= 0 THEN n - skip ELSE 0
    BY <1>1, MaxOfTwo
  <2> PICK left : left = Max({n - skip, 0})
    OBVIOUS
  <2>2. left \in Int /\ left = IF n - skip >= 0 THEN n - skip ELSE 0
    BY <1>1, <2>1
  <2>3. Min({count, left}) = IF count <= left THEN count ELSE left
    BY <2>2, MinOfTwo
  <2> QED
    BY <1>1, <2>2, <2>3
<1>9. ASSUME skip = 0, n <= count PROVE P = S
  <2>1. J = 1..n
    BY <1>1, <1>5, <1>9
  <2>2. Cardinality(P) = n
    BY <1>1, <1>5, <1>6, <1>7, <1>9
  <2> QED
    BY <1>4, <2>2, FS_Subset DEF n
<1>10. Cardinality(P) = Min({count, Max({n - skip, 0})})
  BY <1>6, <1>7, <1>8
<1> QED
  BY <1>4, <1>9, <1>10 DEF n, P, Fits

-------------------------------------------------------------------------------
(* The inductive invariant. *)

TableTyped  == rows \in [Rows -> RowStates] /\ clock \in 0..MaxClock
ImportTyped == /\ import \in {NoImport} \cup Imports
               /\ import.phase = "reading" => import.kept \subseteq There

(* Only a query that Prisma accepts has its rows counted or found.         *)
Accepted == list.phase \in {"finding", "answered"} => PrismaAccepts(list.query)

(* The list request: all that is known of it without a look at the table.  *)
ListSound ==
  /\ list \in {NoList} \cup Lists
  /\ list # NoList => list.items \subseteq Where(list.query)
  /\ Answered => StartIndex(list.query.startIndex) \in Nat \ {0}
  /\ Accepted
  /\ PagesFit

(* While nothing comes or goes, the count still holds when the rows are    *)
(* found: what makes the page fit the total.                               *)
CountHolds ==
  list.phase = "finding" /\ list.quiet => list.total = Cardinality(There \cap Where(list.query))

IInv == TableTyped /\ ListSound /\ ImportTyped /\ CountHolds

LEMMA Matching ==
  /\ IsFiniteSet(There) /\ There \subseteq Rows
  /\ \A q : /\ IsFiniteSet(There \cap Where(q))
            /\ Cardinality(There \cap Where(q)) \in 0..Cardinality(Rows)
            /\ Cardinality(There \cap Where(q)) <= Cardinality(There)
<1>1. There \in SUBSET Rows
  BY DEF There
<1>2. IsFiniteSet(There) /\ Cardinality(There) <= Cardinality(Rows) /\ Cardinality(Rows) \in Nat
  BY <1>1, RowsAssumption, FS_Subset, FS_CardinalityType
<1>3. ASSUME NEW q
      PROVE  /\ IsFiniteSet(There \cap Where(q))
             /\ Cardinality(There \cap Where(q)) \in 0..Cardinality(Rows)
             /\ Cardinality(There \cap Where(q)) <= Cardinality(There)
  <2> DEFINE m == There \cap Where(q)
  <2>1. m \in SUBSET There
    OBVIOUS
  <2> HIDE DEF m
  <2>2. IsFiniteSet(m) /\ Cardinality(m) <= Cardinality(There)
    BY <1>2, <2>1, FS_Subset
  <2>3. Cardinality(m) \in Nat /\ Cardinality(There) \in Nat
    BY <1>2, <2>2, FS_CardinalityType
  <2>4. Cardinality(m) \in 0..Cardinality(Rows)
    BY <1>2, <2>2, <2>3
  <2> QED
    BY <2>2, <2>4 DEF m
<1> QED
  BY <1>1, <1>2, <1>3

LEMMA InitiallySound == Init => IInv
<1> SUFFICES ASSUME Init PROVE IInv
  OBVIOUS
<1>1. TableTyped
  BY MaxClockAssumption DEF Init, TableTyped, RowStates
<1>2. list = NoList /\ list.phase = "idle"
  BY DEF Init, NoList
<1>3. ListSound
  BY <1>2 DEF ListSound, Accepted, Answered, PagesFit
<1>4. ImportTyped
  BY Matching DEF Init, ImportTyped, NoImport, Imports
<1> QED
  BY <1>1, <1>2, <1>3, <1>4 DEF IInv, CountHolds

-------------------------------------------------------------------------------
(* The table. *)

(* What the table and the pages change of an import. *)
Notice(i, kept, late)       == [i EXCEPT !.kept = kept, !.late = late]
ReadOn(i, got, next, phase) == [i EXCEPT !.got = got, !.next = next, !.phase = phase]

LEMMA Noticed ==
  ASSUME NEW i \in Imports, NEW kept \in SUBSET Rows, NEW late \in Nat
  PROVE  Notice(i, kept, late) \in Imports /\ Notice(i, kept, late).kept = kept
BY DEF Imports, Notice

LEMMA Read ==
  ASSUME NEW i \in Imports, NEW got \in [Rows -> Nat], NEW next \in Nat \ {0},
         NEW phase \in {"reading", "done"}
  PROVE  ReadOn(i, got, next, phase) \in Imports /\ ReadOn(i, got, next, phase).kept = i.kept
BY DEF Imports, ReadOn

(* A row that comes or goes: no page is read any more of a count that is   *)
(* older, and what an import has kept are still rows.                      *)
LEMMA Disturbed ==
  ASSUME IInv, NEW late \in Nat, Disturb(late)
  PROVE  ListSound' /\ ImportTyped' /\ CountHolds'
<1>1. ListSound' /\ CountHolds'
  <2>1. CASE list.phase = "finding"
    <3>1. list \in Lists /\ list # NoList /\ list' = [list EXCEPT !.quiet = FALSE]
      BY <2>1 DEF IInv, ListSound, NoList, Disturb
    <3>2. /\ list' \in Lists /\ list'.phase = "finding" /\ list'.quiet = FALSE
          /\ list'.items = list.items /\ list'.query = list.query
      BY <2>1, <3>1 DEF Lists
    <3> QED
      BY <2>1, <3>1, <3>2 DEF IInv, ListSound, Accepted, Answered, PagesFit, CountHolds
  <2>2. CASE list.phase # "finding"
    <3>1. list' = list
      BY <2>2 DEF Disturb
    <3> QED
      BY <2>2, <3>1 DEF IInv, ListSound, Accepted, Answered, PagesFit, CountHolds
  <2> QED
    BY <2>1, <2>2
<1>2. ImportTyped'
  <2>1. CASE import.phase = "reading"
    <3>1. import \in Imports
      BY <2>1 DEF IInv, ImportTyped, NoImport
    <3> DEFINE kept == import.kept \cap There'
    <3>2. import' = Notice(import, kept, import.late + late)
      BY <2>1 DEF Disturb, There, Notice
    <3>3. kept \in SUBSET Rows /\ kept \subseteq There'
      BY DEF There
    <3> HIDE DEF kept
    <3>4. import.late + late \in Nat
      BY <3>1 DEF Imports
    <3>5. import' \in Imports /\ import'.kept = kept
      BY <3>1, <3>2, <3>3, <3>4, Noticed
    <3> QED
      BY <3>3, <3>5 DEF ImportTyped
  <2>2. CASE import.phase # "reading"
    BY <2>2 DEF IInv, ImportTyped, Disturb
  <2> QED
    BY <2>1, <2>2
<1> QED
  BY <1>1, <1>2

LEMMA TableSteps ==
  ASSUME IInv, Tick \/ \E x \in Rows : SendInsert(x) \/ CommitInsert(x) \/ DeleteRow(x)
  PROVE  IInv'
<1>1. TableTyped /\ MaxClock \in Nat
  BY MaxClockAssumption DEF IInv
<1>2. ASSUME There' = There, UNCHANGED <<list, import>>, TableTyped' PROVE IInv'
  BY <1>2 DEF IInv, ListSound, Accepted, Answered, PagesFit, ImportTyped, CountHolds
<1>3. CASE Tick
  BY <1>1, <1>2, <1>3 DEF Tick, TableTyped, There
<1>4. ASSUME NEW x \in Rows, SendInsert(x) PROVE IInv'
  <2>1. TableTyped' /\ There' = There
    BY <1>1, <1>4 DEF SendInsert, TableTyped, RowStates, There
  <2> QED
    BY <1>2, <1>4, <2>1 DEF SendInsert
<1>5. ASSUME NEW x \in Rows, CommitInsert(x) PROVE IInv'
  <2>1. TableTyped'
    BY <1>1, <1>5 DEF CommitInsert, TableTyped, RowStates
  <2>2. \E late \in Nat : Disturb(late)
    BY <1>5 DEF CommitInsert
  <2> QED
    BY <2>1, <2>2, Disturbed DEF IInv
<1>6. ASSUME NEW x \in Rows, DeleteRow(x) PROVE IInv'
  <2>1. TableTyped'
    BY <1>1, <1>6 DEF DeleteRow, TableTyped, RowStates
  <2>2. Disturb(0)
    BY <1>6 DEF DeleteRow
  <2> QED
    BY <2>1, <2>2, Disturbed DEF IInv
<1> QED
  BY <1>3, <1>4, <1>5, <1>6

-------------------------------------------------------------------------------
(* The list requests. *)

(* A new request is in order, and nothing of it is counted yet.            *)
LEMMA Asked ==
  ASSUME IInv, UNCHANGED <<table, import>>, NEW q \in Query \cup PageQuery, list' = List(q)
  PROVE  IInv'
<1>1. /\ list' \in Lists /\ list'.phase = "counting" /\ list'.items = {}
  <2>1. 0 \in 0..Cardinality(Rows)
    BY RowsAssumption, FS_CardinalityType
  <2> QED
    BY <2>1 DEF List, Lists
<1>2. ListSound' /\ CountHolds'
  BY <1>1 DEF ListSound, Accepted, Answered, PagesFit, CountHolds
<1> QED
  BY <1>2 DEF IInv, TableTyped, ImportTyped, There, table

(* A request that fails has no rows. *)
LEMMA Failed ==
  ASSUME IInv, UNCHANGED <<table, import>>, list \in Lists, Fail
  PROVE  IInv'
<1>1. list' \in Lists /\ list'.phase = "failed" /\ list'.items = {}
  BY DEF Fail, Lists
<1>2. ListSound' /\ CountHolds'
  BY <1>1 DEF ListSound, Accepted, Answered, PagesFit, CountHolds
<1> QED
  BY <1>2 DEF IInv, TableTyped, ImportTyped, There, table

LEMMA RowsCounted ==
  ASSUME IInv, CountRows
  PROVE  IInv'
<1>1. list \in Lists /\ list # NoList /\ UNCHANGED <<table, import>>
  BY DEF CountRows, IInv, ListSound, NoList
<1>2. CASE Fail
  BY <1>1, <1>2, Failed
<1>3. ASSUME PrismaAccepts(list.query), NEW total, total = Cardinality(There \cap Where(list.query)),
             list' = [list EXCEPT !.phase = "finding", !.total = total]
      PROVE  IInv'
  <2>1. total \in 0..Cardinality(Rows)
    BY <1>3, Matching
  <2>2. /\ list' \in Lists /\ list'.phase = "finding" /\ list'.total = total
        /\ list'.query = list.query /\ list'.items = list.items
    BY <1>1, <1>3, <2>1 DEF Lists
  <2>3. ListSound'
    BY <1>1, <1>3, <2>2 DEF IInv, ListSound, Accepted, Answered, PagesFit
  <2>4. There' = There
    BY <1>1 DEF There, table
  <2>5. CountHolds'
    BY <1>3, <2>2, <2>4 DEF CountHolds
  <2> QED
    BY <1>1, <2>3, <2>4, <2>5 DEF IInv, TableTyped, ImportTyped, table
<1> QED
  BY <1>2, <1>3 DEF CountRows

(* What a findMany answers with: rows the query is about, as many as skip  *)
(* and count leave of them.                                                *)
LEMMA PageFound ==
  ASSUME IInv, list.phase = "finding", FindPage
  PROVE  LET S == There \cap Where(list.query)
             from == StartIndex(list.query.startIndex)
             count == Count(list.query.count)
         IN  /\ list \in Lists /\ from \in Nat \ {0} /\ count \in Nat
             /\ list.query.count \in Nat => count = list.query.count
             /\ list' = [list EXCEPT !.phase = "answered", !.items = list'.items]
             /\ list'.items \subseteq S
             /\ Cardinality(list'.items) = Min({count, Max({Cardinality(S) - (from - 1), 0})})
             /\ from = 1 /\ Cardinality(S) <= count => list'.items = S
<1> DEFINE S == There \cap Where(list.query)
           from == StartIndex(list.query.startIndex)
           count == Count(list.query.count)
<1>1. list \in Lists /\ PrismaAccepts(list.query)
  BY DEF IInv, ListSound, Accepted, NoList
<1>2. list.query \in Query \cup PageQuery
  BY <1>1 DEF Lists
<1>3. /\ from \in Nat \ {0} /\ Skip(from) = from - 1 /\ count \in Nat
      /\ list.query.count \in Nat => count = list.query.count
  BY <1>1, <1>2, NumbersRead
<1>4. PICK o \in SetToSeqs(S) :
        list' = [list EXCEPT !.phase = "answered", !.items = Page(o, list.query)]
  BY DEF FindPage
<1>5. list'.items = Page(o, list.query)
  BY <1>1, <1>4 DEF Lists
<1>6. IsFiniteSet(S) /\ from - 1 \in Nat
  BY <1>3, Matching
<1>7. /\ Page(o, list.query) \subseteq S
      /\ Cardinality(Page(o, list.query)) = Min({count, Max({Cardinality(S) - (from - 1), 0})})
      /\ from - 1 = 0 /\ Cardinality(S) <= count => Page(o, list.query) = S
  <2> PICK q, skip : q = list.query /\ skip = from - 1
    OBVIOUS
  <2>1. skip \in Nat /\ Skip(StartIndex(q.startIndex)) = skip /\ Count(q.count) = count
    BY <1>3, <1>6
  <2> HIDE DEF S, from, count
  <2>2. Fits(Page(o, q), S, skip, count)
    BY <1>3, <1>6, <2>1, PageOfSet
  <2> QED
    BY <2>2 DEF Fits
<1> HIDE DEF S, from, count
<1>8. from = 1 /\ Cardinality(S) <= count => list'.items = S
  BY <1>3, <1>5, <1>7
<1> QED
  BY <1>1, <1>3, <1>4, <1>5, <1>7, <1>8 DEF S, from, count

LEMMA RowsFound ==
  ASSUME IInv, FindUsers \/ FindGroups
  PROVE  IInv'
<1>1. list.phase = "finding" /\ UNCHANGED <<table, import>> /\ (FindPage \/ Fail)
  BY DEF FindUsers, FindGroups
<1>2. list \in Lists /\ list # NoList
  BY <1>1 DEF IInv, ListSound, NoList
<1>3. CASE Fail
  BY <1>1, <1>2, <1>3, Failed
<1>4. CASE FindPage
  <2> DEFINE S == There \cap Where(list.query)
             from == StartIndex(list.query.startIndex)
             count == Count(list.query.count)
  <2>1. /\ from \in Nat \ {0} /\ count \in Nat
        /\ list.query.count \in Nat => count = list.query.count
        /\ list' = [list EXCEPT !.phase = "answered", !.items = list'.items]
        /\ list'.items \subseteq S
        /\ Cardinality(list'.items) = Min({count, Max({Cardinality(S) - (from - 1), 0})})
    BY <1>1, <1>4, PageFound
  <2>2. S \subseteq Rows /\ S \subseteq Where(list.query) /\ Cardinality(S) \in Nat
    BY Matching
  <2>3. /\ list' \in Lists /\ list'.phase = "answered" /\ list'.query = list.query
        /\ list'.total = list.total /\ list'.quiet = list.quiet
    BY <1>2, <2>1, <2>2 DEF Lists
  <2>4. list.quiet => list.total = Cardinality(S)
    BY <1>1 DEF IInv, CountHolds
  <2>5. PrismaAccepts(list.query)
    BY <1>1 DEF IInv, ListSound, Accepted
  <2>6. PagesFit'
    <3> HIDE DEF S, from, count
    <3>1. Cardinality(S) - (from - 1) \in Int
      BY <2>1, <2>2
    <3>2. Cardinality(list'.items) <= count
      BY <2>1, <3>1, AtMost
    <3> QED
      BY <2>1, <2>3, <2>4, <3>2 DEF PagesFit, from, count
  <2>7. ListSound'
    <3>1. list'.items \subseteq Where(list'.query) /\ PrismaAccepts(list'.query)
          /\ StartIndex(list'.query.startIndex) \in Nat \ {0}
      BY <2>1, <2>2, <2>3, <2>5
    <3> QED
      BY <2>3, <2>6, <3>1 DEF ListSound, Accepted, Answered
  <2>8. CountHolds'
    BY <2>3 DEF CountHolds
  <2> QED
    BY <1>1, <2>7, <2>8 DEF IInv, TableTyped, ImportTyped, There, table
<1> QED
  BY <1>1, <1>3, <1>4

LEMMA PageTaken ==
  ASSUME IInv, TakePage
  PROVE  IInv'
<1>1. import \in Imports /\ list \in Lists /\ list' = NoList /\ UNCHANGED table
  BY DEF IInv, ImportTyped, ListSound, TakePage, NoImport, NoList
<1>2. Cardinality(list.items) \in Nat
  BY <1>1, RowsAssumption, FS_Subset, FS_CardinalityType DEF Lists
<1>3. import' \in Imports /\ import'.kept = import.kept
  <2> DEFINE got   == [x \in Rows |-> import.got[x] + IF x \in list.items THEN 1 ELSE 0]
             next  == import.next + Cardinality(list.items)
             phase == IF list.phase = "answered" /\ (next > list.total \/ list.items = {})
                      THEN "done" ELSE "reading"
  <2>1. import' = ReadOn(import, got, next, phase)
    BY DEF TakePage, ReadOn
  <2>2. import.got \in [Rows -> Nat] /\ import.next \in Nat \ {0}
    BY <1>1 DEF Imports
  <2>3. got \in [Rows -> Nat] /\ next \in Nat \ {0} /\ phase \in {"reading", "done"}
    BY <1>2, <2>2
  <2> HIDE DEF got, next, phase
  <2> QED
    BY <1>1, <2>1, <2>3, Read
<1>4. ImportTyped'
  BY <1>1, <1>3 DEF IInv, ImportTyped, TakePage, There, table
<1>5. ListSound' /\ CountHolds'
  BY <1>1 DEF ListSound, Accepted, Answered, PagesFit, CountHolds, NoList
<1> QED
  BY <1>1, <1>4, <1>5 DEF IInv, TableTyped, table

-------------------------------------------------------------------------------
(* Every step preserves it. *)

LEMMA Preserved == IInv /\ [Next]_vars => IInv'
<1> SUFFICES ASSUME IInv, [Next]_vars PROVE IInv'
  OBVIOUS
<1>1. CASE Tick \/ \E x \in Rows : SendInsert(x) \/ CommitInsert(x) \/ DeleteRow(x)
  BY <1>1, TableSteps
<1>2. CASE AskPage \/ \E q \in Query : Ask(q)
  BY <1>2, Asked DEF AskPage, Ask
<1>3. CASE CountRows
  BY <1>3, RowsCounted
<1>4. CASE FindUsers \/ FindGroups
  BY <1>4, RowsFound
<1>5. CASE TakePage
  BY <1>5, PageTaken
<1>6. CASE UNCHANGED vars
  BY <1>6 DEF vars, IInv, TableTyped, ImportTyped, ListSound, CountHolds, Accepted, Answered,
              PagesFit, There
<1> QED
  BY <1>1, <1>2, <1>3, <1>4, <1>5, <1>6 DEF Next

LEMMA Invariant == Spec => []IInv
<1>1. Init => IInv
  BY InitiallySound
<1>2. IInv /\ [Next]_vars => IInv'
  BY Preserved
<1> QED
  BY <1>1, <1>2, PTL DEF Spec

-------------------------------------------------------------------------------
(* Imports.  The place of a row in the table, what an import has read, and *)
(* what it still owes.                                                     *)

Was       == {x \in Rows : rows[x].is \in {"there", "gone"}}
Before(x) == {y \in There : rows[y].createdAt < rows[x].createdAt}
Rank(x)   == Cardinality(Before(x))

(* The page that is read, or about to be taken. *)
Items       == IF list = NoList THEN {} ELSE list.items
Readings(x) == import.got[x] + IF x \in Items THEN 1 ELSE 0
Reached     == import.next - 1 + Cardinality(Items)

(* The rows an import should have read by now, and has not. *)
PassedUnread == {x \in import.kept : OwnCreatedAt(x) /\ Readings(x) = 0 /\ Rank(x) < Reached}

(* The rows it will not read if it takes the table to end at n, and where  *)
(* it takes it to end.                                                     *)
Beyond(n)    == {x \in import.kept : OwnCreatedAt(x) /\ Rank(x) >= n}
TableEnds(n) ==
  \/ list.phase \in {"finding", "answered"} /\ n = list.total
  \/ list.phase = "answered" /\ list.items = {} /\ n = Reached

(* The readings of a row, with the one to come of a row it has read that   *)
(* has moved beyond what it has reached; and the repeated ones of them.    *)
Due(x) == IF x \in There /\ Readings(x) > 0 /\ Rank(x) >= Reached
          THEN Readings(x) + 1 ELSE Readings(x)
Rereadings == UNION {{x} \X (2..Due(x)) : x \in {y \in Rows : OwnCreatedAt(y)}}

PageAsked ==
  list # NoList => /\ list.query \in PageQuery /\ list.query.startIndex = import.next
                   /\ list.phase \in {"counting", "finding", "failed"} => list.items = {}

ReadingSound ==
  import.phase = "reading" =>
    /\ PageAsked
    /\ Cardinality(PassedUnread) <= Deletions
    /\ \A n \in Nat : TableEnds(n) => Cardinality(Beyond(n)) <= import.late
    /\ IsFiniteSet(Rereadings) /\ Cardinality(Rereadings) <= import.late

DoneSound ==
  import.phase = "done" =>
    /\ list = NoList
    /\ SkipsHaveACause
    /\ IsFiniteSet(Repeats) /\ RepeatsHaveACause

(* What an import has read and kept is, or was, a row. *)
ReadAreRows ==
  import # NoImport => import.kept \subseteq Was /\ \A x \in Rows : Readings(x) > 0 => x \in Was

ImportSound == ReadingSound /\ DoneSound /\ ReadAreRows

LEMMA Smaller ==
  ASSUME NEW S, IsFiniteSet(S), NEW T \in SUBSET S, NEW x \in S, x \notin T
  PROVE  Cardinality(T) < Cardinality(S)
<1>1. IsFiniteSet(T) /\ Cardinality(T) <= Cardinality(S) /\ Cardinality(T) # Cardinality(S)
  BY FS_Subset
<1> QED
  BY <1>1, FS_CardinalityType

LEMMA Shrunk ==
  ASSUME NEW A, IsFiniteSet(A), NEW B, B \subseteq A, NEW k \in Int, Cardinality(A) <= k
  PROVE  IsFiniteSet(B) /\ Cardinality(B) <= k
<1>1. IsFiniteSet(B) /\ Cardinality(B) <= Cardinality(A)
  BY FS_Subset
<1> QED
  BY <1>1, FS_CardinalityType

(* A bound that grows with its set: by one when the set can grow by one.   *)
LEMMA Bounded ==
  ASSUME NEW A, IsFiniteSet(A), NEW Z, \A u, v \in Z : u = v,
         NEW B, B \subseteq A \cup Z,
         NEW k \in Int, Cardinality(A) <= k, NEW l \in Int, l >= k, Z # {} => l > k
  PROVE  IsFiniteSet(B) /\ Cardinality(B) <= l
<1>1. Cardinality(A) \in Nat
  BY FS_CardinalityType
<1>2. CASE Z = {}
  <2>1. B \in SUBSET A
    BY <1>2
  <2>2. IsFiniteSet(B) /\ Cardinality(B) <= Cardinality(A) /\ Cardinality(B) \in Nat
    BY <2>1, FS_Subset, FS_CardinalityType
  <2> QED
    BY <1>1, <2>2
<1>3. CASE Z # {}
  <2>1. PICK z : z \in Z
    BY <1>3
  <2> DEFINE C == A \cup {z}
  <2>2. B \in SUBSET C
    BY <2>1
  <2>3. IsFiniteSet(C) /\ Cardinality(C) <= Cardinality(A) + 1
    BY <1>1, FS_AddElement
  <2> HIDE DEF C
  <2>4. IsFiniteSet(B) /\ Cardinality(B) <= Cardinality(C)
        /\ Cardinality(B) \in Nat /\ Cardinality(C) \in Nat
    BY <2>2, <2>3, FS_Subset, FS_CardinalityType
  <2> QED
    BY <1>1, <1>3, <2>3, <2>4
<1> QED
  BY <1>2, <1>3

(* Two rows with a createdAt of their own have different places.           *)
LEMMA Ranked ==
  ASSUME TableTyped
  PROVE  /\ \A x : IsFiniteSet(Before(x)) /\ Rank(x) \in Nat
         /\ \A x \in There : Rank(x) < Cardinality(There)
         /\ \A x, z \in There : OwnCreatedAt(x) /\ OwnCreatedAt(z) /\ Rank(x) = Rank(z) => x = z
<1>1. IsFiniteSet(There) /\ There \subseteq Rows
  BY Matching
<1>2. ASSUME NEW x PROVE IsFiniteSet(Before(x)) /\ Rank(x) \in Nat
  <2>1. Before(x) \in SUBSET There
    BY DEF Before
  <2> QED
    BY <1>1, <2>1, FS_Subset, FS_CardinalityType DEF Rank
<1>3. \A x \in Rows : rows[x].createdAt \in Int
  BY MaxClockAssumption DEF TableTyped, RowStates
<1>4. ASSUME NEW x \in There PROVE Rank(x) < Cardinality(There)
  <2>1. Before(x) \in SUBSET There /\ x \notin Before(x)
    BY <1>1, <1>3 DEF Before
  <2> QED
    BY <1>1, <2>1, Smaller DEF Rank
<1>5. ASSUME NEW x \in There, NEW z \in There, rows[x].createdAt < rows[z].createdAt
      PROVE  Rank(x) < Rank(z)
  <2>1. Before(x) \in SUBSET Before(z) /\ x \in Before(z) /\ x \notin Before(x)
    BY <1>1, <1>3, <1>5 DEF Before
  <2> QED
    BY <1>2, <2>1, Smaller DEF Rank
<1>6. ASSUME NEW x \in There, NEW z \in There, OwnCreatedAt(x), x # z PROVE Rank(x) # Rank(z)
  <2>1. rows[x].createdAt # rows[z].createdAt /\ x \in Rows /\ z \in Rows
    BY <1>6 DEF OwnCreatedAt, There
  <2>2. rows[x].createdAt < rows[z].createdAt \/ rows[z].createdAt < rows[x].createdAt
    BY <1>3, <2>1
  <2> QED
    BY <1>2, <1>5, <2>2
<1> QED
  BY <1>2, <1>4, <1>6

(* The first rows of a list are as many as their number.                   *)
LEMMA FirstRows ==
  ASSUME NEW S, IsFiniteSet(S), NEW o \in SetToSeqs(S), NEW k \in 0..Cardinality(S)
  PROVE  Cardinality({o[i] : i \in 1..k}) = k
<1> DEFINE n == Cardinality(S)
           J == 1..k
           P == {o[i] : i \in J}
           onto == [j \in J |-> o[j]]
<1>1. n \in Nat
  BY FS_CardinalityType
<1>2. o \in [1..n -> S] /\ \A i, j \in 1..n : i # j => o[i] # o[j]
  BY DEF SetToSeqs
<1>3. k \in Nat /\ J \subseteq 1..n
  BY <1>1
<1>4. IsFiniteSet(J) /\ Cardinality(J) = k
  <2>1. IsFiniteSet(1..k) /\ Cardinality(1..k) = IF 1 > k THEN 0 ELSE k - 1 + 1
    BY <1>3, FS_Interval
  <2> QED
    BY <1>3, <2>1
<1>5. onto \in [J -> P] /\ \A j \in J : onto[j] = o[j]
  OBVIOUS
<1>6. onto \in Surjection(J, P)
  BY <1>5 DEF Surjection
<1>7. \A i, j \in J : onto[i] = onto[j] => i = j
  BY <1>2, <1>3, <1>5
<1>8. onto \in Injection(J, P)
  BY <1>5, <1>7, Zenon DEF Injection, IsInjective
<1> QED
  BY <1>4, <1>6, <1>8, FS_Surjection

LEMMA AllListed ==
  ASSUME NEW S, IsFiniteSet(S), NEW o \in SetToSeqs(S), NEW y \in S
  PROVE  \E i \in 1..Cardinality(S) : o[i] = y
<1> DEFINE P == {o[i] : i \in 1..Cardinality(S)}
<1>1. Cardinality(S) \in Nat
  BY FS_CardinalityType
<1>2. Cardinality(P) = Cardinality(S)
  BY <1>1, FirstRows
<1>3. P \in SUBSET S
  BY DEF SetToSeqs
<1> HIDE DEF P
<1>4. P = S
  BY <1>2, <1>3, FS_Subset
<1> QED
  BY <1>4 DEF P

(* A row with a createdAt of its own is on the page that has its place.    *)
LEMMA PageByRank ==
  ASSUME TableTyped, NEW o \in SetToSeqs(There), InOrder(o), NEW q,
         NEW skip \in Nat, Skip(StartIndex(q.startIndex)) = skip,
         NEW count \in Nat, Count(q.count) = count,
         NEW x \in There, OwnCreatedAt(x)
  PROVE  x \in Page(o, q) <=> skip <= Rank(x) /\ Rank(x) < skip + count
<1> DEFINE n == Cardinality(There)
<1>1. IsFiniteSet(There) /\ There \subseteq Rows /\ n \in Nat
  BY Matching, FS_CardinalityType
<1>2. o \in [1..n -> There] /\ DOMAIN o = 1..n /\ \A i, j \in 1..n : i # j => o[i] # o[j]
  BY DEF SetToSeqs
<1>3. \A y \in There : rows[y].createdAt \in Int /\ rows[y].is = "there"
  BY <1>1, MaxClockAssumption DEF TableTyped, RowStates, There
<1>4. \A y \in There : y # x => rows[y].createdAt # rows[x].createdAt
  BY <1>1, <1>3 DEF OwnCreatedAt
<1> HIDE DEF n
<1>5. PICK i \in 1..n : o[i] = x
  BY <1>1, AllListed DEF n
<1>6. Before(x) = {o[j] : j \in 1..(i - 1)}
  <2>1. ASSUME NEW j \in 1..(i - 1) PROVE o[j] \in Before(x)
    <3>1. j \in 1..n /\ j < i
      BY <1>1, <1>5
    <3>2. o[j] \in There /\ o[j] # x /\ rows[o[j]].createdAt <= rows[x].createdAt
      BY <1>2, <1>5, <3>1 DEF InOrder
    <3> QED
      BY <1>3, <1>4, <3>2 DEF Before
  <2>2. ASSUME NEW y \in Before(x) PROVE \E j \in 1..(i - 1) : y = o[j]
    <3>1. y \in There /\ rows[y].createdAt < rows[x].createdAt
      BY DEF Before
    <3>2. PICK j \in 1..n : o[j] = y
      BY <1>1, <3>1, AllListed DEF n
    <3>3. ~(i < j)
      <4> SUFFICES ASSUME i < j PROVE FALSE
        OBVIOUS
      <4>1. rows[x].createdAt <= rows[y].createdAt
        BY <1>2, <1>5, <3>2 DEF InOrder
      <4> QED
        BY <1>3, <3>1, <4>1
    <3>4. i # j
      BY <1>3, <1>5, <3>1, <3>2
    <3> QED
      BY <1>1, <3>2, <3>3, <3>4
  <2> QED
    BY <2>1, <2>2
<1>7. Rank(x) = i - 1
  <2>1. i - 1 \in 0..Cardinality(There)
    BY <1>1, <1>5 DEF n
  <2> QED
    BY <1>1, <1>6, <2>1, FirstRows DEF Rank
<1>8. x \in Page(o, q) <=> skip < i /\ i <= skip + count
  <2>1. Page(o, q) = {o[j] : j \in {k \in 1..n : skip < k /\ k <= skip + count}}
    BY <1>2 DEF Page
  <2> QED
    BY <1>2, <1>5, <2>1
<1> QED
  BY <1>1, <1>5, <1>7, <1>8

(* The types of what an import is counted by. *)
ImportTypes ==
  /\ import \in Imports /\ import # NoImport /\ import.kept \subseteq Rows
  /\ import.late \in Nat /\ import.next \in Nat \ {0} /\ import.got \in [Rows -> Nat]
  /\ Items \subseteq Rows /\ IsFiniteSet(Items) /\ Cardinality(Items) \in Nat
  /\ Reached \in Nat
  /\ \A x \in Rows : Readings(x) \in Nat /\ Due(x) \in {Readings(x), Readings(x) + 1}
  /\ IsFiniteSet(PassedUnread) /\ Cardinality(PassedUnread) \in Nat
  /\ \A n \in Nat : IsFiniteSet(Beyond(n)) /\ Cardinality(Beyond(n)) \in Nat
  /\ Deletions \in Nat

LEMMA ImportFacts == IInv /\ import.phase \in {"reading", "done"} => ImportTypes
<1> SUFFICES ASSUME IInv, import.phase \in {"reading", "done"} PROVE ImportTypes
  OBVIOUS
<1>1. /\ import \in Imports /\ import # NoImport /\ import.kept \subseteq Rows
      /\ import.late \in Nat /\ import.next \in Nat \ {0} /\ import.got \in [Rows -> Nat]
  BY DEF IInv, ImportTyped, NoImport, Imports
<1>2. Items \in SUBSET Rows
  BY DEF IInv, ListSound, Lists, Items
<1>3. IsFiniteSet(Items) /\ Cardinality(Items) \in Nat
  BY <1>2, RowsAssumption, FS_Subset, FS_CardinalityType
<1>4. Reached \in Nat
  BY <1>1, <1>3 DEF Reached
<1>5. \A x \in Rows : Readings(x) \in Nat /\ Due(x) \in {Readings(x), Readings(x) + 1}
  BY <1>1 DEF Readings, Due
<1>6. IsFiniteSet(PassedUnread) /\ Cardinality(PassedUnread) \in Nat
  <2>1. PassedUnread \in SUBSET Rows
    BY <1>1 DEF PassedUnread
  <2> QED
    BY <2>1, RowsAssumption, FS_Subset, FS_CardinalityType
<1>7. ASSUME NEW n \in Nat PROVE IsFiniteSet(Beyond(n)) /\ Cardinality(Beyond(n)) \in Nat
  <2>1. Beyond(n) \in SUBSET Rows
    BY <1>1 DEF Beyond
  <2> QED
    BY <2>1, RowsAssumption, FS_Subset, FS_CardinalityType
<1>8. Deletions \in Nat
  <2>1. {x \in Rows : rows[x].is = "gone"} \in SUBSET Rows
    OBVIOUS
  <2> QED
    BY <2>1, RowsAssumption, FS_Subset, FS_CardinalityType DEF Deletions
<1> QED
  BY <1>1, <1>2, <1>3, <1>4, <1>5, <1>6, <1>7, <1>8 DEF ImportTypes

LEMMA ImportFactsNext == (IInv /\ import.phase \in {"reading", "done"} => ImportTypes)'
BY ImportFacts, PTL

(* A page that is found, by the places of its rows. *)
LEMMA PageRead ==
  ASSUME IInv, import.phase = "reading", PageAsked, list.phase = "finding", FindPage
  PROVE  /\ list' = [list EXCEPT !.phase = "answered", !.items = list'.items]
         /\ list \in Lists /\ list'.items \subseteq There /\ Cardinality(list'.items) \in Nat
         /\ \A x \in There : OwnCreatedAt(x) =>
              (x \in list'.items <=> /\ import.next - 1 <= Rank(x)
                                     /\ Rank(x) < import.next - 1 + Cardinality(list'.items))
         /\ list'.items = {} => \A x \in There : Rank(x) < import.next - 1
<1> DEFINE q == list.query
           n == Cardinality(There)
           P == list'.items
           skip == import.next - 1
<1>1. list # NoList /\ list \in Lists /\ PrismaAccepts(q)
  BY DEF NoList, IInv, ListSound, Accepted
<1>2. q \in PageQuery /\ q.startIndex = import.next /\ q.count = PageSize /\ q.filter = Unread
  BY <1>1 DEF PageAsked, PageQuery
<1>3. import.next \in Nat \ {0} /\ skip \in Nat
  BY ImportFacts DEF ImportTypes
<1>4. /\ StartIndex(q.startIndex) = import.next /\ Skip(StartIndex(q.startIndex)) = skip
      /\ Count(q.count) = PageSize /\ PageSize \in Nat \ {0}
  <2>1. StartIndex(q.startIndex) = import.next
    BY <1>2, <1>3, NumbersAssumption DEF StartIndex, Usable
  <2> QED
    BY <1>1, <1>2, <2>1, NumbersRead, PageSizeAssumption
<1>5. There \cap Where(q) = There
  BY <1>2, Matching DEF Where, Unread, FilterAttribute
<1>6. IsFiniteSet(There) /\ There \subseteq Rows /\ n \in Nat
  BY Matching, FS_CardinalityType
<1>7. PICK o \in SetToSeqs(There) :
        InOrder(o) /\ list' = [list EXCEPT !.phase = "answered", !.items = Page(o, q)]
  BY <1>5 DEF FindPage
<1>8. P = Page(o, q) /\ list' = [list EXCEPT !.phase = "answered", !.items = P]
  BY <1>1, <1>7 DEF Lists
<1>9. P \subseteq There /\ Cardinality(P) = Min({PageSize, Max({n - skip, 0})})
  <2> PICK k : k = skip
    OBVIOUS
  <2>1. k \in Nat /\ Skip(StartIndex(q.startIndex)) = k
    BY <1>3, <1>4
  <2> HIDE DEF q, P, skip
  <2>2. Fits(Page(o, q), There, k, PageSize)
    BY <1>4, <1>6, <2>1, PageOfSet
  <2> QED
    BY <1>8, <2>2 DEF Fits, skip
<1>10. ASSUME NEW x \in There, OwnCreatedAt(x)
       PROVE  x \in P <=> skip <= Rank(x) /\ Rank(x) < skip + PageSize
  <2> PICK k : k = skip
    OBVIOUS
  <2>1. k \in Nat /\ Skip(StartIndex(q.startIndex)) = k /\ TableTyped
    BY <1>3, <1>4 DEF IInv
  <2> HIDE DEF q, P, skip
  <2>2. x \in Page(o, q) <=> k <= Rank(x) /\ Rank(x) < k + PageSize
    BY <1>4, <1>7, <1>10, <2>1, PageByRank
  <2> QED
    BY <1>8, <2>2
<1>11. \A x \in There : Rank(x) \in Nat /\ Rank(x) < n
  BY Ranked DEF IInv
<1>12. Cardinality(P) = IF n - skip <= 0 THEN 0
                        ELSE IF PageSize <= n - skip THEN PageSize ELSE n - skip
  <2>1. Max({n - skip, 0}) = IF n - skip >= 0 THEN n - skip ELSE 0
    BY <1>3, <1>6, MaxOfTwo
  <2> PICK left : left = Max({n - skip, 0})
    OBVIOUS
  <2>2. left \in Int /\ left = IF n - skip >= 0 THEN n - skip ELSE 0
    BY <1>3, <1>6, <2>1
  <2>3. Min({PageSize, left}) = IF PageSize <= left THEN PageSize ELSE left
    <3>1. PageSize \in Int /\ left \in Int
      BY <2>2, PageSizeAssumption
    <3> QED
      BY ONLY <3>1, MinOfTwo
  <2> QED
    BY <1>3, <1>4, <1>6, <1>9, <2>2, <2>3
<1> HIDE DEF n, P, skip
<1>13. Cardinality(P) \in Nat
  BY <1>3, <1>4, <1>6, <1>12
<1>14. ASSUME NEW x \in There, OwnCreatedAt(x)
       PROVE  x \in P <=> skip <= Rank(x) /\ Rank(x) < skip + Cardinality(P)
  BY <1>3, <1>4, <1>6, <1>10, <1>11, <1>12, <1>14
<1>15. P = {} => \A x \in There : Rank(x) < skip
  <2>1. P = {} => Cardinality(P) = 0
    BY FS_EmptySet
  <2> QED
    BY <1>3, <1>4, <1>6, <1>11, <1>12, <2>1
<1> QED
  BY <1>1, <1>8, <1>9, <1>13, <1>14, <1>15 DEF P, skip

-------------------------------------------------------------------------------
(* The steps, and what they change of an import. *)

(* What is repeated is repeated by a row's own readings. *)
LEMMA RereadingsGrow ==
  ASSUME NEW Z \in SUBSET Rows,
         \A x \in Rows : /\ Due(x) \in Nat /\ Due(x)' \in Nat
                         /\ OwnCreatedAt(x)' /\ Due(x)' >= 2 =>
                              /\ OwnCreatedAt(x)
                              /\ Due(x)' <= Due(x) \/ (x \in Z /\ Due(x)' = Due(x) + 1)
  PROVE  Rereadings' \subseteq Rereadings \cup {<<x, Due(x) + 1>> : x \in Z}
<1> SUFFICES ASSUME NEW w \in Rereadings'
             PROVE  w \in Rereadings \cup {<<x, Due(x) + 1>> : x \in Z}
  OBVIOUS
<1>1. PICK x \in Rows : OwnCreatedAt(x)' /\ w \in {x} \X (2..(Due(x)'))
  BY DEF Rereadings
<1>2. PICK k \in 2..(Due(x)') : w = <<x, k>>
  BY <1>1
<1>3. k \in Int /\ k >= 2 /\ k <= Due(x)' /\ Due(x)' \in Nat /\ Due(x) \in Nat
  BY <1>2
<1>4. OwnCreatedAt(x)
  BY <1>1, <1>3
<1>5. CASE k <= Due(x)
  <2>1. w \in {x} \X (2..Due(x))
    BY <1>2, <1>3, <1>5
  <2> QED
    BY <1>4, <2>1 DEF Rereadings
<1>6. CASE k > Due(x)
  <2>1. x \in Z /\ k = Due(x) + 1
    BY <1>1, <1>3, <1>6
  <2> QED
    BY <1>2, <2>1
<1> QED
  BY <1>3, <1>5, <1>6

(* Nothing but what is not a row yet has changed in the table.             *)
SameRows ==
  /\ There' = There /\ Was' = Was /\ Deletions' = Deletions
  /\ \A x \in Was : rows'[x].createdAt = rows[x].createdAt

LEMMA ThereWas == There \subseteq Was /\ Was \subseteq Rows
BY DEF There, Was

LEMMA OwnStays ==
  ASSUME Was \subseteq Was', \A x \in Was : rows'[x].createdAt = rows[x].createdAt
  PROVE  \A x \in Was : OwnCreatedAt(x)' => OwnCreatedAt(x)
BY DEF OwnCreatedAt, Was

LEMMA RankStays ==
  ASSUME SameRows
  PROVE  \A x \in There : Rank(x)' = Rank(x)
<1>1. \A x \in There : Before(x)' = Before(x)
  BY ThereWas DEF SameRows, Before
<1> QED
  BY <1>1 DEF Rank

(* A step that reads and changes nothing but what is not a row yet.        *)
LEMMA NothingRead ==
  ASSUME IInv, IInv', ReadingSound, ReadAreRows, SameRows, import' = import, Items' = Items,
         import.phase = "reading", PageAsked',
         \A n \in Nat : TableEnds(n)' => TableEnds(n) \/ Beyond(n)' = {}
  PROVE  ReadingSound'
<1> /\ ImportTypes /\ ImportTypes'
  BY ImportFacts, ImportFactsNext
<1>1. /\ import.kept \subseteq There /\ import.late \in Nat
      /\ \A x \in Rows : Readings(x) \in Nat /\ Due(x) \in Nat /\ Due(x)' \in Nat
      /\ IsFiniteSet(PassedUnread) /\ \A n \in Nat : IsFiniteSet(Beyond(n))
      /\ Cardinality(PassedUnread) <= Deletions
      /\ IsFiniteSet(Rereadings) /\ Cardinality(Rereadings) <= import.late
  BY DEF IInv, ImportTyped, ImportTypes, ReadingSound
<1>2. /\ Reached' = Reached /\ \A x \in Rows : Readings(x)' = Readings(x)
      /\ \A x \in There : Rank(x)' = Rank(x)
      /\ \A x \in Was : OwnCreatedAt(x)' => OwnCreatedAt(x)
  BY RankStays, OwnStays DEF Reached, Readings, SameRows
<1>3. PassedUnread' \in SUBSET PassedUnread
  BY <1>1, <1>2, ThereWas DEF PassedUnread
<1>4. \A n : Beyond(n)' \in SUBSET Beyond(n)
  BY <1>1, <1>2, ThereWas DEF Beyond
<1>5. Cardinality(PassedUnread') <= Deletions'
  <2>1. Cardinality(PassedUnread') <= Cardinality(PassedUnread)
    BY <1>1, <1>3, FS_Subset
  <2>2. Cardinality(PassedUnread) \in Nat /\ Cardinality(PassedUnread') \in Nat /\ Deletions \in Nat
    BY DEF ImportTypes
  <2> QED
    BY <1>1, <2>1, <2>2 DEF SameRows
<1>6. ASSUME NEW n \in Nat, TableEnds(n)' PROVE Cardinality(Beyond(n)') <= import.late
  <2>1. CASE TableEnds(n)
    <3>1. Cardinality(Beyond(n)) <= import.late
      BY <2>1 DEF ReadingSound
    <3>2. Cardinality(Beyond(n)') <= Cardinality(Beyond(n))
      BY <1>1, <1>4, FS_Subset
    <3>3. Cardinality(Beyond(n)) \in Nat /\ Cardinality(Beyond(n)') \in Nat
      BY <1>1, <1>4, FS_Subset, FS_CardinalityType
    <3> QED
      BY <1>1, <3>1, <3>2, <3>3
  <2>2. CASE Beyond(n)' = {}
    BY <1>1, <2>2, FS_EmptySet
  <2> QED
    BY <1>6, <2>1, <2>2
<1>7. IsFiniteSet(Rereadings') /\ Cardinality(Rereadings') <= import.late
  <2>1. \A x \in Rows : OwnCreatedAt(x)' /\ Due(x)' >= 2 => OwnCreatedAt(x) /\ Due(x)' <= Due(x)
    <3> SUFFICES ASSUME NEW x \in Rows, OwnCreatedAt(x)', Due(x)' >= 2
                 PROVE  OwnCreatedAt(x) /\ Due(x)' <= Due(x)
      OBVIOUS
    <3>1. Due(x)' = Due(x)
      BY <1>2 DEF Due, SameRows
    <3>2. Readings(x) > 0
      BY <1>1, <3>1 DEF Due
    <3>3. x \in Was
      BY <3>2 DEF ReadAreRows, NoImport
    <3> QED
      BY <1>1, <1>2, <3>1, <3>3
  <2>2. Rereadings' \subseteq Rereadings \cup {<<x, Due(x) + 1>> : x \in {}}
    BY <1>1, <2>1, RereadingsGrow
  <2>3. Rereadings' \in SUBSET Rereadings
    BY <2>2
  <2>4. IsFiniteSet(Rereadings') /\ Cardinality(Rereadings') <= Cardinality(Rereadings)
    BY <1>1, <2>3, FS_Subset
  <2>5. Cardinality(Rereadings) \in Nat /\ Cardinality(Rereadings') \in Nat
    BY <1>1, <2>4, FS_CardinalityType
  <2> QED
    BY <1>1, <2>4, <2>5
<1> QED
  BY <1>5, <1>6, <1>7 DEF ReadingSound

(* A row comes or goes: no page and no count change. *)
LEMMA SameRead ==
  ASSUME IInv, ReadAreRows, NEW late \in Nat, Disturb(late), import.phase = "reading"
  PROVE  /\ import'.phase = "reading" /\ import'.next = import.next /\ import'.got = import.got
         /\ import'.kept = import.kept \cap There' /\ import'.late = import.late + late
         /\ Items' = Items /\ Reached' = Reached /\ \A x \in Rows : Readings(x)' = Readings(x)
         /\ \A n \in Nat : TableEnds(n)' => TableEnds(n)
         /\ PageAsked => PageAsked'
<1>1. import \in Imports
  BY ImportFacts DEF ImportTypes
<1>2. import' = [import EXCEPT !.kept = import.kept \cap There', !.late = import.late + late]
  BY DEF Disturb, There
<1>3. /\ import'.phase = "reading" /\ import'.next = import.next /\ import'.got = import.got
      /\ import'.kept = import.kept \cap There' /\ import'.late = import.late + late
  BY <1>1, <1>2 DEF Imports
<1>4. /\ (list' = NoList) <=> (list = NoList)
      /\ list # NoList => /\ list'.phase = list.phase /\ list'.items = list.items
                          /\ list'.total = list.total /\ list'.query = list.query
  BY DEF IInv, ListSound, NoList, Lists, Disturb
<1>5. Items' = Items
  BY <1>4 DEF Items
<1>6. Reached' = Reached /\ \A x \in Rows : Readings(x)' = Readings(x)
  BY <1>3, <1>5 DEF Reached, Readings
<1>7. \A n \in Nat : TableEnds(n)' => TableEnds(n)
  BY <1>4, <1>6 DEF TableEnds, NoList
<1>8. PageAsked => PageAsked'
  BY <1>3, <1>4 DEF PageAsked
<1> QED
  BY <1>3, <1>5, <1>6, <1>7, <1>8

(* A row that appears pushes those after it one place back: one of them, at *)
(* most, out of what is reached, and one beyond the end that is assumed;    *)
(* if there is any, the row is late.                                        *)
LEMMA InsertRead ==
  ASSUME IInv, IInv', ReadingSound, ReadAreRows, NEW y \in Rows, CommitInsert(y),
         import.phase = "reading"
  PROVE  ReadingSound'
<1> DEFINE late == IF {z \in There : rows[z].createdAt >= rows[y].createdAt} = {} THEN 0 ELSE 1
           Moved == {x \in There : Rank(x)' # Rank(x)}
           Z(n) == {x \in There : OwnCreatedAt(x) /\ x \in Moved /\ Rank(x) = n - 1}
<1>1. Disturb(late) /\ late \in Nat /\ late \in {0, 1}
  BY DEF CommitInsert
<1> /\ ImportTypes
  BY ImportFacts
<1>2. /\ import'.phase = "reading" /\ import'.late = import.late + late
      /\ import'.kept = import.kept \cap There' /\ Reached' = Reached
      /\ \A x \in Rows : Readings(x)' = Readings(x)
      /\ \A n \in Nat : TableEnds(n)' => TableEnds(n)
      /\ PageAsked'
  BY <1>1, SameRead DEF ReadingSound
<1> /\ ImportTypes'
  BY <1>2, ImportFactsNext
<1>3. /\ y \notin Was /\ There' = There \cup {y} /\ Was' = Was \cup {y} /\ Deletions' = Deletions
      /\ \A x \in Rows : rows'[x].createdAt = rows[x].createdAt
      /\ \A x \in Rows : rows[x].createdAt \in Int
  <2>1. rows \in [Rows -> RowStates] /\ \A x \in Rows : rows[x].createdAt \in Int
    BY MaxClockAssumption DEF IInv, TableTyped, RowStates
  <2>2. /\ rows[y].is = "inserting" /\ rows'[y].is = "there"
        /\ \A x \in Rows : /\ rows'[x].createdAt = rows[x].createdAt
                           /\ x # y => rows'[x].is = rows[x].is
    BY <2>1 DEF CommitInsert, RowStates
  <2>3. {x \in Rows : rows'[x].is = "gone"} = {x \in Rows : rows[x].is = "gone"}
    BY <2>2
  <2> QED
    BY <2>1, <2>2, <2>3 DEF There, Was, Deletions
<1>4. \A x \in Was : OwnCreatedAt(x)' => OwnCreatedAt(x)
  BY <1>3, ThereWas, OwnStays
<1>5. ASSUME NEW x \in There
      PROVE  /\ Rank(x)' \in {Rank(x), Rank(x) + 1} /\ Rank(x) \in Nat
             /\ Rank(x)' # Rank(x) => late = 1
  <2>1. Before(x)' = IF rows[y].createdAt < rows[x].createdAt THEN Before(x) \cup {y} ELSE Before(x)
    BY <1>3, ThereWas DEF Before
  <2>2. y \notin Before(x) /\ IsFiniteSet(Before(x)) /\ Rank(x) \in Nat
    BY <1>3, ThereWas, Ranked DEF Before, IInv
  <2>3. CASE rows[y].createdAt < rows[x].createdAt
    <3>1. Rank(x)' = Rank(x) + 1
      BY <2>1, <2>2, <2>3, FS_AddElement DEF Rank
    <3>2. late = 1
      BY <1>3, <2>3, ThereWas
    <3> QED
      BY <2>2, <3>1, <3>2
  <2>4. CASE ~(rows[y].createdAt < rows[x].createdAt)
    BY <2>1, <2>2, <2>4 DEF Rank
  <2> QED
    BY <2>3, <2>4
<1>6. late \in Nat /\ (Moved # {} => late = 1)
  BY <1>1, <1>5
<1> HIDE DEF late, Moved
<1>7. \A n : /\ \A u, v \in Z(n) : u = v
             /\ Z(n) # {} => late = 1
             /\ Z(n) \subseteq There
  BY <1>6, Ranked DEF IInv
<1>8. /\ import.kept \subseteq There /\ import.late \in Nat /\ Cardinality(PassedUnread) <= Deletions
      /\ IsFiniteSet(PassedUnread) /\ Deletions \in Nat
      /\ IsFiniteSet(Rereadings) /\ Cardinality(Rereadings) <= import.late
      /\ import'.kept = import.kept /\ Reached \in Nat
  BY <1>2, <1>3 DEF IInv, ImportTyped, ImportTypes, ReadingSound
<1>9. Cardinality(PassedUnread') <= Deletions'
  <2>1. PassedUnread' \subseteq PassedUnread
    <3> SUFFICES ASSUME NEW x \in PassedUnread' PROVE x \in PassedUnread
      OBVIOUS
    <3>1. /\ x \in import.kept /\ OwnCreatedAt(x)' /\ Readings(x)' = 0 /\ Rank(x)' < Reached
          /\ x \in There /\ x \in Was /\ x \in Rows
      BY <1>2, <1>8, ThereWas DEF PassedUnread
    <3>2. Rank(x) < Reached
      BY <1>5, <1>8, <3>1
    <3> QED
      BY <1>2, <1>4, <3>1, <3>2 DEF PassedUnread
  <2>2. Cardinality(PassedUnread') <= Deletions
    BY <1>8, <2>1, Shrunk
  <2> QED
    BY <1>3, <2>2
<1>10. ASSUME NEW n \in Nat, TableEnds(n)' PROVE Cardinality(Beyond(n)') <= import'.late
  <2>1. Beyond(n)' \subseteq Beyond(n) \cup Z(n)
    <3> SUFFICES ASSUME NEW x \in Beyond(n)' PROVE x \in Beyond(n) \cup Z(n)
      OBVIOUS
    <3>1. /\ x \in import.kept /\ OwnCreatedAt(x)' /\ Rank(x)' >= n
          /\ x \in There /\ x \in Was /\ x \in Rows
      BY <1>2, <1>8, ThereWas DEF Beyond
    <3>2. OwnCreatedAt(x) /\ (Rank(x) >= n \/ (Rank(x) = n - 1 /\ x \in Moved))
      BY <1>4, <1>5, <3>1 DEF Moved
    <3> QED
      BY <3>1, <3>2 DEF Beyond
  <2>2. Cardinality(Beyond(n)) <= import.late /\ IsFiniteSet(Beyond(n))
    BY <1>2, <1>10 DEF ReadingSound, ImportTypes
  <2>3. import'.late \in Int /\ import'.late >= import.late /\ (Z(n) # {} => import'.late > import.late)
    BY <1>2, <1>6, <1>7, <1>8
  <2> PICK A, B, C : A = Beyond(n) /\ B = Beyond(n)' /\ C = Z(n)
    OBVIOUS
  <2>4. (\A u, v \in C : u = v) /\ (C # {} => import'.late > import.late)
    BY <1>7, <2>3
  <2> HIDE DEF Z
  <2>5. Cardinality(B) <= import'.late
    BY <1>8, <2>1, <2>2, <2>3, <2>4, Bounded
  <2> QED
    BY <2>5
<1>11. IsFiniteSet(Rereadings') /\ Cardinality(Rereadings') <= import'.late
  <2> DEFINE Pushed == {<<x, Due(x) + 1>> : x \in Z(Reached)}
  <2>1. ASSUME NEW x \in Rows, OwnCreatedAt(x)', Due(x)' >= 2
        PROVE  /\ OwnCreatedAt(x)
               /\ Due(x)' <= Due(x) \/ (x \in Z(Reached) /\ Due(x)' = Due(x) + 1)
    <3>1. Readings(x) > 0 /\ Readings(x)' = Readings(x) /\ Readings(x) \in Nat
      BY <1>2, <2>1 DEF ImportTypes, Due
    <3>2. x \in Was /\ OwnCreatedAt(x)
      BY <1>4, <2>1, <3>1 DEF ReadAreRows, NoImport
    <3>3. CASE x \in There
      <4>1. CASE Rank(x)' = Rank(x)
        BY <1>2, <1>3, <3>1, <3>2, <3>3, <4>1 DEF Due
      <4>2. CASE Rank(x)' # Rank(x) /\ Rank(x) # Reached - 1
        <5>1. Rank(x)' >= Reached <=> Rank(x) >= Reached
          BY <1>5, <1>8, <3>3, <4>2
        <5> QED
          BY <1>2, <1>3, <3>1, <3>2, <3>3, <5>1 DEF Due
      <4>3. CASE Rank(x)' # Rank(x) /\ Rank(x) = Reached - 1
        <5>1. x \in Z(Reached) /\ Due(x) = Readings(x)
          BY <1>8, <3>2, <3>3, <4>3 DEF Due, Moved
        <5>2. Due(x)' \in {Readings(x), Readings(x) + 1}
          BY <3>1 DEF ImportTypes
        <5> QED
          BY <3>1, <3>2, <5>1, <5>2
      <4> QED
        BY <4>1, <4>2, <4>3
    <3>4. CASE x \notin There
      <4>1. x \notin There'
        BY <1>3, <3>2, <3>4
      <4>2. Due(x)' = Readings(x) /\ Due(x) = Readings(x)
        BY <3>1, <3>4, <4>1 DEF Due
      <4> QED
        BY <3>1, <3>2, <4>2
    <3> QED
      BY <3>3, <3>4
  <2>2. Z(Reached) \in SUBSET Rows /\ \A x \in Rows : Due(x) \in Nat /\ Due(x)' \in Nat
    BY <1>7, Matching DEF ImportTypes
  <2>3. (\A u, v \in Z(Reached) : u = v) /\ (Z(Reached) # {} => late = 1)
    BY <1>7
  <2> HIDE DEF Z
  <2>4. Rereadings' \subseteq Rereadings \cup Pushed
    BY <2>1, <2>2, RereadingsGrow
  <2>5. \A u, v \in Pushed : u = v
    BY <2>3
  <2>6. import'.late \in Int /\ import'.late >= import.late /\ (Pushed # {} => import'.late > import.late)
    BY <1>2, <1>6, <1>8, <2>3
  <2> HIDE DEF Pushed
  <2> QED
    BY <1>8, <2>4, <2>5, <2>6, Bounded
<1> QED
  BY <1>2, <1>9, <1>10, <1>11 DEF ReadingSound

(* What any step may do to the rows. *)
LEMMA RowsStay ==
  ASSUME IInv, [Next]_vars
  PROVE  /\ Was \subseteq Was' /\ Deletions <= Deletions'
         /\ Deletions \in Nat /\ Deletions' \in Nat
         /\ \A x \in Was : rows'[x].createdAt = rows[x].createdAt
<1> DEFINE gone == {x \in Rows : rows[x].is = "gone"}
<1>1. rows \in [Rows -> RowStates] /\ MaxClock \in Nat
  BY MaxClockAssumption DEF IInv, TableTyped
<1>2. /\ Was \subseteq Was' /\ gone \subseteq gone'
      /\ \A x \in Was : rows'[x].createdAt = rows[x].createdAt
  <2>1. ASSUME NEW x \in Rows, SendInsert(x) \/ CommitInsert(x) \/ DeleteRow(x)
        PROVE  /\ rows[x].is # "gone" /\ (rows[x].is = "there" => rows'[x].is = "gone")
               /\ rows[x].is # "new" => rows'[x].createdAt = rows[x].createdAt
               /\ \A y \in Rows : y # x => rows'[y] = rows[y]
    BY <1>1, <2>1 DEF SendInsert, CommitInsert, DeleteRow, RowStates
  <2>2. ASSUME NEW x \in Rows, SendInsert(x) \/ CommitInsert(x) \/ DeleteRow(x)
        PROVE  /\ Was \subseteq Was' /\ gone \subseteq gone'
               /\ \A z \in Was : rows'[z].createdAt = rows[z].createdAt
    BY <2>1, <2>2 DEF Was
  <2>3. CASE rows' = rows
    BY <2>3 DEF Was
  <2> HIDE DEF gone
  <2> QED
    BY <2>2, <2>3 DEF Next, Tick, AskPage, Ask, CountRows, FindUsers, FindGroups, TakePage, table, vars
<1> HIDE DEF gone
<1>3. gone \in SUBSET Rows /\ gone' \in SUBSET Rows
  BY DEF gone
<1>4. /\ IsFiniteSet(gone) /\ IsFiniteSet(gone')
      /\ Cardinality(gone) \in Nat /\ Cardinality(gone') \in Nat
  BY <1>3, RowsAssumption, FS_Subset, FS_CardinalityType
<1>5. Cardinality(gone) <= Cardinality(gone')
  BY <1>2, <1>4, FS_Subset
<1> QED
  BY <1>2, <1>4, <1>5 DEF gone, Deletions

(* A row that goes draws those after it one place up: one of them, at most,*)
(* into what is reached.                                                   *)
LEMMA DeleteRead ==
  ASSUME IInv, IInv', ReadingSound, ReadAreRows, NEW y \in Rows, DeleteRow(y),
         import.phase = "reading"
  PROVE  ReadingSound'
<1> DEFINE Z == {x \in There : OwnCreatedAt(x) /\ Rank(x) = Reached}
<1>1. Disturb(0)
  BY DEF DeleteRow
<1> /\ ImportTypes
  BY ImportFacts
<1>2. /\ import'.phase = "reading" /\ import'.late = import.late
      /\ import'.kept = import.kept \cap There' /\ Reached' = Reached
      /\ \A x \in Rows : Readings(x)' = Readings(x)
      /\ \A n \in Nat : TableEnds(n)' => TableEnds(n)
      /\ PageAsked'
  BY <1>1, SameRead DEF ReadingSound, ImportTypes
<1> /\ ImportTypes'
  BY <1>2, ImportFactsNext
<1>3. /\ There' = There \ {y} /\ Was' = Was /\ Deletions' = Deletions + 1
      /\ \A x \in Rows : rows'[x].createdAt = rows[x].createdAt
  <2>1. rows \in [Rows -> RowStates]
    BY DEF IInv, TableTyped
  <2>2. /\ rows[y].is = "there" /\ rows'[y].is = "gone"
        /\ \A x \in Rows : /\ rows'[x].createdAt = rows[x].createdAt
                           /\ x # y => rows'[x].is = rows[x].is
    BY <2>1 DEF DeleteRow, RowStates
  <2> DEFINE gone == {x \in Rows : rows[x].is = "gone"}
  <2>3. {x \in Rows : rows'[x].is = "gone"} = gone \cup {y} /\ y \notin gone /\ gone \in SUBSET Rows
    BY <2>2
  <2> HIDE DEF gone
  <2>4. Cardinality(gone \cup {y}) = Cardinality(gone) + 1
    BY <2>3, RowsAssumption, FS_Subset, FS_AddElement
  <2>5. Deletions' = Deletions + 1
    BY <2>3, <2>4 DEF Deletions, gone
  <2> QED
    BY <2>2, <2>5 DEF There, Was
<1>4. \A x \in Was : OwnCreatedAt(x)' => OwnCreatedAt(x)
  BY <1>3, ThereWas, OwnStays
<1>5. ASSUME NEW x \in There
      PROVE  Rank(x)' \in {Rank(x), Rank(x) - 1} /\ Rank(x) \in Nat
  <2>1. Before(x)' = Before(x) \ {y}
    BY <1>3, ThereWas DEF Before
  <2>2. IsFiniteSet(Before(x)) /\ Rank(x) \in Nat
    BY Ranked DEF IInv
  <2> QED
    BY <2>1, <2>2, FS_RemoveElement DEF Rank
<1>6. /\ \A u, v \in Z : u = v
      /\ Z \subseteq There
  BY Ranked DEF IInv
<1>7. /\ import.kept \subseteq There /\ import.late \in Nat /\ Cardinality(PassedUnread) <= Deletions
      /\ IsFiniteSet(PassedUnread) /\ Deletions \in Nat
      /\ IsFiniteSet(Rereadings) /\ Cardinality(Rereadings) <= import.late
      /\ import'.kept = import.kept \ {y} /\ Reached \in Nat
  BY <1>2, <1>3 DEF IInv, ImportTyped, ImportTypes, ReadingSound
<1>8. Cardinality(PassedUnread') <= Deletions'
  <2>1. PassedUnread' \subseteq PassedUnread \cup Z
    <3> SUFFICES ASSUME NEW x \in PassedUnread' PROVE x \in PassedUnread \cup Z
      OBVIOUS
    <3>1. /\ x \in import.kept /\ OwnCreatedAt(x)' /\ Readings(x)' = 0 /\ Rank(x)' < Reached
          /\ x \in There /\ x \in Was /\ x \in Rows
      BY <1>2, <1>7, ThereWas DEF PassedUnread
    <3>2. Rank(x) < Reached \/ Rank(x) = Reached
      BY <1>5, <1>7, <3>1
    <3> QED
      BY <1>2, <1>4, <3>1, <3>2 DEF PassedUnread
  <2> PICK A, B, C, d : A = PassedUnread /\ B = PassedUnread' /\ C = Z /\ d = Deletions
    OBVIOUS
  <2> HIDE DEF Z
  <2>2. /\ IsFiniteSet(A) /\ (\A u, v \in C : u = v) /\ B \subseteq A \cup C
        /\ d \in Int /\ Cardinality(A) <= d /\ d + 1 \in Int /\ d + 1 >= d
        /\ (C # {} => d + 1 > d)
    BY <1>6, <1>7, <2>1
  <2>3. Cardinality(B) <= d + 1
    BY ONLY <2>2, Bounded
  <2> QED
    BY <1>3, <2>3
<1>9. ASSUME NEW n \in Nat, TableEnds(n)' PROVE Cardinality(Beyond(n)') <= import'.late
  <2>1. Beyond(n)' \subseteq Beyond(n)
    <3> SUFFICES ASSUME NEW x \in Beyond(n)' PROVE x \in Beyond(n)
      OBVIOUS
    <3>1. /\ x \in import.kept /\ OwnCreatedAt(x)' /\ Rank(x)' >= n
          /\ x \in There /\ x \in Was /\ x \in Rows
      BY <1>2, <1>7, ThereWas DEF Beyond
    <3>2. OwnCreatedAt(x) /\ Rank(x) >= n
      BY <1>4, <1>5, <3>1
    <3> QED
      BY <3>1, <3>2 DEF Beyond
  <2>2. Cardinality(Beyond(n)) <= import.late /\ IsFiniteSet(Beyond(n))
    BY <1>2, <1>9 DEF ReadingSound, ImportTypes
  <2> PICK A, B : A = Beyond(n) /\ B = Beyond(n)'
    OBVIOUS
  <2>3. Cardinality(B) <= import.late
    BY <1>7, <2>1, <2>2, Shrunk
  <2> QED
    BY <1>2, <2>3
<1>10. IsFiniteSet(Rereadings') /\ Cardinality(Rereadings') <= import'.late
  <2>1. ASSUME NEW x \in Rows, OwnCreatedAt(x)', Due(x)' >= 2
        PROVE  OwnCreatedAt(x) /\ Due(x)' <= Due(x)
    <3>1. Readings(x) > 0 /\ Readings(x)' = Readings(x) /\ Readings(x) \in Nat
      BY <1>2, <2>1 DEF ImportTypes, Due
    <3>2. x \in Was /\ OwnCreatedAt(x)
      BY <1>4, <2>1, <3>1 DEF ReadAreRows, NoImport
    <3>3. CASE x \in There'
      <4>1. x \in There /\ (Rank(x)' >= Reached => Rank(x) >= Reached)
        BY <1>3, <1>5, <1>7, <3>3
      <4> QED
        BY <1>2, <3>1, <3>2, <3>3, <4>1 DEF Due
    <3>4. CASE x \notin There'
      <4>1. Due(x)' = Readings(x) /\ Due(x) \in {Readings(x), Readings(x) + 1}
        BY <3>1, <3>4 DEF Due, ImportTypes
      <4> QED
        BY <3>1, <3>2, <4>1
    <3> QED
      BY <3>3, <3>4
  <2>2. \A x \in Rows : Due(x) \in Nat /\ Due(x)' \in Nat
    BY DEF ImportTypes
  <2>3. Rereadings' \subseteq Rereadings \cup {<<x, Due(x) + 1>> : x \in {}}
    BY <2>1, <2>2, RereadingsGrow
  <2>4. Rereadings' \subseteq Rereadings
    BY <2>3
  <2> QED
    BY <1>2, <1>7, <2>4, Shrunk
<1> QED
  BY <1>2, <1>8, <1>9, <1>10 DEF ReadingSound

(* A page that is found reads what it has reached, and nothing more.       *)
LEMMA FindRead ==
  ASSUME IInv, IInv', ReadingSound, ReadAreRows, import.phase = "reading",
         list.phase = "finding", FindPage, UNCHANGED <<table, import>>
  PROVE  ReadingSound' /\ ReadAreRows'
<1> DEFINE P == list'.items
           skip == import.next - 1
<1> ImportTypes
  BY ImportFacts
<1> ImportTypes'
  BY ImportFactsNext
<1>1. /\ list' = [list EXCEPT !.phase = "answered", !.items = P] /\ list \in Lists
      /\ P \subseteq There /\ Cardinality(P) \in Nat
      /\ \A x \in There : OwnCreatedAt(x) =>
           (x \in P <=> skip <= Rank(x) /\ Rank(x) < skip + Cardinality(P))
      /\ P = {} => \A x \in There : Rank(x) < skip
  BY PageRead DEF ReadingSound
<1>2. list # NoList /\ list' # NoList /\ list.items = {} /\ list'.phase = "answered"
      /\ list'.total = list.total /\ list'.query = list.query
  <2>1. list # NoList /\ list.items = {}
    BY DEF ReadingSound, PageAsked, NoList
  <2> HIDE DEF P
  <2>2. list'.phase = "answered" /\ list'.total = list.total /\ list'.query = list.query
    BY <1>1 DEF Lists
  <2> QED
    BY <2>1, <2>2 DEF NoList
<1>3. /\ Items = {} /\ Items' = P
      /\ Reached = skip /\ Reached' = skip + Cardinality(P) /\ skip \in Nat
  BY <1>2, FS_EmptySet DEF Items, Reached, ImportTypes
<1>4. \A x \in Rows : /\ Readings(x) = import.got[x] /\ import.got[x] \in Nat
                      /\ Readings(x)' = import.got[x] + IF x \in P THEN 1 ELSE 0
  BY <1>3 DEF Readings, ImportTypes
<1>5. /\ SameRows /\ \A x \in Rows : OwnCreatedAt(x)' <=> OwnCreatedAt(x)
      /\ \A x \in Rows : Rank(x)' = Rank(x)
  BY DEF SameRows, There, Was, Deletions, OwnCreatedAt, Rank, Before, table
<1>6. /\ import.kept \subseteq There /\ There \subseteq Rows /\ There \subseteq Was
      /\ \A x \in There : Rank(x) \in Nat
  BY ThereWas, Ranked DEF IInv, ImportTyped
<1> HIDE DEF P, skip
<1>7. PageAsked'
  BY <1>2 DEF ReadingSound, PageAsked
<1>8. Cardinality(PassedUnread') <= Deletions'
  <2>1. PassedUnread' \subseteq PassedUnread
    <3> SUFFICES ASSUME NEW x \in PassedUnread' PROVE x \in PassedUnread
      OBVIOUS
    <3>1. /\ x \in import.kept /\ OwnCreatedAt(x) /\ Readings(x)' = 0 /\ Rank(x) < skip + Cardinality(P)
          /\ x \in There /\ x \in Rows
      BY <1>3, <1>5, <1>6 DEF PassedUnread
    <3>2. Readings(x) = 0 /\ x \notin P
      BY <1>4, <3>1
    <3>3. Rank(x) < Reached
      BY <1>1, <1>3, <1>6, <3>1, <3>2
    <3> QED
      BY <3>1, <3>2, <3>3 DEF PassedUnread
  <2>2. /\ IsFiniteSet(PassedUnread) /\ Cardinality(PassedUnread) <= Deletions
        /\ Deletions \in Int /\ Deletions' = Deletions
    BY <1>5 DEF ReadingSound, ImportTypes, SameRows
  <2> PICK A, B, d : A = PassedUnread /\ B = PassedUnread' /\ d = Deletions
    OBVIOUS
  <2>3. Cardinality(B) <= d
    BY <2>1, <2>2, Shrunk
  <2> QED
    BY <2>2, <2>3
<1>9. ASSUME NEW n \in Nat, TableEnds(n)' PROVE Cardinality(Beyond(n)') <= import'.late
  <2>1. Beyond(n)' = Beyond(n)
    BY <1>5, <1>6 DEF Beyond
  <2>2. CASE n = list.total
    BY <1>2, <2>1, <2>2 DEF ReadingSound, TableEnds
  <2>3. CASE P = {} /\ n = Reached'
    <3>1. \A x \in There : Rank(x) < n
      BY <1>1, <1>3, <2>3, FS_EmptySet
    <3>2. Beyond(n) = {}
      BY <1>6, <3>1 DEF Beyond
    <3> QED
      BY <2>1, <3>2, FS_EmptySet DEF ImportTypes
  <2> QED
    BY <1>2, <1>9, <2>2, <2>3 DEF TableEnds, P
<1>10. IsFiniteSet(Rereadings') /\ Cardinality(Rereadings') <= import'.late
  <2>1. ASSUME NEW x \in Rows, OwnCreatedAt(x)', Due(x)' >= 2
        PROVE  OwnCreatedAt(x) /\ Due(x)' <= Due(x)
    <3>1. OwnCreatedAt(x) /\ Due(x) \in Nat /\ Due(x)' \in Nat
      BY <1>5, <2>1 DEF ImportTypes
    <3>2. CASE x \notin There
      <4>1. x \notin P /\ x \notin There'
        BY <1>1, <1>5, <3>2 DEF SameRows
      <4> QED
        BY <1>4, <3>1, <3>2, <4>1 DEF Due
    <3>3. CASE x \in There /\ x \in P
      <4>1. Rank(x) >= Reached /\ ~(Rank(x) >= Reached')
        BY <1>1, <1>3, <1>6, <3>1, <3>3
      <4>2. Due(x)' = import.got[x] + 1
        BY <1>4, <1>5, <3>3, <4>1 DEF Due, SameRows
      <4>3. import.got[x] > 0
        BY <1>4, <2>1, <4>2
      <4>4. Due(x) = import.got[x] + 1
        BY <1>4, <3>3, <4>1, <4>3 DEF Due
      <4> QED
        BY <3>1, <4>2, <4>4
    <3>4. CASE x \in There /\ x \notin P
      <4>1. Readings(x)' = Readings(x) /\ Readings(x) \in Nat
        BY <1>4, <3>4
      <4>2. Rank(x)' >= Reached' => Rank(x) >= Reached
        BY <1>1, <1>3, <1>5, <1>6, <3>4
      <4> QED
        BY <1>5, <3>1, <3>4, <4>1, <4>2 DEF Due, SameRows
    <3> QED
      BY <3>2, <3>3, <3>4
  <2>2. \A x \in Rows : Due(x) \in Nat /\ Due(x)' \in Nat
    BY DEF ImportTypes
  <2>3. Rereadings' \subseteq Rereadings \cup {<<x, Due(x) + 1>> : x \in {}}
    BY <2>1, <2>2, RereadingsGrow
  <2>4. Rereadings' \subseteq Rereadings
    BY <2>3
  <2>5. IsFiniteSet(Rereadings) /\ Cardinality(Rereadings) <= import.late /\ import.late \in Int
    BY DEF ReadingSound, ImportTypes
  <2> QED
    BY <2>4, <2>5, Shrunk
<1>11. ReadAreRows'
  BY <1>1, <1>4, <1>5, <1>6 DEF ReadAreRows, SameRows
<1> QED
  BY <1>7, <1>8, <1>9, <1>10, <1>11 DEF ReadingSound

(* Taking a page moves its rows from the answer to the import; an import   *)
(* that is done has missed what it passed and what is beyond its end.      *)
LEMMA TakeRead ==
  ASSUME IInv, IInv', ReadingSound, ReadAreRows, TakePage
  PROVE  ReadingSound' /\ DoneSound' /\ ReadAreRows'
<1> import.phase = "reading"
  BY DEF TakePage
<1> ImportTypes
  BY ImportFacts
<1> DEFINE next == import.next + Cardinality(list.items)
           got  == [x \in Rows |-> import.got[x] + IF x \in list.items THEN 1 ELSE 0]
           over == list.phase = "answered" /\ (next > list.total \/ list.items = {})
<1>1. list # NoList /\ list \in Lists /\ list' = NoList /\ UNCHANGED table
  BY DEF TakePage, IInv, ListSound, NoList
<1>2. /\ import'.next = next /\ import'.got = got /\ import'.kept = import.kept
      /\ import'.late = import.late
      /\ import'.phase = IF over THEN "done" ELSE "reading"
  BY DEF TakePage, ImportTypes, Imports
<1> HIDE DEF over
<1> ImportTypes'
  BY <1>2, ImportFactsNext
<1>3. Items = list.items /\ Items' = {} /\ Cardinality({}) = 0
  BY <1>1, FS_EmptySet DEF Items
<1>4. Reached' = Reached /\ Reached = next - 1 /\ Reached \in Nat
  BY <1>2, <1>3 DEF Reached, ImportTypes
<1>5. \A x \in Rows : Readings(x)' = Readings(x) /\ import'.got[x] = Readings(x) /\ Readings(x) \in Nat
  BY <1>2, <1>3 DEF Readings, ImportTypes
<1>6. /\ SameRows /\ \A x \in Rows : OwnCreatedAt(x)' <=> OwnCreatedAt(x)
      /\ \A x \in Rows : Rank(x)' = Rank(x)
  BY <1>1 DEF SameRows, There, Was, Deletions, OwnCreatedAt, Rank, Before, table
<1>7. PassedUnread' = PassedUnread
  BY <1>2, <1>4, <1>5, <1>6 DEF PassedUnread, ImportTypes
<1>8. Rereadings' = Rereadings
  <2>1. \A x \in Rows : Due(x)' = Due(x)
    BY <1>4, <1>5, <1>6 DEF Due, SameRows
  <2> QED
    BY <1>6, <2>1 DEF Rereadings
<1>9. /\ Cardinality(PassedUnread) <= Deletions /\ IsFiniteSet(PassedUnread) /\ Deletions \in Nat
      /\ IsFiniteSet(Rereadings) /\ Cardinality(Rereadings) <= import.late /\ import.late \in Nat
      /\ import.kept \subseteq Rows
  BY DEF ReadingSound, ImportTypes
<1>10. ReadingSound'
  BY <1>1, <1>2, <1>6, <1>7, <1>8, <1>9
     DEF ReadingSound, PageAsked, TableEnds, NoList, SameRows
<1>11. ReadAreRows'
  BY <1>2, <1>5, <1>6 DEF ReadAreRows, SameRows, ImportTypes
<1>12. ASSUME over PROVE SkipsHaveACause'
  <2> DEFINE missed == {x \in import'.kept : OwnCreatedAt(x)' /\ import'.got[x] = 0}
  <2>1. PICK n \in Nat : TableEnds(n) /\ n <= Reached
    <3>1. list.total \in Nat /\ next \in Nat
      <4>1. Cardinality(Rows) \in Nat
        BY RowsAssumption, FS_CardinalityType
      <4> QED
        BY <1>1, <1>3, <4>1 DEF Lists, ImportTypes
    <3>2. CASE list.items = {}
      BY <1>4, <1>12, <3>2 DEF over, TableEnds
    <3>3. CASE next > list.total
      BY <1>4, <1>12, <3>1, <3>3 DEF over, TableEnds
    <3> QED
      BY <1>12, <3>2, <3>3 DEF over
  <2>2. Cardinality(Beyond(n)) <= import.late /\ IsFiniteSet(Beyond(n))
    BY <2>1 DEF ReadingSound, ImportTypes
  <2>3. \A x \in Rows : Rank(x) \in Nat
    BY Ranked DEF IInv
  <2>4. missed \subseteq PassedUnread \cup Beyond(n)
    BY <1>2, <1>4, <1>5, <1>6, <1>9, <2>1, <2>3 DEF PassedUnread, Beyond
  <2> PICK A, B, d, l : A = PassedUnread /\ B = Beyond(n) /\ d = Deletions /\ l = import.late
    OBVIOUS
  <2> HIDE DEF missed
  <2>5. Cardinality(missed) <= d + l
    <3>1. /\ IsFiniteSet(A \cup B) /\ IsFiniteSet(A \cap B)
          /\ Cardinality(A \cup B) = Cardinality(A) + Cardinality(B) - Cardinality(A \cap B)
      <4>1. A \cap B \in SUBSET A
        OBVIOUS
      <4> QED
        BY <1>9, <2>2, <4>1, FS_Union, FS_Subset
    <3>2. Cardinality(A) \in Nat /\ Cardinality(B) \in Nat /\ Cardinality(A \cap B) \in Nat
      BY <1>9, <2>2, <3>1, FS_CardinalityType
    <3>3. Cardinality(A \cup B) <= d + l /\ d + l \in Int
      BY <1>9, <2>2, <3>1, <3>2
    <3> QED
      BY <2>4, <3>1, <3>3, Shrunk
  <2>6. Deletions' = d /\ import'.late = l
    BY <1>2, <1>6 DEF SameRows
  <2> QED
    BY <2>5, <2>6 DEF SkipsHaveACause, missed
<1>13. IsFiniteSet(Repeats') /\ RepeatsHaveACause'
  <2>1. Repeats' \subseteq Rereadings
    <3> SUFFICES ASSUME NEW w \in Repeats' PROVE w \in Rereadings
      OBVIOUS
    <3>1. PICK x \in Rows : OwnCreatedAt(x) /\ w \in {x} \X (2..import'.got[x])
      BY <1>6 DEF Repeats
    <3>2. import'.got[x] = Readings(x) /\ Readings(x) \in Nat /\ Due(x) \in {Readings(x), Readings(x) + 1}
      BY <1>5 DEF ImportTypes
    <3>3. w \in {x} \X (2..Due(x))
      BY <3>1, <3>2
    <3> QED
      BY <3>1, <3>3 DEF Rereadings
  <2> PICK A, B, l : A = Rereadings /\ B = Repeats' /\ l = import.late
    OBVIOUS
  <2>2. IsFiniteSet(B) /\ Cardinality(B) <= l
    BY <1>9, <2>1, Shrunk
  <2> QED
    BY <1>2, <2>2 DEF RepeatsHaveACause
<1> QED
  BY <1>1, <1>2, <1>10, <1>11, <1>12, <1>13 DEF DoneSound

(* An import that is done is not disturbed: its rows can only lose what    *)
(* makes them count.                                                       *)
LEMMA DoneStays ==
  ASSUME IInv, [Next]_vars, DoneSound, ReadAreRows, import.phase = "done"
  PROVE  import' = import /\ DoneSound' /\ ReadAreRows'
<1> ImportTypes
  BY ImportFacts
<1>1. list = NoList /\ SkipsHaveACause /\ IsFiniteSet(Repeats) /\ RepeatsHaveACause
  BY DEF DoneSound
<1>2. import' = import /\ list' = list
  BY <1>1 DEF ImportTypes, Next, Tick, SendInsert, CommitInsert, DeleteRow, Disturb, AskPage, Ask,
              CountRows, FindUsers, FindGroups, TakePage, NoList, vars
<1>3. /\ Was \subseteq Was' /\ Deletions <= Deletions' /\ Deletions \in Nat /\ Deletions' \in Nat
      /\ \A x \in Was : OwnCreatedAt(x)' => OwnCreatedAt(x)
  BY RowsStay, OwnStays
<1>4. \A x \in Rows : Readings(x) = import.got[x] /\ Readings(x)' = import.got[x]
                      /\ import.got[x] \in Nat
  BY <1>1, <1>2 DEF Readings, Items, ImportTypes
<1>5. /\ import.kept \subseteq Was /\ \A x \in Rows : import.got[x] > 0 => x \in Was
      /\ import.late \in Nat /\ import.kept \subseteq Rows
  BY <1>4 DEF ReadAreRows, ImportTypes
<1>6. ReadAreRows'
  BY <1>2, <1>3, <1>4, <1>5 DEF ReadAreRows
<1>7. SkipsHaveACause'
  <2> PICK A, B, d, e :
        /\ A = {x \in import.kept : OwnCreatedAt(x) /\ import.got[x] = 0}
        /\ B = {x \in import.kept : OwnCreatedAt(x)' /\ import.got[x] = 0}
        /\ d = Deletions + import.late /\ e = Deletions' + import.late
    OBVIOUS
  <2>1. B \subseteq A /\ A \in SUBSET Rows
    BY <1>3, <1>5
  <2>2. IsFiniteSet(A) /\ Cardinality(A) <= d /\ d \in Int /\ e \in Int /\ d <= e
    BY <1>1, <1>3, <1>5, <2>1, RowsAssumption, FS_Subset DEF SkipsHaveACause
  <2>3. IsFiniteSet(B) /\ Cardinality(B) <= d
    BY <2>1, <2>2, Shrunk
  <2>4. Cardinality(B) <= e
    BY <2>2, <2>3, FS_CardinalityType
  <2> QED
    BY <1>2, <2>4 DEF SkipsHaveACause
<1>8. IsFiniteSet(Repeats') /\ RepeatsHaveACause'
  <2>1. Repeats' \subseteq Repeats
    <3> SUFFICES ASSUME NEW w \in Repeats' PROVE w \in Repeats
      OBVIOUS
    <3>1. PICK x \in Rows : OwnCreatedAt(x)' /\ w \in {x} \X (2..import.got[x])
      BY <1>2 DEF Repeats
    <3>2. OwnCreatedAt(x)
      BY <1>3, <1>4, <1>5, <3>1
    <3> QED
      BY <3>1, <3>2 DEF Repeats
  <2> PICK A, B, l : A = Repeats /\ B = Repeats' /\ l = import.late
    OBVIOUS
  <2>2. IsFiniteSet(A) /\ Cardinality(A) <= l /\ l \in Int
    BY <1>1, <1>5 DEF RepeatsHaveACause
  <2>3. IsFiniteSet(B) /\ Cardinality(B) <= l
    BY <2>1, <2>2, Shrunk
  <2> QED
    BY <1>2, <2>3 DEF RepeatsHaveACause
<1> QED
  BY <1>1, <1>2, <1>6, <1>7, <1>8 DEF DoneSound

LEMMA ImportPreserved == IInv /\ ImportSound /\ [Next]_vars => ImportSound'
<1> SUFFICES ASSUME IInv, ReadingSound, DoneSound, ReadAreRows, [Next]_vars PROVE ImportSound'
  BY DEF ImportSound
<1>1. IInv'
  BY Preserved
<1>2. CASE import.phase = "done"
  BY <1>2, DoneStays DEF ImportSound, ReadingSound
<1>3. CASE import = NoImport
  <2>1. import' = NoImport
    BY <1>3 DEF Next, Tick, SendInsert, CommitInsert, DeleteRow, Disturb, AskPage, Ask,
                CountRows, FindUsers, FindGroups, TakePage, NoImport, vars
  <2> QED
    BY <2>1 DEF ImportSound, ReadingSound, DoneSound, ReadAreRows, NoImport
<1>4. CASE import.phase = "reading"
  <2> ImportTypes
    BY <1>4, ImportFacts
  <2>1. Was \subseteq Was'
    BY RowsStay
  <2>2. ASSUME NEW late \in Nat, Disturb(late) PROVE DoneSound' /\ ReadAreRows'
    <3>1. /\ import'.phase = "reading" /\ import'.kept \subseteq import.kept
          /\ \A x \in Rows : Readings(x)' = Readings(x)
      BY <1>4, <2>2, SameRead
    <3> QED
      BY <2>1, <3>1 DEF DoneSound, ReadAreRows, ImportTypes
  <2>3. ASSUME NEW x \in Rows, CommitInsert(x) PROVE ImportSound'
    <3>1. \E late \in Nat : Disturb(late)
      BY <2>3 DEF CommitInsert
    <3>2. ReadingSound'
      BY <1>1, <1>4, <2>3, InsertRead
    <3> QED
      BY <2>2, <3>1, <3>2 DEF ImportSound
  <2>4. ASSUME NEW x \in Rows, DeleteRow(x) PROVE ImportSound'
    <3>1. Disturb(0)
      BY <2>4 DEF DeleteRow
    <3>2. ReadingSound'
      BY <1>1, <1>4, <2>4, DeleteRead
    <3> QED
      BY <2>2, <3>1, <3>2 DEF ImportSound
  <2>5. CASE TakePage
    BY <1>1, <2>5, TakeRead DEF ImportSound
  <2>6. CASE FindPage /\ (FindUsers \/ FindGroups)
    <3>1. list.phase = "finding" /\ UNCHANGED <<table, import>>
      BY <2>6 DEF FindUsers, FindGroups
    <3>2. DoneSound'
      BY <1>4, <3>1 DEF DoneSound
    <3> QED
      BY <1>1, <1>4, <2>6, <3>1, <3>2, FindRead DEF ImportSound
  <2>7. ASSUME SameRows, import' = import, Items' = Items, PageAsked',
               \A n \in Nat : TableEnds(n)' => TableEnds(n) \/ Beyond(n)' = {}
        PROVE  ImportSound'
    <3>1. ReadingSound'
      BY <1>1, <1>4, <2>7, NothingRead
    <3>2. \A x \in Rows : Readings(x)' = Readings(x)
      BY <2>7 DEF Readings
    <3>3. ReadAreRows'
      BY <2>7, <3>2 DEF ReadAreRows, SameRows, ImportTypes
    <3> QED
      BY <1>4, <2>7, <3>1, <3>3 DEF ImportSound, DoneSound
  <2>8. CASE UNCHANGED <<table, list, import>>
    BY <1>4, <2>7, <2>8
       DEF table, SameRows, There, Was, Deletions, Items, PageAsked, ReadingSound, TableEnds, Reached
  <2>9. CASE Tick
    BY <1>4, <2>7, <2>9
       DEF Tick, SameRows, There, Was, Deletions, Items, PageAsked, ReadingSound, TableEnds, Reached
  <2>10. ASSUME NEW y \in Rows, SendInsert(y) PROVE ImportSound'
    <3>1. rows \in [Rows -> RowStates]
      BY DEF IInv, TableTyped
    <3>2. /\ rows[y].is = "new" /\ rows'[y].is = "inserting"
          /\ \A x \in Rows : x # y => rows'[x] = rows[x]
      BY <2>10, <3>1 DEF SendInsert
    <3>3. {x \in Rows : rows'[x].is = "gone"} = {x \in Rows : rows[x].is = "gone"}
      BY <3>2
    <3>4. SameRows
      BY <3>2, <3>3 DEF SameRows, There, Was, Deletions
    <3> QED
      BY <1>4, <2>7, <2>10, <3>4
         DEF SendInsert, Items, PageAsked, ReadingSound, TableEnds, Reached
  <2>11. CASE AskPage
    <3>1. PICK q \in PageQuery : q.startIndex = import.next /\ list' = List(q)
      BY <2>11 DEF AskPage
    <3>2. /\ list = NoList /\ UNCHANGED <<table, import>>
          /\ list'.phase = "counting" /\ list'.items = {} /\ list'.query = q
      BY <2>11, <3>1 DEF AskPage, List
    <3>3. Items' = Items /\ PageAsked'
      BY <3>1, <3>2 DEF Items, PageAsked, NoList
    <3>4. SameRows /\ \A n \in Nat : ~TableEnds(n)'
      BY <3>2 DEF table, SameRows, There, Was, Deletions, TableEnds
    <3> QED
      BY <2>7, <3>2, <3>3, <3>4
  <2>12. CASE Fail /\ (CountRows \/ FindGroups)
    <3>1. list.phase \in {"counting", "finding"} /\ UNCHANGED <<table, import>>
      BY <2>12 DEF CountRows, FindGroups
    <3>2. list # NoList /\ list \in Lists
      BY <3>1 DEF IInv, ListSound, NoList
    <3>3. list'.phase = "failed" /\ list'.items = {} /\ list'.query = list.query
      BY <2>12, <3>2 DEF Fail, Lists
    <3>4. Items' = Items /\ PageAsked'
      BY <1>4, <3>1, <3>2, <3>3 DEF ReadingSound, PageAsked, Items, NoList
    <3>5. SameRows /\ \A n \in Nat : ~TableEnds(n)'
      BY <3>1, <3>3 DEF table, SameRows, There, Was, Deletions, TableEnds
    <3> QED
      BY <2>7, <3>1, <3>4, <3>5
  <2>13. CASE CountRows /\ ~Fail
    <3> DEFINE total == Cardinality(There \cap Where(list.query))
    <3>1. /\ list.phase = "counting" /\ UNCHANGED <<table, import>>
          /\ list' = [list EXCEPT !.phase = "finding", !.total = total]
      BY <2>13 DEF CountRows
    <3>2. list # NoList /\ list \in Lists
      BY <3>1 DEF IInv, ListSound, NoList
    <3>3. list.query \in PageQuery /\ list.items = {}
      BY <1>4, <3>1, <3>2 DEF ReadingSound, PageAsked
    <3>4. total = Cardinality(There)
      <4>1. There \cap Where(list.query) = There
        BY <3>3, Matching DEF PageQuery, Where, Unread, FilterAttribute
      <4> QED
        BY <4>1
    <3> HIDE DEF total
    <3>5. /\ list'.phase = "finding" /\ list'.total = total /\ list'.items = list.items
          /\ list'.query = list.query
      BY <3>1, <3>2 DEF Lists
    <3>6. Items' = Items /\ PageAsked'
      BY <1>4, <3>1, <3>2, <3>3, <3>5 DEF ReadingSound, PageAsked, Items, NoList
    <3>7. SameRows /\ \A x \in There : Rank(x)' = Rank(x)
      BY <3>1 DEF table, SameRows, There, Was, Deletions, Rank, Before
    <3>8. ASSUME NEW n \in Nat, TableEnds(n)' PROVE Beyond(n)' = {}
      <4>1. n = Cardinality(There)
        BY <3>4, <3>5, <3>8 DEF TableEnds
      <4>2. \A x \in There : Rank(x)' < n /\ Rank(x)' \in Nat
        BY <3>7, <4>1, Ranked DEF IInv
      <4>3. import'.kept \subseteq There
        BY <1>4, <3>1 DEF IInv, ImportTyped
      <4> QED
        BY <4>2, <4>3 DEF Beyond
    <3> QED
      BY <2>7, <3>1, <3>6, <3>7, <3>8
  <2>14. ~\E q \in Query : Ask(q)
    BY <1>4 DEF Ask, NoImport
  <2> QED
    BY <2>3, <2>4, <2>5, <2>6, <2>8, <2>9, <2>10, <2>11, <2>12, <2>13, <2>14
       DEF Next, FindUsers, FindGroups, vars, table
<1> QED
  BY <1>2, <1>3, <1>4 DEF IInv, ImportTyped, Imports

LEMMA InitiallyUnread == Init => ImportSound
<1> SUFFICES ASSUME Init PROVE ImportSound
  OBVIOUS
<1>1. IInv /\ list = NoList
  BY InitiallySound DEF Init
<1>2. CASE import = NoImport
  BY <1>2 DEF ImportSound, ReadingSound, DoneSound, ReadAreRows, NoImport
<1>3. CASE import # NoImport
  <2>1. /\ import.phase = "reading" /\ import.next = 1 /\ import.kept = There /\ import.late = 0
        /\ import.got = [x \in Rows |-> 0]
    BY <1>3 DEF Init
  <2> ImportTypes
    BY <1>1, <2>1, ImportFacts
  <2>2. Items = {} /\ Reached = 0 /\ \A x \in Rows : Readings(x) = 0 /\ Due(x) = 0
    BY <1>1, <2>1, FS_EmptySet DEF Items, Reached, Readings, Due
  <2>3. PassedUnread = {}
    BY <1>1, <2>2, Ranked DEF PassedUnread, IInv
  <2>4. Rereadings = {}
    BY <2>2 DEF Rereadings
  <2>5. \A n \in Nat : ~TableEnds(n)
    BY <1>1 DEF TableEnds, NoList
  <2>6. ReadingSound
    BY <1>1, <2>1, <2>3, <2>4, <2>5, FS_EmptySet DEF ReadingSound, PageAsked, ImportTypes
  <2> QED
    BY <2>1, <2>2, <2>6, ThereWas DEF ImportSound, DoneSound, ReadAreRows
<1> QED
  BY <1>2, <1>3

LEMMA ImportInvariant == Spec => [](IInv /\ ImportSound)
<1>1. Init => IInv /\ ImportSound
  BY InitiallySound, InitiallyUnread
<1>2. IInv /\ ImportSound /\ [Next]_vars => (IInv /\ ImportSound)'
  BY Preserved, ImportPreserved
<1> QED
  BY <1>1, <1>2, PTL DEF Spec

-------------------------------------------------------------------------------
(* The theorems. *)

(* The rows, the list and the import are in order, whatever is asked for   *)
(* and whatever comes and goes meanwhile; no answer reports a startIndex   *)
(* below 1 (scim-filter.util.ts:23-30).                                    *)
THEOREM TypeCorrect == Spec => []TypeOK
<1>1. IInv => TypeOK
  BY DEF IInv, TableTyped, ListSound, ImportTyped, TypeOK
<1> QED
  BY <1>1, Invariant, PTL

(* A page is as full as the table allows it, for every table and every     *)
(* page: totalResults, startIndex and the rows of one answer agree unless  *)
(* a row comes or goes between count and findMany (users.service.ts:15-23, *)
(* groups.service.ts:16-25).                                               *)
THEOREM PagesAlwaysFit == Spec => []PagesFit
<1>1. IInv => PagesFit
  BY DEF IInv, ListSound
<1> QED
  BY <1>1, Invariant, PTL

(* The check before a create (users by userName, groups by displayName)    *)
(* gets the holder of the name and nothing else, however many rows there   *)
(* are, whatever comes and goes and whatever numbers are sent with the     *)
(* filter, but nobody where they ask for a later page or for no rows; a    *)
(* lookup by another attribute gets the whole table, as far as the count   *)
(* goes (users.service.ts:13-21, groups.service.ts:14-23,                  *)
(* scim-filter.util.ts:11-29).                                             *)
THEOREM LookupsAreAlwaysExact == Spec => LookupsAreExact
<1> DEFINE q       == list.query
           atFirst == StartIndex(q.startIndex) = 1
           holder  == There \cap {q.filter.value}
           Exact   == IF q.filter.attribute = FilterAttribute(q.resource)
                      THEN list'.items = IF atFirst /\ Count(q.count) # 0 THEN holder ELSE {}
                      ELSE q.filter # Unread /\ atFirst /\ Cardinality(There) <= Count(q.count)
                             => list'.items = There
<1>1. ASSUME IInv, Next, list.phase = "finding", Answered'
      PROVE  Exact
  <2> DEFINE S == There \cap Where(q)
  <2>1. FindPage
    <3>1. list \in Lists
      BY <1>1 DEF IInv, ListSound, NoList
    <3>2. list # NoList /\ list'.phase = "answered" /\ list.phase # "answered"
      BY <1>1 DEF NoList, Answered
    <3>3. ~Fail
      BY <3>1, <3>2 DEF Fail, Lists
    <3>4. \A late : ~Disturb(late)
      BY <1>1, <3>1, <3>2 DEF Disturb, Lists
    <3>5. CASE FindUsers \/ FindGroups
      BY <3>3, <3>5 DEF FindUsers, FindGroups
    <3>6. CASE Tick \/ \E x \in Rows : SendInsert(x) \/ CommitInsert(x) \/ DeleteRow(x)
      BY <3>2, <3>4, <3>6 DEF Tick, SendInsert, CommitInsert, DeleteRow
    <3>7. CASE AskPage \/ CountRows \/ TakePage \/ \E p \in Query : Ask(p)
      BY <1>1, <3>2, <3>7 DEF AskPage, CountRows, TakePage, Ask
    <3> QED
      BY <1>1, <3>5, <3>6, <3>7 DEF Next
  <2> DEFINE from  == StartIndex(q.startIndex)
             count == Count(q.count)
  <2>2. /\ from \in Nat \ {0} /\ count \in Nat
        /\ list'.items \subseteq S
        /\ Cardinality(list'.items) = Min({count, Max({Cardinality(S) - (from - 1), 0})})
        /\ from = 1 /\ Cardinality(S) <= count => list'.items = S
    BY <1>1, <2>1, PageFound
  <2>3. CASE q.filter.attribute = FilterAttribute(q.resource)
    <3>1. S = There \cap {q.filter.value}
      BY <2>3 DEF Where
    <3>2. S \in SUBSET {q.filter.value}
      BY <3>1
    <3> HIDE DEF S
    <3> PICK one : one = {q.filter.value}
      OBVIOUS
    <3>3. IsFiniteSet(S) /\ Cardinality(S) <= 1
      <4>1. IsFiniteSet(one) /\ Cardinality(one) = 1
        BY FS_Singleton
      <4> QED
        BY <3>2, <4>1, FS_Subset
    <3>4. Cardinality(S) \in Nat
      BY <3>3, FS_CardinalityType
    <3> HIDE DEF from, count
    <3>5. CASE from = 1 /\ count # 0
      <4>1. list'.items = S
        BY <2>2, <3>3, <3>4, <3>5
      <4> QED
        BY <2>3, <3>1, <3>5, <4>1 DEF from, count
    <3>6. CASE from # 1 \/ count = 0
      <4>1. Max({Cardinality(S) - (from - 1), 0}) =
              IF Cardinality(S) - (from - 1) >= 0 THEN Cardinality(S) - (from - 1) ELSE 0
        BY <2>2, <3>4, MaxOfTwo
      <4> DEFINE m == Max({Cardinality(S) - (from - 1), 0})
      <4>2. m \in Nat /\ (from # 1 => m = 0)
        BY <2>2, <3>3, <3>4, <4>1
      <4> HIDE DEF m
      <4>3. Min({count, m}) = IF count <= m THEN count ELSE m
        BY <2>2, <4>2, MinOfTwo
      <4>4. Min({count, m}) = 0
        BY <2>2, <3>6, <4>2, <4>3
      <4>5. Cardinality(list'.items) = 0
        BY <2>2, <4>4 DEF m
      <4> PICK found : found = list'.items
        OBVIOUS
      <4>6. IsFiniteSet(found)
        BY <2>2, <3>3, FS_Subset
      <4>7. list'.items = {}
        BY <4>5, <4>6, FS_EmptySet
      <4> QED
        BY <2>3, <3>6, <4>7 DEF from, count
    <3> QED
      BY <3>5, <3>6
  <2>4. CASE q.filter.attribute # FilterAttribute(q.resource)
    <3>1. S = There
      BY <2>4, Matching DEF Where
    <3> QED
      BY <2>2, <2>4, <3>1
  <2> QED
    BY <2>3, <2>4
<1>2. ASSUME IInv, [Next]_vars
      PROVE  [list.phase = "finding" /\ Answered' => Exact]_vars
  BY <1>1, <1>2
<1> QED
  BY <1>2, Invariant, PTL DEF Spec, LookupsAreExact

(* An import skips no row without a cause, however long the table and      *)
(* whatever the size of a page: of the rows that were there all the time   *)
(* and have a createdAt of their own it misses at most one for each        *)
(* deletion, and for each row that appears before an older answer's rows   *)
(* (users.service.ts:15-23, users.controller.ts:53-61).                    *)
THEOREM SkipsAlwaysHaveACause == Spec => []SkipsHaveACause
<1>1. ImportSound => SkipsHaveACause
  BY DEF ImportSound, DoneSound, SkipsHaveACause
<1> QED
  BY <1>1, ImportInvariant, PTL

(* And it reads a row again at most once for each row that appears out of  *)
(* the order of createdAt: deletions make an import skip, never repeat     *)
(* (users.service.ts:15-23, users.controller.ts:53-61).                    *)
THEOREM RepeatsAlwaysHaveACause == Spec => []RepeatsHaveACause
<1>1. IInv /\ ImportSound => RepeatsHaveACause
  <2> SUFFICES ASSUME IInv, ImportSound, import.phase = "reading"
               PROVE  Cardinality(Repeats) <= import.late
    BY DEF ImportSound, DoneSound, RepeatsHaveACause, IInv, ImportTyped, Imports, NoImport
  <2> ImportTypes
    BY ImportFacts
  <2>1. Repeats \subseteq Rereadings
    <3> SUFFICES ASSUME NEW w \in Repeats PROVE w \in Rereadings
      OBVIOUS
    <3>1. PICK x \in Rows : OwnCreatedAt(x) /\ w \in {x} \X (2..import.got[x])
      BY DEF Repeats
    <3>2. import.got[x] \in Nat /\ Due(x) \in Nat /\ import.got[x] <= Due(x)
      BY DEF ImportTypes, Readings
    <3>3. w \in {x} \X (2..Due(x))
      BY <3>1, <3>2
    <3> QED
      BY <3>1, <3>3 DEF Rereadings
  <2>2. IsFiniteSet(Rereadings) /\ Cardinality(Rereadings) <= import.late /\ import.late \in Int
    BY DEF ImportSound, ReadingSound, ImportTypes
  <2> QED
    BY <2>1, <2>2, Shrunk
<1> QED
  BY <1>1, ImportInvariant, PTL
===============================================================================
