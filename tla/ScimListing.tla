------------------------------ MODULE ScimListing ------------------------------
(***************************************************************************)
(* GET /Users and GET /Groups: the filter, the pagination and the two      *)
(* statements of a list, count and findMany, over a table that other       *)
(* requests change between and beside them; and a client that reads the    *)
(* whole table page by page, as Okta's import does.                        *)
(*                                                                         *)
(* The statements run in one transaction, but at READ COMMITTED: each sees *)
(* what is committed when it starts.  createdAt is set by Prisma when it   *)
(* sends the INSERT, so a row can appear after a row with a later          *)
(* createdAt, and two rows can have the same one.                          *)
(***************************************************************************)
EXTENDS Integers, FiniteSets, FiniteSetsExt, SequencesExt

CONSTANTS Rows,      \* users, or groups; a row's name (userName, displayName) is its own
          PageSize,  \* the count of the importing client
          MaxClock,  \* bound: the last createdAt
          NaN, Fraction,  \* Number(text) that is no number, and one such as 1.5
          Numbers,        \* what clients send for startIndex and for count,
          LookupNumbers   \*   and what they send with a filter

ASSUME PageSizeAssumption == PageSize \in Nat \ {0}
ASSUME RowsAssumption == IsFiniteSet(Rows)
ASSUME MaxClockAssumption == MaxClock \in Nat \ {0}
ASSUME NumbersAssumption ==
  /\ NaN \notin Int /\ Fraction \notin Int /\ NaN # Fraction
  /\ Numbers \cup LookupNumbers \subseteq Int \cup {NaN, Fraction}

VARIABLES rows,    \* createdAt of each row, and whether it is there
          clock,
          list,    \* the list request in progress
          import   \* the client that imports, or NoImport when another client asks

vars == <<rows, clock, list, import>>
table == <<rows, clock>>

RowStates == [createdAt : 0..MaxClock, is : {"new", "inserting", "there", "gone"}]
There     == {x \in Rows : rows[x].is = "there"}

-------------------------------------------------------------------------------
(* The query parameters. *)

Resources == {"users", "groups"}

(* A filter that parseEqFilter does not read (or none), or attribute eq "value". *)
Unread  == [attribute |-> "unread"]
Lookups == [attribute : {"userName", "displayName", "title"}, value : Rows]

Query ==
       [resource : Resources, filter : {Unread}, startIndex : Numbers, count : Numbers]
  \cup [resource : Resources, filter : Lookups,
        startIndex : LookupNumbers, count : LookupNumbers]

(* What the importing client asks for. *)
PageQuery ==
  [resource : Resources, filter : {Unread}, startIndex : 1..Cardinality(Rows), count : {PageSize}]

(* The attribute each service looks for. *)
FilterAttribute(resource) == IF resource = "users" THEN "userName" ELSE "displayName"

(* Variant: the attribute is not looked at.                                *)
WhereOfAnyFilter(q) == IF q.filter = Unread THEN Rows ELSE {q.filter.value}

(* where: the rows a query is about. *)
Where(q) ==
  IF q.filter.attribute = FilterAttribute(q.resource) THEN {q.filter.value} ELSE Rows

(* A fraction between 0 and 1 is left out: it goes the way of 0, or of 1.5. *)
Usable(n, least) == n # NaN /\ (n = Fraction \/ (n \in Int /\ n >= least))

StartIndexFromZero(n) == IF Usable(n, 0) THEN n ELSE 1  \* variant: parsedStart >= 0
StartIndex(n) == IF Usable(n, 1) THEN n ELSE 1

CountIfPositive(n) == IF Usable(n, 1) THEN n ELSE 100   \* variant: parsedCount || 100
Count(n) == IF Usable(n, 0) THEN n ELSE 100

SkipFromOne(startIndex) == startIndex  \* variant: skip: startIndex
Skip(startIndex) == Max({startIndex - 1, 0})

(* Prisma refuses a skip or a take that is no integer. *)
PrismaAccepts(q) == StartIndex(q.startIndex) # Fraction /\ Count(q.count) # Fraction

-------------------------------------------------------------------------------
(* The rows a findMany returns: one page of the table in the order of      *)
(* createdAt; PostgreSQL may put rows of one createdAt in any order, a     *)
(* different one each time.                                                *)

(* Variant: without orderBy.                                               *)
InAnyOrder(o) == TRUE
InOrder(o) == \A i, j \in DOMAIN o : i < j => rows[o[i]].createdAt <= rows[o[j]].createdAt

Page(o, q) ==
  LET skip == Skip(StartIndex(q.startIndex))
  IN  {o[i] : i \in {j \in DOMAIN o : skip < j /\ j <= skip + Count(q.count)}}

NoList   == [phase |-> "idle"]
NoImport == [phase |-> "none"]

Lists   == [phase : {"counting", "finding", "answered", "failed"}, query : Query \cup PageQuery,
            total : 0..Cardinality(Rows), items : SUBSET Rows, quiet : BOOLEAN]
Imports == [phase : {"reading", "done"}, next : Nat \ {0}, got : [Rows -> Nat],
            kept : SUBSET Rows, late : Nat]

(* quiet: no row has come or gone between the two statements. *)
List(q) == [phase |-> "counting", query |-> q, total |-> 0, items |-> {}, quiet |-> TRUE]

(* Any table, and an import about to start, or another client about to ask *)
(* one thing of it.                                                        *)
Init ==
  /\ clock = 1
  /\ rows \in [Rows -> {[createdAt |-> t, is |-> "there"] : t \in 0..1}
                         \cup {[createdAt |-> 0, is |-> "new"]}]
  /\ list = NoList
  /\ import \in {NoImport,
                 [phase |-> "reading", next |-> 1, got |-> [x \in Rows |-> 0],
                  kept |-> There, late |-> 0]}

-------------------------------------------------------------------------------
(* Users and groups come and go. *)

Tick ==
  /\ clock < MaxClock
  /\ clock' = clock + 1
  /\ UNCHANGED <<rows, list, import>>

(* Prisma sends an INSERT, with a createdAt of this moment. *)
SendInsert(x) ==
  /\ rows[x].is = "new"
  /\ rows' = [rows EXCEPT ![x] = [createdAt |-> clock, is |-> "inserting"]]
  /\ UNCHANGED <<clock, list, import>>

(* What the lists in progress take notice of. *)
Disturb(late) ==
  /\ list' = IF list.phase = "finding" THEN [list EXCEPT !.quiet = FALSE] ELSE list
  /\ import' = IF import.phase = "reading"
               THEN [import EXCEPT !.kept = @ \cap {y \in Rows : rows'[y].is = "there"},
                                   !.late = @ + late]
               ELSE import

CommitInsert(x) ==
  LET after == {y \in There : rows[y].createdAt >= rows[x].createdAt}
  IN  /\ rows[x].is = "inserting"
      /\ rows' = [rows EXCEPT ![x].is = "there"]
      /\ Disturb(IF after = {} THEN 0 ELSE 1)
      /\ UNCHANGED clock

DeleteRow(x) ==
  /\ rows[x].is = "there"
  /\ rows' = [rows EXCEPT ![x].is = "gone"]
  /\ Disturb(0)
  /\ UNCHANGED clock

-------------------------------------------------------------------------------
(* A list. *)

(* The client that imports asks for the page from its next index on. *)
AskPage ==
  /\ list = NoList
  /\ import.phase = "reading"
  /\ \E q \in PageQuery : q.startIndex = import.next /\ list' = List(q)
  /\ UNCHANGED <<table, import>>

(* Another client asks whatever it likes. *)
Ask(q) ==
  /\ list = NoList
  /\ import = NoImport
  /\ list' = List(q)
  /\ UNCHANGED <<table, import>>

Fail == list' = [list EXCEPT !.phase = "failed", !.items = {}]

(* $transaction([count, findMany]): Prisma checks the arguments of both    *)
(* before it sends the count.                                              *)
CountRows ==
  /\ list.phase = "counting"
  /\ \/ ~PrismaAccepts(list.query) /\ Fail
     \/ /\ PrismaAccepts(list.query)
        /\ list' = [list EXCEPT !.phase = "finding",
                                !.total = Cardinality(There \cap Where(list.query))]
  /\ UNCHANGED <<table, import>>

FindPage ==
  \E o \in SetToSeqs(There \cap Where(list.query)) :
    /\ InOrder(o)
    /\ list' = [list EXCEPT !.phase = "answered", !.items = Page(o, list.query)]

FindUsers ==
  /\ list.phase = "finding"
  /\ list.query.resource = "users"
  /\ FindPage
  /\ UNCHANGED <<table, import>>

(* The groups of a page come with their members, which Prisma reads after  *)
(* them: a member deleted meanwhile makes the result inconsistent          *)
(* (ScimGroups, FindUsers).                                                *)
FindGroups ==
  /\ list.phase = "finding"
  /\ list.query.resource = "groups"
  /\ \/ FindPage
     \/ There \cap Where(list.query) # {} /\ Fail
  /\ UNCHANGED <<table, import>>

(* The client has read a page; it goes on while totalResults says there is *)
(* more, and asks again for a page that failed.                            *)
TakePage ==
  LET next == import.next + Cardinality(list.items)
  IN  /\ import.phase = "reading"
      /\ list.phase \in {"answered", "failed"}
      /\ list' = NoList
      /\ import' = [import EXCEPT
                      !.got   = [x \in Rows |-> @[x] + IF x \in list.items THEN 1 ELSE 0],
                      !.next  = next,
                      !.phase = IF list.phase = "answered" /\ (next > list.total \/ list.items = {})
                                THEN "done" ELSE "reading"]
      /\ UNCHANGED table

Next == \/ Tick
        \/ \E x \in Rows : SendInsert(x) \/ CommitInsert(x) \/ DeleteRow(x)
        \/ AskPage
        \/ \E q \in Query : Ask(q)
        \/ CountRows
        \/ FindUsers
        \/ FindGroups
        \/ TakePage

Spec == Init /\ [][Next]_vars

-------------------------------------------------------------------------------
Answered == list.phase = "answered"

(* The rows, the list and the import are in order; an answer reports a     *)
(* startIndex from 1 on.                                                   *)
TypeOK ==
  /\ rows \in [Rows -> RowStates]
  /\ clock \in 0..MaxClock
  /\ list \in {NoList} \cup Lists
  /\ list # NoList => list.items \subseteq Where(list.query)
  /\ Answered => StartIndex(list.query.startIndex) \in Nat \ {0}
  /\ import \in {NoImport} \cup Imports
  /\ import.phase = "reading" => import.kept \subseteq There

(* totalResults, startIndex and the page of one answer agree, whatever the *)
(* numbers asked for, unless a row comes or goes between the count and the *)
(* findMany (users.service.ts:15-23): a page is full or ends the table.    *)
PagesFit ==
  Answered /\ list.quiet =>
    LET from == StartIndex(list.query.startIndex)
    IN  /\ Cardinality(list.items)
             = Min({Count(list.query.count), Max({list.total - (from - 1), 0})})
        /\ list.query.count \in Nat => Cardinality(list.items) <= list.query.count

(* A lookup by the name each service knows returns the holder of the name  *)
(* and no other row, whatever runs beside it, unless the client asks for a *)
(* page after the first or for no rows: skip and take are applied to a     *)
(* lookup as well.  By any other attribute it is a page of all rows        *)
(* (users.service.ts:13-21, groups.service.ts:14-23,                       *)
(* scim-filter.util.ts:11-29).                                             *)
LookupsAreExact ==
  [][list.phase = "finding" /\ Answered' =>
       LET q       == list.query
           atFirst == StartIndex(q.startIndex) = 1
           holder  == There \cap {q.filter.value}
       IN  IF q.filter.attribute = FilterAttribute(q.resource)
           THEN list'.items = IF atFirst /\ Count(q.count) # 0 THEN holder ELSE {}
           ELSE q.filter # Unread /\ atFirst /\ Cardinality(There) <= Count(q.count)
                  => list'.items = There]_vars

(* Rows that share their createdAt with no row that was ever there. *)
OwnCreatedAt(x) ==
  \A y \in Rows \ {x} : rows[y].is \in {"there", "gone"} => rows[y].createdAt # rows[x].createdAt

Deletions == Cardinality({x \in Rows : rows[x].is = "gone"})

(* An import skips no one without a cause: of the rows that were there all *)
(* the time and have a createdAt of their own, it misses at most one for   *)
(* each deletion, and for each row that appears before an older answer's   *)
(* rows, while it ran (users.service.ts:15-23, users.controller.ts:53-61). *)
SkipsHaveACause ==
  import.phase = "done" =>
    Cardinality({x \in import.kept : OwnCreatedAt(x) /\ import.got[x] = 0})
      <= Deletions + import.late

(* The second and later readings of the rows that have a createdAt of      *)
(* their own.                                                              *)
Repeats == UNION {{x} \X (2..import.got[x]) : x \in {y \in Rows : OwnCreatedAt(y)}}

(* And it repeats none without a cause: it reads them again at most once   *)
(* for each row that appears out of the order of createdAt                 *)
(* (users.service.ts:15-23, users.controller.ts:53-61).                    *)
RepeatsHaveACause == import.phase # "none" => Cardinality(Repeats) <= import.late
===============================================================================
