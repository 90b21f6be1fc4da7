# TLA+ models of okta-scim-server

The repository is a small provisioning system. Okta pushes users and groups over
SCIM 2.0 to a NestJS server (`src/src`), which keeps them in PostgreSQL through
Prisma. Okta authenticates with tokens of Keycloak. A reverse proxy in front of
both (`src/tools/edge-proxy.js`) copies the traffic into a buffer of the server, and
the page `/demo` shows the buffer and the users.

This directory models the parts of it that have behaviour to get wrong: the
handlers of `/Users` and `/Groups` at the granularity of their awaits and SQL
statements, their lists and what a client makes of the pages, the evaluation of PATCH
operations, the way of a request through the guard, the log and the mapping of errors,
the demo's wipe, and the activity log. The models are checked with TLC on small instances; every
invariant and action property, and the refinement, is also proved with TLAPS for every
instance; liveness is left to TLC.

Run a check with `tlc -config <run>.cfg <module>`, a proof with
`tlapm <module>.tla`. `PROJECT.json` names the module of each run and, for each
definition, the lines of the source it stands for.

## Inventory

| Component | State | Operations | What is hard about it |
|---|---|---|---|
| Users endpoints (`scim/users`) | table `scim_users` | POST, GET, PUT, PATCH, DELETE of one user | every operation looks first and writes later, with an await (up to a bcrypt hash) in between; nothing is locked in between |
| User PATCH (`apply-user-patch.ts`) | none | a loop over `Operations` | two spellings of each column, JavaScript conversions, a throw half-way |
| Groups endpoints (`scim/groups`) | tables `scim_groups`, `scim_group_members` | POST, GET, PUT, PATCH, DELETE of one group | transactions of several statements at READ COMMITTED, row locks, foreign keys, cascades, deadlocks |
| Group PATCH (`apply-group-patch.ts`) | none | a loop over `Operations` | removals and additions are collected and carried out in another order |
| Exception filter (`scim-exception.filter.ts`) | none | exception to status and scimType | what it does not know becomes a 500 |
| Listing (`list`, `scim-filter.util.ts`) | none | filter, count, page | two statements per list, an order with ties, parameters of any number |
| Schema (`prisma/`) | the three tables | unique indexes, foreign keys, cascades | the only place where uniqueness is really enforced |
| Demo data (`demo.controller.ts`) | none of its own | `clearData`, the user list | three deletes without a transaction, beside whatever Okta does |
| Activity log (`events.store.ts`, `demo.controller.ts`, `demo.page.ts`) | ring buffer and `seq` in memory; cards and `renderedSeq` in the page | ingest, list, clear; poll, render, click | overlapping polls, clears, restarts |
| Edge proxy (`tools/edge-proxy.js`) | none | route, capture, post events | posts are neither awaited nor repeated |
| JWT guard (`auth`) | key set cached by `jose` | verify a token | key rotation, an answer that is old when it arrives, unavailable Keycloak |
| Request logging (`logging.interceptor.ts`) | none | a line before and after each handler | it works out a status before the filter chooses one |
| Discovery, bootstrap | none | constant documents, wiring | nothing that changes state |
| Stack scripts (`scripts/`) | pid files, child processes | start, stop | process control |

How they interact: Okta calls the proxy; the proxy calls the server or Keycloak
and posts two events per exchange to the server; the guard checks the token, the
ValidationPipe the body, the controller calls the service, the service calls
Prisma, and whatever is thrown on the way ends in the exception filter. `/Users`
and `/Groups` meet in the database: deleting a user cascades to memberships, and a
membership refers to a user. `/demo` reads and empties the same tables.

What makes each component correct:

- **Users**: no two users with one `userName`; a lost race is a 404 or 409 and not a
  500; a deleted user stays deleted; a write changes only what its body mentions;
  the password changes only by a PUT that has one; in short, each request takes
  effect at one instant.
- **Groups**: no membership without its group and its user; unique display names;
  a deleted group stays deleted; memberships change only by a request that says so,
  when it commits; every request ends, whatever locks it meets.
- **PATCH evaluation**: the last operation wins, one request does what a request per
  operation would, only unreadable bodies throw, and a member leaves only when a removal
  names it or matches it.
- **Activity log**: in order, no duplicates, nothing skipped, everything shown in the
  end.
- **Listing**: the count, the numbers and the page of one answer agree; a lookup finds
  the holder of the name, on its first page, and nobody else; an import that reads page by page skips or
  repeats a row only for a cause.
- **Guard, log, filter**: a token is accepted only while its key is published or not long
  withdrawn; a good one is refused only if its key is new or Keycloak cannot be reached;
  the log tells the status that was sent; nobody waits for ever.
- **Demo wipe**: what was there before it is gone after it.

The hazards, each at its line, with the properties that cover it, are in
`PROJECT.json` under "hazards".

## Modules

### Values, patches, rows, errors

- `JsonValues` has JSON values with their type and the conversions the code applies:
  `Boolean(v)`, `String(v)`, `in`, `?.`. Text of arrays and numbers is not spelled
  out: `ToText` keeps strings and gives one text per other type. `AsColumn` is a value
  that Prisma's `update` gets unconverted: a string, null, or an object `{ set }` with one
  of them. `OrNull` adds to a set of operations the null that the ValidationPipe does not
  look into.
- `UserPatch` is `applyUserPatch`. A column is `Undefined` (left alone), `Null`,
  a string, or `IllTyped` (a value that Prisma will refuse because the code handed it
  on without `String()`); the whole patch may be `Thrown`.
- `UserRows` has the row, the body after validation, the `data` objects of `create`,
  `replace` and `patch`, and `toScimUser`. Prisma does not write `undefined`
  (`Written`). `id`, the dates and `raw` are left out.
- `GroupPatch` is `applyGroupPatch`, and the order in which `GroupsService.patch`
  carries its result out. The value of a member is any JSON: `PrismaAccepts` and `Matching`
  say what `upsert` and `deleteMany` make of it. An object in a removal can be a filter, and
  then removes whom it matches. The constant `Filters` has those objects with the ids they
  match, `PathIds` the paths in which the regular expression of
  `extractMemberIdFromFilterPath`, which ignores case and what surrounds the match, finds an id.
- `ScimErrors` is `ScimExceptionFilter`: exceptions by class or Prisma code.

`PatchLists` holds the properties of the two patch evaluators, with a second definition
of their meaning written operation by operation. A behaviour of it lengthens one list of
operations, of a user or of a group, one at a time. `MCPatches` gives it values to check.

The constant `Json` is the set of values a JSON body can hold; a run names a finite part of
it, the proofs assume of it only that it is closed under taking elements and properties
(`JsonAssumption`). `Operation` and `GroupOperation` are all operations with such values. PATCH bodies are lists
of them and of nulls.

### ScimUsers

One slot per request in progress, with its `phase`: the await it is at. An action
is what happens from one await to the next, which is what Node guarantees to run
without interruption: `Receive` (route), `Parse` (`applyUserPatch`), `CheckUserName`
(`findUnique` of `create`), `FindById`, `Hash` (bcrypt), `InsertUser`, `UpdateUser`,
`DeleteUser`, and `Respond`. Each of the three writes is one SQL statement over one
row, so it is one step, with all its outcomes: P2002 of the unique index, P2025 for a
row that is gone, Prisma's own check of its arguments. Two exceptions to "one step"
are actions of their own: `AbortRename`, two updates that rename into each other's
names wait for each other in the index and PostgreSQL ends one, and `AbortDelete`,
the cascade of a deletion in a deadlock with a group transaction. The constant
`GroupRequests` says whether there are any: without them a removal is never aborted. `ClearData` is the
part of the demo's wipe that concerns this table. `Crash` forgets every request and
keeps the table.

`AtomicUsers` is the abstract specification: a request is pending, then takes effect
in one step that also fixes its answer, then is answered. `ScimUsers` implements it
with `phase` mapped by `AbstractPhase` (every await is "pending"); the other
variables are the same. The answers it may give are part of the promise. It leaves
two freedoms, because of the deadlocks above: a removal may fail when there are requests
to `/Groups`, and an update may fail when another update is pending.

### ScimGroups

The same slots, but a transaction is executed statement by statement. `tx[r].todo`
is the list of statements left (built by `Statements`, in the order of the code);
`ins`, `del` and `row` are its uncommitted writes, `lock` and `refs` the row locks
it holds. READ COMMITTED is modelled by what it does here:

- a DELETE of several rows takes its snapshot (`ScanMembers`: committed rows and its
  own), then deletes row by row, waiting for whoever is deleting the same row, and
  skips rows that are gone by then (`Forget`);
- an UPDATE locks its row, and, when it renames, puts the new name into the unique
  index afterwards (`ClaimName`), waiting for a transaction that holds that name;
- an INSERT of a membership waits for its entry in the unique index, then locks the
  group and the user `KEY SHARE`, in that order, one step each;
- `WaitsFor` says who waits for whom; a cycle lets `Deadlock` end any of its members.

The nested `create` is one INSERT per member. `upsert` looks and then inserts; when
the row appeared in between it may fail or take the row, since which of the two Prisma
does depends on how it compiles the upsert. An include is three queries (`FindGroup`,
`FindMembers`, `FindUsers`), with commits of others in between. PUT and PATCH read the
group again after their commit. A request of which no statement can be made (`Malformed`: a
member of a POST or PUT that is null, an id that Prisma refuses) is refused after the reads
and before the transaction. DELETE of a user is here with its cascade; users are
not created here, and their own columns are in `ScimUsers`.

`clearData`, the demo's wipe, is a request too. It is three transactions, one `deleteMany`
per table in the order of `TableAfter`; between two of them (phase "clearing",
`ClearTable`) others may commit. A `deleteMany` of users or groups deletes the rows it
found in some order (`DropAll`), waiting for locks row by row, and then cascades.
`req[r].before` remembers what was there when the wipe was asked for.

### ScimListing

One list at a time over a table of users or groups, with its two statements `CountRows`
and `FindUsers`/`FindGroups`. Rows come and go before, between and after them. `createdAt`
is taken when the INSERT is sent (`SendInsert`) and the row appears when it commits
(`CommitInsert`), so the order of `createdAt` is not the order of appearance; rows of the
same `createdAt` come in any order, each time another (`InOrder` is all PostgreSQL
promises). The parameters are `Numbers` and, for lists with a filter, `LookupNumbers`: sets of
what `Number(text)` can make. A list of groups may fail, because of its include (see `ScimGroups`).

The variable `import` is a client that reads all pages: it asks from the next index on
(`AskPage`), counts what it has (`TakePage`), and repeats a page that failed. `got`, `kept`
and `late` record how often each row came, which rows were there all the time, and how
many appeared before rows that were already there; `quiet` records that a list was not
disturbed. They take no part in any guard of the server. Either this client or another
one (`Ask`) runs, since lists do not change anything for each other.

### ScimPipeline

What surrounds the handlers: `JwtAuthGuard`, `RequestLoggingInterceptor` and
`ScimExceptionFilter`. `published` is Keycloak's side, `cache` and `fetch` are the key set
that `createRemoteJWKSet` keeps for the guard, with their ages. `Arrive` asks for the keys,
`LookUp` looks for the key of the token, and fetches once more when it is missing and the
copy is older than `Cooldown`; requests share a fetch. `AnswerFetch` is the moment at which
Keycloak puts its answer together, `FetchSucceeds` its arrival, with any rotation in
between; `FetchFails` is a refusal, a broken connection or the time-out, and refuses all
who wait. `Return` and `Throw` are the handler's end with the line of the log (`LoggedStatus`)
and the filter's answer (`ToScimError`).

The behaviour of `jose` (version 5, `package.json`) is external: the guard relies on it
to cache keys "in-memory" and to refetch them "on key rotation"
(`jwt-auth.guard.ts:41-43`). Its default times (5 s, 30 s, 10 min) are replaced by small
ones in the same order: time-out < cooldown < maximum age. A token's claims are three cases, since the guard
makes nothing else of them.

### DemoFeed

The proxy's exchanges and the number of posts on the way, `EventsStore` (`events`,
`seq`, and the number of restarts `run` that tells events of two processes apart),
and the page: polls in progress, the click on "clear", the cards `log` and
`renderedSeq`. What an event says is left out, so that an event is `<<run, seq>>`. The
order in which posts arrive is left out with it; losing them is `PostError`. A poll
also waits for the list of users: its answer may be rendered any time later, or be
lost (`PollError`). The placeholder of the page is `log = <<>>`.

## Runs

| Run | Bounds | Shows |
|---|---|---|
| `patches` | all lists of up to 3 of 22 operations on users, and of 21 on groups with 2 users, nulls, filters and odd paths among them | users: `ThrowsOnlyOnNulls`, `LastOperationWins`, `SplittingIsHarmless`, `FieldsTypeOK`; groups: `MembersAsIfOneByOne`, `OthersStayMembers`, `ThrowsOnlyOnNullOrNoList`, `LastDisplayName` |
| `users` | 2 ids, 2 requests, 2 bodies, 3 patches, requests to `/Groups` beside them | the invariants and action properties of `ScimUsers`, `AtomicSpec` (refinement) and `EveryRequestEnds` |
| `groups_safety` | 2 groups, 2 users, 2 requests, 1 body, 1 patch | the invariants and action properties of `ScimGroups`, `WipesAreWhole` among them |
| `groups_live` | 1 group, 1 user, 2 requests, 2 bodies, 6 patches | `EveryRequestEnds` with lock waits and deadlocks |
| `listing` | 4 rows, pages of 2, 3 values of `createdAt`, 6 numbers, 3 of them for lookups | `PagesFit`, `LookupsAreExact`, `SkipsHaveACause`, `RepeatsHaveACause` |
| `pipeline` | 2 requests, 1 key that rotates and 1 foreign, time-out 1, cooldown 2, maximum age 3, 3 exceptions | `WithdrawnKeysExpire`, `GoodTokensRefusedOnlyIfNew`, `LogTellsTheAnswer`, `EveryRequestEnds` |
| `feed` | 2 exchanges (4 events), buffer of 2, 2 polls, 1 restart | the activity log: `LogInOrder`, `BufferedOrShown`, `EventsAreShown` |

Some of what they show is worth saying in words:

- A wipe is not atomic, and need not be: each row that was there before is deleted by one
  of its statements or by a cascade. What is created meanwhile may survive.
- An import misses at most one row per deletion and one per row that appears late; nothing
  else can hide a row with a `createdAt` of its own. Rows that share a `createdAt` can be
  skipped or repeated without anything happening, since the order of pages is not total.
- A lookup by name finds nobody when it asks for no rows or for a page after the first,
  though the name is taken: `skip` and `take` are applied to it as well.
- An object such as `{ "not": "" }` for the id of a member that is removed removes all
  members of the group, and no others: `MembershipChangesOnlyOnRequest` counts those a
  filter matches among those the request removes.
- A lookup by an attribute the service does not know is answered with everybody, up to the
  default count of 100 (`LookupsAreExact` states it as it is).
- After a withdrawal a key is good for at most the maximum age of the copy and the
  duration of a fetch; a new key is refused for less than the cooldown and a fetch.
- The log reports 500 for every Prisma error, whatever the filter sends: the one
  exception `LogTellsTheAnswer` has to make.

Five runs end in a violation on purpose. Each checks one sentence of the repository
that the code does not keep:

| Run | Sentence | What happens |
|---|---|---|
| `users_put` | "Replace a user (full PUT)" | attributes the body leaves out keep their old value |
| `users_illtyped` | Prisma errors are not "a generic 500" | a PATCH with a number for `givenName` is answered 500 |
| `groups_put` | "Replace a group (full PUT)" | two concurrent PUTs leave the union of their members |
| `groups_get` | Prisma errors are not "a generic 500" | a GET of a group beside the deletion of a member is answered 500 |
| `feed_restart` | "nothing new — leave the DOM untouched" | after a restart of the server an open page ignores new events |

### Why these bounds

Two requests are enough for every hazard listed: each is a race of one write against
one check, or of two transactions. Slots are reused, so that a behaviour has any number
of requests, two at a time. Two ids let a user be deleted and another created, a name
be given up and taken, and two renames cross. In `ScimGroups` a pair of transactions
already has every kind of wait (row, index entry, foreign key) and every deadlock of
two; a deadlock of three would need three groups. One body and one
PATCH suffice in `groups_safety`: the PATCH puts one member in the place of all others, whom it
removes by a filter, and takes a second name, so
groups collide in either name and a PUT finds members it does not want;
the bodies and PATCHes that throw, or that Prisma refuses, are in `groups_live`.
The runs of one finding leave out what else could bring their violation about:
`users_illtyped` has one request, and no requests to `/Groups` that could abort its statements. Creates are bounded by the ids left
(`IdLeftFor`), since an id is never given out twice. The buffer of two stands for 300: four events
overflow it twice. One restart is enough for events of two processes to meet in a log.

In `ScimListing` four rows make two pages of two; with three values of `createdAt` rows can
be tied, ordered, or late. Lookups ask with three of the numbers only, since a result of one
row tells no more of them apart: none at all, 0, and 2, a page after the first. In `ScimPipeline` one
rotating key is enough: every other key matters only by causing a fetch, which a token of
the foreign key does as well. Ages stop growing where no guard and no property tells
them apart any more. Two requests can wait for one fetch, or one begin a fetch while the
other is served from the copy.

Deadlock checking is off in `patches`, whose behaviours end when the list has its full
length, and in `listing`, where an import ends. In the other modules a request can always
arrive or a poll always start, so the check says little about blocked requests; that is
what `EveryRequestEnds` is for.

Symmetry (`Interchangeable`) is used in `groups_safety` and `listing` only, which check no
liveness.

### Fairness

- `ScimUsers`: weak fairness of each request's next step. Nothing waits there: a
  statement, a hash or the event loop always gets on.
- `ScimGroups`: weak fairness of parsing, reads and answers; strong fairness of
  `Execute`, because a statement that waits is disabled while its lock is held, and
  PostgreSQL grants locks in the order of a queue, so it is not overtaken for ever.
  `Deadlock` is part of `Execute`: the deadlock detector runs after a second of waiting.
- `ScimPipeline`: weak fairness of each request's own steps, and of the end of a fetch, by
  success or failure: `jose` gives a fetch up after its time-out. Keycloak need not answer.
- `DemoFeed`: weak fairness of the timer; strong fairness of a poll's two later steps:
  polls may fail any number of times, but not all of them.

Clients need not send anything, and crashes, restarts, losses and clears are never forced.

## Proofs

The theorems hold for all values of the constants that the assumptions allow: any sets of
ids, requests, bodies, keys, polls or rows, any times and sizes.

| Module | Theorem | States |
|---|---|---|
| `PatchProofs` | `FieldsTyped` | `Spec => []FieldsTypeOK` |
| | `FailsOnlyOnNulls` | `Spec => []ThrowsOnlyOnNulls` |
| | `TheLastOperationWins` | `Spec => []LastOperationWins` |
| | `SplitsAreHarmless` | `Spec => []SplittingIsHarmless` |
| | `FailsOnlyOnNullOrNoList` | `Spec => []ThrowsOnlyOnNullOrNoList` |
| | `TheOthersStay` | `Spec => []OthersStayMembers` |
| | `MembersOneByOne` | `Spec => []MembersAsIfOneByOne` |
| | `TheLastDisplayName` | `Spec => []LastDisplayName` |
| `ScimUsersProofs` | `TypeCorrect` | `Spec => []TypeOK` |
| | `UserNamesStayUnique` | `Spec => []UniqueUserNames` |
| | `DeletedUsersStayDeleted` | `Spec => NoResurrection` |
| | `CredentialsOnlyByPut` | `Spec => CredentialsChangeOnlyByPut` |
| | `ColumnsOnlyIfMentioned` | `Spec => ColumnsChangeOnlyIfMentioned` |
| | `LostRacesAnswered` | `Spec => []LostRacesAreClientErrors` |
| | `UsersAreAtomic` | `Spec => AtomicSpec` |
| `ScimGroupsProofs` | `TypeCorrect` | `Spec => []TypeOK` |
| | `NoMemberDangles` | `Spec => []NoDanglingMembers` |
| | `DisplayNamesStayUnique` | `Spec => []UniqueDisplayNames` |
| `ScimGroupsPromises` | `NoGroupReturns` | `Spec => DeletedGroupsStayDeleted` |
| | `PutsKeepTheirPromise` | `Spec => PutsAreDelivered` |
| | `WipesLeaveNothing` | `Spec => WipesAreWhole` |
| | `MembershipsOnlyOnRequest` | `Spec => MembershipChangesOnlyOnRequest` |
| `ScimPipelineProofs` | `TypeCorrect` | `Spec => []TypeOK` |
| | `LogTellsTheAnswerAlways` | `Spec => []LogTellsTheAnswer` |
| | `WithdrawnKeysExpireAlways` | `Spec => WithdrawnKeysExpire` |
| | `GoodTokensRefusedOnlyIfNewAlways` | `Spec => GoodTokensRefusedOnlyIfNew` |
| `DemoFeedProofs` | `TypeCorrect` | `Spec => []TypeOK` |
| | `TheLogIsInOrder` | `Spec => []LogInOrder` |
| | `NothingIsSkipped` | `Spec => []BufferedOrShown` |
| `ScimListingProofs` | `TypeCorrect` | `Spec => []TypeOK` |
| | `PagesAlwaysFit` | `Spec => []PagesFit` |
| | `LookupsAreAlwaysExact` | `Spec => LookupsAreExact` |
| | `SkipsAlwaysHaveACause` | `Spec => []SkipsHaveACause` |
| | `RepeatsAlwaysHaveACause` | `Spec => []RepeatsHaveACause` |

`PatchFacts` has the lemmas about the two evaluators that both `PatchProofs` and the proofs
of the tables cite: what each of their loops returns for every list.

### Assumptions

All are stated where the constants are declared and are evaluated by TLC.

- `UserDtosAssumption`, `GroupDtosAssumption`: bodies are those the ValidationPipe lets
  through.
- `PatchBodiesAssumption` (users, groups), `OperationsAssumption` and `RowsAssumption` of
  `PatchLists`: PATCH bodies are lists of operations with JSON values, or null, and what they patch
  are rows. What the evaluators return for them is not assumed but proved (`UserPatchType`
  and `GroupPatchType` of `PatchFacts`).
- `JsonAssumption`: a JSON value is one of the seven types, and its elements and properties
  are JSON values. `TextsAssumption`: seven literals are strings, which the provers do not
  know. `MemberIdsAssumption`: ids of members are texts that are not empty.
  `PathIdsAssumption`, `FiltersAssumption`: a path with a match names one of them and is not
  just "members", and a filter is an object and matches some of them, in whatever way.
- `GroupRequestsAssumption`: there are requests to `/Groups` or there are not.
- `IdsAssumption` of `ScimGroups`: there are finitely many groups and users; `MemberIds`, the ids that bodies
  name as members, has those of the users, and others that are nobody's. A group's id is not
  among them: naming one is naming an unknown user.
- `SentinelsAssumption`, `NoneAssumption`, `ForeignAssumption`, `NumbersAssumption`: the
  values that stand for "none", a foreign key, `NaN` or a fraction are none of the others, and
  clients ask for nothing but integers and those two.
- `ErrorsAssumption`: handlers throw exceptions the filter can meet, and the 401 is the
  guard's alone.
- `TimesAssumption` (and a cooldown no longer than the maximum age, as in `jose`), `CapAssumption`, `PageSizeAssumption`, `MaxRestartsAssumption`,
  `MaxClockAssumption`: times and sizes are natural numbers, positive where the code has
  them so.
- `ExchangesAssumption`, `RowsAssumption`: finitely many exchanges, and finitely many rows.
  Their numbers bound `seq` and the size of a page.

### PATCH evaluation

Both evaluators are `FoldLeft`s, which the library defines by a recursive function on sets of
indexes. Its induction theorems have an operator as a parameter and cannot be used, so the
induction is done by hand, once per loop: `Least` takes the least element of a set of
naturals (the library's well-founded minimum of `<`), and `UpTo` makes of it that a set that
has 0, and with `k` also `k + 1`, has all numbers up to `n`. `FoldExists` gives the function
behind a `FoldLeft`; `UserRuns`, `IdsRuns` and `GroupRuns` turn it into a run: a state for each
number of operations done, each state one turn of the loop from the one before, the last one
the result.

The theorems then are invariants of these runs. `Reflects` (a column holds what the last
operation that speaks of it said, up to here) gives `LastOperationWins`, and `SplittingIsHarmless`
from the last speaker of each half. For groups the invariant is that the ids to add and to
remove are those the operations so far ask for (`PatchAsks`), the ones a filter matches included. The lemmas speak of lists of any length and
of all JSON values; the bound `MaxOperations` of the specification plays no part.

### ScimUsers

`TypeOK` is inductive as it stands. It is more than types: it ties each slot's phase to
the kind of its request, and the table to the ids given out (`Live \subseteq issued`).
The proof splits it into the table and the slots: the steps that move on to an await
touch only the slots (`AwaitKeepsSlots`), and only three steps and the wipe touch the
table (`TableSteps`).

`UniqueUserNames` is inductive together with it, for a reason worth knowing: the check of
`create` plays no part. What the proof uses is the guard of the statement itself, that is,
the unique index (`InsertChanges`, `UpdateChanges`). `NoResurrection` needs
`Live \subseteq issued` and that an INSERT picks an id outside `issued`.

`ColumnsChangeOnlyIfMentioned` needs of a PATCH that columns no operation names stay
`Undefined` in its result, whatever the length of the list (`PatchNames`), and of a PUT that
only the keys of its body are written (`ColumnsNext` has the cases).

The refinement proof maps each action: the read that finds nothing, and each writing
statement, is the instant of its request; all other steps of a handler stutter. Its one
point of thought is the check of `create`: a POST refused by the early check and one
refused by the index (`P2002`) are the same abstract step, since `Failure` gives both the
same answer (`SameFailure`).

### ScimGroups

Neither `NoDanglingMembers` nor `UniqueDisplayNames` is inductive: a commit makes visible
what a transaction wrote several statements ago. The invariant (`IInv`) is the lock protocol
that carries the truth of a check from its statement to the commit:

- `InsertsRefer`: a membership that is written has its user in `refs` and its group locked,
  or the statement that will do it is next. A statement of the code is several steps here,
  so the invariant says where in them a transaction is.
- `HoldsFit`: who is referred to is there; a locked group is there; a transaction either
  writes or drops.
- `Apart`, for each two transactions: no row one refers to is dropped by the other, no group
  is updated by both, no membership is deleted by both, and no name claimed by both. This is
  what the waits are for.
- `DropsCovered`, `DropsCascade`: what belongs to a row that is dropped is deleted with it, or
  is still in a statement of the cascade.
- `NameFree`: a name put into the index (`Claimed`) is no committed group's.
- `PhaseFits`, `GroupFits`, `TodoFits`: which statements a request can be at.

`NoDanglingMembers` follows at a commit from `InsertsRefer`, `HoldsFit` and `Apart` for what
is inserted, and from `DropsCovered` for what is dropped. The proof goes statement by
statement, once for the transaction that moves and once for the others, of which a step only
notices that rows are gone.

`ScimGroupsPromises` adds what a transaction has promised. `Delivers`: each member of a PUT's
body is written or has an INSERT left, and the DELETE of the old ones comes first. `Wiping`:
what was there when a wipe was asked for is gone from the tables it has done, and dropped
or about to be dropped in the one it is at; it needs that ids are never given out twice.
`Grounded`: each membership a transaction has deleted or inserted, and each that its
statements left name, is one its request takes or gives. It starts with the statements
(`PatchAsks` ties the result of the evaluation to the operations) and every statement
keeps it; that a cascade or a forgotten row takes nothing else is part of it. At the commit it
is `MembershipChangesOnlyOnRequest`.

### ScimPipeline

The action properties are about ages, and the invariant (`KeysInv`) dates the copies: the
answer under way (`FetchTells`), or the copy (`CacheTells`), is right about a key unless the
key has changed since the fetch for it began; and a request looks for its key in a fresh copy,
the second time in one that was just fetched (`LooksIntoFresh`). `LogTellsTheAnswer` needs only that nothing is logged before
the answer is (`Unlogged`).

### DemoFeed

`LogInOrder` and `BufferedOrShown` need each other and three facts more. `AnswerFits`: an
answer that is on its way is in the order of `seq`, and, if it is of this run, has everything
of the buffer up to its last event, because between its making and its drawing the buffer
only loses old events or gets younger ones. `Rendered`: `renderedSeq` is at least the `seq` of each
card, and, while the log shows this run only, at most the server's. `Budget`: events numbered and
posts on their way are no more than what was captured, which bounds `seq`. `AnswerFits` makes
plain why an old answer drawn late does no harm: it has nothing above `renderedSeq` that a
younger answer did not have.

### ScimListing

`PagesFit` is about the answer only; the invariant says what it rests on before:
`CountHolds` (while nothing came or went, the count is still that of the table) and `Accepted`
(only a query that Prisma accepts is counted, so the numbers are natural here). The size of
a page is that of an interval of indexes, since an order of a set repeats nothing
(`PageOfSet`). `LookupsAreExact` follows from the same lemma: a result that fits into the first page is all of
it, and the page after a result of one row is empty.

The two properties of imports speak of the end of many requests; the invariant
(`ImportSound`) says what is true between any two steps. `Rank` is the place of a row: the number of
rows with an older `createdAt`. A row whose `createdAt` is its own has a place of its own, and
is on the page that covers it (`PageByRank`), however ties are ordered. `Reached` is the number of places an import has
passed, a page that is on its way included, so that a row is read when the page is found
and nothing happens when it is taken.

- `PassedUnread`, the rows before `Reached` that were not read, are no more than the deletions:
  a deletion draws the rows behind it one place up, and only the one at place `Reached` across
  the border; a page leaves out none of those it passes.
- `Beyond(n)`, the rows at or after the place where the import takes the table to end
  (`TableEnds`: its `totalResults`, or an empty page), are no more than the late rows: at the
  count there is none, and a late row pushes one across.
- `Rereadings` are the repeated readings, and one reading more for each row that was read and has been
  pushed behind `Reached`. They are no more than the late rows: a late row pushes one across,
  and reading it again only makes of a reading that is due one that is done.

An import that ends has missed what is in the first two sets. `RepeatsHaveACause` counts pairs
of a row and a reading, so that its bound is the size of a set like the others.

### Model-checked only

- Liveness (`EveryRequestEnds`, `EventsAreShown`): the prover does not treat fairness.
- That PostgreSQL, Prisma and `jose` behave as modelled is an assumption of the modules and
  not of the proofs: the actions that are external are marked so in `PROJECT.json`.

## Not modelled

- Routing and redaction in the proxy, and redaction in the request log: pure functions of
  one body without state. The user list of the dashboard: it reads, and is drawn anew with
  each change.
- The stack scripts: they start and kill processes of the operating system and wait for
  containers; what can go wrong with them is in "hazards".
- Discovery documents, Swagger and wiring have no state and nothing to check.
- Keycloak, Docker and ngrok are external; `dist/` is compiler output.
- Texts: `detail` of errors, HTML, the wording of log lines. Dates: `updatedAt`, and
  `createdAt` outside `ScimListing`.
- Validation of bodies by class-validator: the models start from bodies that passed.
- Database outages: a lost connection would be one more error that becomes a 500.

## Open ends

1. An abstract specification of the key set (a copy that is at most so old) that
   `ScimPipeline` implements.
2. `ScimProvisioning`: Okta's loop of lookup, create and retry over `AtomicUsers`, with
   lost answers: one account per user in the end.
