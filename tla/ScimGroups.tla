------------------------------- MODULE ScimGroups -------------------------------
(***************************************************************************)
(* The /Groups endpoints: GroupsController and GroupsService over tables   *)
(* scim_groups and scim_group_members, with the deletion of users, whose   *)
(* memberships go with them, and the wipe of all three tables by           *)
(* DemoController.clearData.                                               *)
(*                                                                         *)
(* PUT, PATCH, POST and DELETE are transactions of several statements at   *)
(* PostgreSQL's default isolation, READ COMMITTED: a statement sees what   *)
(* was committed when it started, and its own transaction's writes; it     *)
(* waits for the row locks and for the unique index entries of other       *)
(* transactions.  An action is one statement (the rows of a DELETE one by  *)
(* one), a lock it takes or one read.                                      *)
(***************************************************************************)
EXTENDS GroupPatch, ScimErrors, FiniteSets

CONSTANTS GroupIds,     \* ids the database may give out
          UserIds,      \* users that exist at first
          Requests,     \* requests in progress at one time
          GroupDtos,    \* bodies of POST and PUT
          PatchBodies,  \* Operations of PATCH
          Absent, NoRequest, NoAnswer, NoBody, NoRow

ASSUME IdsAssumption == /\ UserIds \subseteq MemberIds
                        /\ GroupIds \cap MemberIds = {}
                        /\ IsFiniteSet(GroupIds) /\ IsFiniteSet(UserIds)

ASSUME PatchBodiesAssumption == PatchBodies \subseteq Seq(OrNull(GroupOperation))

(* What applyGroupPatch makes of each of the bodies in use. *)
PatchResult == [b \in PatchBodies |-> ApplyGroupPatch(b)]

VARIABLES groups,     \* scim_groups: the row of each id, or Absent
          issued,     \* group ids ever committed
          liveUsers,  \* ids of scim_users
          members,    \* scim_group_members: pairs <<group, user>>
          req, phase, answer,
          tx          \* the transaction, or the reads, of each request

vars == <<groups, issued, liveUsers, members, req, phase, answer, tx>>
tables == <<groups, issued, liveUsers, members>>

GroupRow == [displayName : STRING, externalId : STRING \cup {Null}]

(* The value of each member; Null where the member itself is null.         *)
GroupDto == [displayName : STRING,
             externalId  : STRING \cup {Undefined, Null},
             members     : Seq(MemberIds \cup {Null})]

ASSUME GroupDtosAssumption == GroupDtos \subseteq GroupDto

(* A wipe carries the ids of the rows there are when it arrives: the code  *)
(* does not look at them, WipesAreWhole does.                              *)
Request ==
       [kind : {"create"},        dto : GroupDtos]
  \cup [kind : {"replace"},       id : GroupIds, dto : GroupDtos]
  \cup [kind : {"patch"},         id : GroupIds, body : PatchBodies]
  \cup [kind : {"get", "remove"}, id : GroupIds]
  \cup [kind : {"removeUser"},    id : UserIds]
  \cup [kind : {"clearData"},     before : SUBSET (GroupIds \cup UserIds)]

-------------------------------------------------------------------------------
(* The statements of a transaction. *)

Delete(pairs)  == [do |-> "delete", pairs |-> pairs]
Insert(u)      == [do |-> "insert", user |-> u, upsert |-> FALSE]
Upsert(u)      == [do |-> "upsert", user |-> u]
Update(n, x)   == [do |-> "update", displayName |-> n, externalId |-> x]
Statement(do)  == [do |-> do]
References(u)  == <<Statement("referGroup"), [do |-> "referUser", user |-> u]>>
Drop(id)       == [do |-> "drop", id |-> id, many |-> FALSE]

Inserts(dto) == [i \in DOMAIN dto.members |-> Insert(dto.members[i])]

(* deleteMany({ where: { groupId, userId } }), of the users that match *)
RemovalFromGroups(g, us) == Delete(GroupIds \X us)  \* variant: where: { userId }
Removal(g, us) == Delete({g} \X us)

(* The members of a deleted group, and the memberships of a deleted user:  *)
(* onDelete: Cascade.                                                      *)
NoCascade(pairs) == <<>>  \* variant: rows are left alone
Cascade(pairs) == <<Delete(pairs)>>

(* Variant: the old members are deleted last.                              *)
ReplaceStatementsDeletingLast(g, dto) ==
  <<Update(dto.displayName, dto.externalId)>> \o Inserts(dto) \o <<Delete({g} \X MemberIds)>>

ReplaceStatements(g, dto) ==
  <<Delete({g} \X MemberIds), Update(dto.displayName, dto.externalId)>> \o Inserts(dto)

PatchStatements(g, p) ==
     (IF p.displayName # Undefined \/ p.externalId # Undefined
      THEN <<Update(p.displayName, p.externalId)>> ELSE <<>>)
  \o [i \in DOMAIN p.removeMemberIds |-> Removal(g, Matching(p.removeMemberIds[i]))]
  \o [i \in DOMAIN p.addMemberIds |-> Upsert(Contents(p.addMemberIds[i]))]

Statements(q) ==
  CASE q.kind = "create"     -> <<Statement("insertGroup")>> \o Inserts(q.dto)
    [] q.kind = "replace"    -> ReplaceStatements(q.id, q.dto)
    [] q.kind = "patch"      -> PatchStatements(q.id, PatchResult[q.body])
    [] q.kind = "remove"     -> <<Drop(q.id)>> \o Cascade({q.id} \X MemberIds)
    [] q.kind = "removeUser" -> <<Drop(q.id)>> \o Cascade(GroupIds \X {q.id})

Memberships == GroupIds \X MemberIds

StatementOf ==
       [do : {"delete"}, pairs : SUBSET Memberships]
  \cup [do : {"insert"}, user : MemberIds, upsert : BOOLEAN]
  \cup [do : {"upsert", "referUser"}, user : MemberIds]
  \cup [do : {"update"}, displayName : STRING \cup {Undefined},
                        externalId  : STRING \cup {Undefined, Null}]
  \cup [do : {"insertGroup", "claimName", "referGroup"}]
  \cup [do : {"drop"}, id : GroupIds \cup UserIds, many : BOOLEAN]

NoTx == [group     |-> Absent,  \* the group it is about
         todo      |-> <<>>,    \* the statements left, the one being executed first
         scanning  |-> FALSE,   \* a DELETE has taken its snapshot,
         targets   |-> {},      \*   and these rows of it are left to delete
         ins       |-> {},      \* memberships written, not committed
         del       |-> {},      \* memberships deleted, not committed
         refs      |-> {},      \* users it holds a KEY SHARE lock of
         lock      |-> "none",  \* its lock of the group row
         drops     |-> {},      \* groups and users deleted, not committed
         row       |-> NoRow,   \* the group row it writes
         committed |-> FALSE,   \* it is over: the reads now are for the answer
         seen      |-> {},      \* what the reads for the answer have seen
         table     |-> "members"]  \* the table clearData wipes next

Running(r) == phase[r] = "inTransaction"
Current(r)   == Head(tx[r].todo)
Doing(r, do) == Running(r) /\ tx[r].todo # <<>> /\ Current(r).do = do
Others(r)  == {s \in Requests \ {r} : Running(s)}

-------------------------------------------------------------------------------
(* Who waits for whom. *)

Exists(g) == groups[g] # Absent
There(id) == id \in liveUsers \/ (id \in GroupIds /\ groups[id] # Absent)

LocksGroup(s, g, modes) ==
  \/ tx[s].group = g /\ tx[s].lock \in modes
  \/ "key" \in modes /\ g \in tx[s].drops

Renames(r, n) == n # Undefined /\ n # groups[tx[r].group].displayName

(* The index on displayName: s has put the name n in, or is taking it out. *)
ChangesName(s, n) ==
  \/ /\ tx[s].row # NoRow
     /\ tx[s].row.displayName = n
     /\ ~Doing(s, "claimName")
  \/ \E g \in GroupIds :
       Exists(g) /\ groups[g].displayName = n /\ LocksGroup(s, g, {"key"})

WaitsFor(r) ==
  LET g == tx[r].group
      c == Current(r)
  IN  IF ~Running(r) \/ tx[r].todo = <<>> THEN {} ELSE
      {s \in Others(r) :
         CASE c.do = "delete" -> tx[r].targets \cap tx[s].del # {}
           [] c.do = "update" ->
                \/ LocksGroup(s, g, {"noKey", "key"})
                \/ /\ Exists(g)
                   /\ Renames(r, c.displayName)
                   /\ LocksGroup(s, g, {"keyShare"})
           [] c.do = "claimName"   -> ChangesName(s, tx[r].row.displayName)
           [] c.do = "insertGroup" -> ChangesName(s, req[r].dto.displayName)
           [] c.do = "insert"      -> <<g, c.user>> \in tx[s].ins \cup tx[s].del
           [] c.do = "referGroup"  -> LocksGroup(s, g, {"key"})
           [] c.do = "referUser"   -> c.user \in tx[s].drops
           [] c.do = "drop"        ->
                c.id \in tx[s].refs \cup tx[s].drops
                  \/ LocksGroup(s, c.id, {"keyShare", "noKey", "key"})
           [] OTHER -> FALSE}

Blocked(r) == WaitsFor(r) # {}

(* PostgreSQL finds a cycle of waits and ends one of its transactions.     *)
InDeadlock(r) ==
  \E C \in SUBSET Requests : r \in C /\ \A a \in C : WaitsFor(a) \cap C # {}

-------------------------------------------------------------------------------
Failure(e) ==
  [status |-> ToScimError(e).status, scimType |-> ToScimError(e).scimType, body |-> NoBody]
Success(status, body) ==
  [status |-> status, scimType |-> "none", body |-> body]

(* Variant: without ?? undefined.                                          *)
ToScimGroupWithNull(id, row, users) ==
  [id          |-> id,
   displayName |-> row.displayName,
   externalId  |-> row.externalId,
   members     |-> users]

(* toScimGroup: a null externalId is left out of the answer. *)
ToScimGroup(id, row, users) ==
  [id          |-> id,
   displayName |-> row.displayName,
   externalId  |-> IF row.externalId = Null THEN Undefined ELSE row.externalId,
   members     |-> users]

Answer(r, a) ==
  /\ phase'  = [phase EXCEPT ![r] = "answered"]
  /\ answer' = [answer EXCEPT ![r] = a]
  /\ tx'     = [tx EXCEPT ![r] = NoTx]
  /\ UNCHANGED req

Await(r, p) == phase' = [phase EXCEPT ![r] = p] /\ UNCHANGED <<req, answer>>

(* The transaction goes on to its next statement; new is what becomes of   *)
(* its record.                                                             *)
Proceed(r, new) ==
  /\ tx' = [tx EXCEPT ![r] = [new EXCEPT !.todo = Tail(@)]]
  /\ UNCHANGED <<tables, req, phase, answer>>

(* An error rolls the transaction back and is answered.                    *)
RollBack(r, e) == Answer(r, Failure(e)) /\ UNCHANGED tables

-------------------------------------------------------------------------------
Init ==
  /\ groups    = [g \in GroupIds |-> Absent]
  /\ issued    = {}
  /\ liveUsers = UserIds
  /\ members   = {}
  /\ req       = [r \in Requests |-> NoRequest]
  /\ phase     = [r \in Requests |-> "idle"]
  /\ answer    = [r \in Requests |-> NoAnswer]
  /\ tx        = [r \in Requests |-> NoTx]

(* Bound: a create is let in only while an id is left for it. *)
IdLeftFor(q) ==
  q.kind = "create" =>
    Cardinality(issued) + Cardinality({r \in Requests : req[r] # NoRequest /\ req[r].kind = "create"})
      < Cardinality(GroupIds)

(* A request that the guard and the ValidationPipe let through.            *)
Receive(r, q) ==
  /\ phase[r] = "idle"
  /\ IdLeftFor(q)
  /\ q.kind = "clearData" => q.before = {id \in GroupIds \cup UserIds : There(id)}
  /\ req'   = [req EXCEPT ![r] = q]
  /\ phase' = [phase EXCEPT ![r] = CASE q.kind = "create" -> "checking"
                                     [] q.kind = "patch"  -> "parsing"
                                     [] q.kind = "clearData" -> "clearing"
                                     [] OTHER             -> "finding"]
  /\ UNCHANGED <<tables, answer, tx>>

(* Variant: the error is thrown where nobody catches it.                   *)
ParseUncaught(r) ==
  /\ phase[r] = "parsing"
  /\ PatchResult[req[r].body] # Thrown
  /\ Await(r, "finding")
  /\ UNCHANGED <<tables, tx>>

(* PATCH reads its operations before anything else.                        *)
Parse(r) ==
  /\ phase[r] = "parsing"
  /\ \/ PatchResult[req[r].body] = Thrown /\ Answer(r, Failure("TypeError"))
     \/ PatchResult[req[r].body] # Thrown /\ Await(r, "finding") /\ UNCHANGED tx
  /\ UNCHANGED tables

(* Requests the handler cannot make statements of: reading .value of a     *)
(* member that is null throws, and Prisma refuses a member id that is      *)
(* neither a string nor a filter it takes.                                 *)
Malformed(q) ==
  \/ q.kind \in {"create", "replace"} /\ Null \in Elements(q.dto.members)
  \/ q.kind = "patch" /\ ~PrismaAccepts(PatchResult[q.body])

RefuseMalformed(r) ==
  /\ Malformed(req[r])
  /\ Answer(r, Failure(IF req[r].kind = "patch" THEN "PrismaClientValidationError" ELSE "TypeError"))

(* create: findUnique({ where: { displayName } }).                         *)
CheckDisplayName(r) ==
  LET taken == \E g \in GroupIds : Exists(g) /\ groups[g].displayName = req[r].dto.displayName
  IN  /\ phase[r] = "checking"
      /\ \/ taken /\ Answer(r, Failure("ConflictException"))
         \/ ~taken /\ RefuseMalformed(r)
         \/ /\ ~taken
            /\ ~Malformed(req[r])
            /\ Await(r, "inTransaction")
            /\ tx' = [tx EXCEPT ![r].todo = Statements(req[r])]
      /\ UNCHANGED tables

-------------------------------------------------------------------------------
(* findById of a group: Prisma reads the group, then its members, then     *)
(* their users, in three queries.                                          *)

(* The group was found: it is the answer, or the transaction begins.       *)
Found(r, users) ==
  IF req[r].kind = "get" \/ tx[r].committed
  THEN Answer(r, Success(200, ToScimGroup(req[r].id, tx[r].row, users)))
  ELSE \/ RefuseMalformed(r)
       \/ /\ ~Malformed(req[r])
          /\ Statements(req[r]) # <<>>
          /\ Await(r, "inTransaction")
          /\ tx' = [tx EXCEPT ![r] = [NoTx EXCEPT !.group = req[r].id, !.todo = Statements(req[r])]]
       \/ /\ ~Malformed(req[r])
          /\ Statements(req[r]) = <<>>
          /\ Await(r, "finding")
          /\ tx' = [tx EXCEPT ![r] = [NoTx EXCEPT !.committed = TRUE]]

FindGroup(r) ==
  LET g == req[r].id
  IN  /\ phase[r] = "finding"
      /\ req[r].kind # "removeUser"
      /\ \/ ~Exists(g) /\ Answer(r, Failure("NotFoundException"))
         \/ /\ Exists(g)
            /\ Await(r, "findingMembers")
            /\ tx' = [tx EXCEPT ![r].row = groups[g]]
      /\ UNCHANGED tables

FindMembers(r) ==
  LET found == {u \in liveUsers : <<req[r].id, u>> \in members}
  IN  /\ phase[r] = "findingMembers"
      /\ \/ found = {} /\ Found(r, {})
         \/ /\ found # {}
            /\ Await(r, "findingUsers")
            /\ tx' = [tx EXCEPT ![r].seen = found]
      /\ UNCHANGED tables

(* A member whose user is gone by now is an "Inconsistent query result".   *)
FindUsers(r) ==
  /\ phase[r] = "findingUsers"
  /\ \/ tx[r].seen \subseteq liveUsers /\ Found(r, tx[r].seen)
     \/ ~(tx[r].seen \subseteq liveUsers) /\ Answer(r, Failure("PrismaClientUnknownRequestError"))
  /\ UNCHANGED tables

(* findById of a user.                                                     *)
FindUser(r) ==
  /\ phase[r] = "finding"
  /\ req[r].kind = "removeUser"
  /\ \/ req[r].id \notin liveUsers /\ Answer(r, Failure("NotFoundException"))
     \/ /\ req[r].id \in liveUsers
        /\ Await(r, "inTransaction")
        /\ tx' = [tx EXCEPT ![r].todo = Statements(req[r])]
  /\ UNCHANGED tables

-------------------------------------------------------------------------------
(* Statements. *)

(* The memberships a statement of r sees. *)
Visible(r) == (members \ tx[r].del) \cup tx[r].ins

(* DELETE of memberships: the rows its snapshot shows...                   *)
ScanMembers(r) ==
  /\ Doing(r, "delete")
  /\ ~tx[r].scanning
  /\ tx' = [tx EXCEPT ![r].scanning = TRUE,
                      ![r].targets  = Visible(r) \cap Current(r).pairs]
  /\ UNCHANGED <<tables, req, phase, answer>>

(* ...are deleted one after the other, each when no other transaction is   *)
(* deleting it.                                                            *)
DeleteMember(r) ==
  /\ Doing(r, "delete")
  /\ tx[r].scanning
  /\ \E p \in tx[r].targets :
       /\ \A s \in Others(r) : p \notin tx[s].del
       /\ tx' = [tx EXCEPT ![r].targets = @ \ {p},
                           ![r].ins     = @ \ {p},
                           ![r].del     = @ \cup ({p} \cap members)]
  /\ UNCHANGED <<tables, req, phase, answer>>

EndDelete(r) ==
  /\ Doing(r, "delete")
  /\ tx[r].scanning
  /\ tx[r].targets = {}
  /\ Proceed(r, [tx[r] EXCEPT !.scanning = FALSE])

Written(new, old) == IF new = Undefined THEN old ELSE new

(* UPDATE of the group row; a new name must then be put into the index.    *)
UpdateGroup(r) ==
  LET g   == tx[r].group
      c   == Current(r)
      new == [displayName |-> Written(c.displayName, groups[g].displayName),
              externalId  |-> Written(c.externalId, groups[g].externalId)]
  IN  /\ Doing(r, "update")
      /\ ~Blocked(r)
      /\ \/ ~Exists(g) /\ RollBack(r, "P2025")
         \/ /\ Exists(g)
            /\ Renames(r, c.displayName)
            /\ tx' = [tx EXCEPT ![r].row = new, ![r].lock = "key",
                                ![r].todo = <<Statement("claimName")>> \o Tail(@)]
            /\ UNCHANGED <<tables, req, phase, answer>>
         \/ /\ Exists(g)
            /\ ~Renames(r, c.displayName)
            /\ Proceed(r, [tx[r] EXCEPT !.row = new, !.lock = "noKey"])

(* The unique index on displayName: another group than except holds n.     *)
NameTakenUnindexed(n, except) == FALSE  \* variant: displayName without @unique
NameTaken(n, except) == \E g \in GroupIds \ {except} : Exists(g) /\ groups[g].displayName = n

ClaimName(r) ==
  /\ Doing(r, "claimName")
  /\ ~Blocked(r)
  /\ \/ NameTaken(tx[r].row.displayName, tx[r].group) /\ RollBack(r, "P2002")
     \/ ~NameTaken(tx[r].row.displayName, tx[r].group) /\ Proceed(r, tx[r])

(* The ids uuid() may give to an INSERT. *)
FreshIdsOfDeleted == {g \in GroupIds : ~Exists(g)}  \* variant: ids of deleted groups return
FreshIds == GroupIds \ (issued \cup {tx[s].group : s \in Requests})

InsertGroup(r) ==
  LET dto == req[r].dto
      new == [displayName |-> dto.displayName, externalId |-> Written(dto.externalId, Null)]
  IN  /\ Doing(r, "insertGroup")
      /\ ~Blocked(r)
      /\ \/ NameTaken(dto.displayName, Absent) /\ RollBack(r, "P2002")
         \/ /\ ~NameTaken(dto.displayName, Absent)
            /\ \E g \in FreshIds : Proceed(r, [tx[r] EXCEPT !.group = g, !.row = new])

(* upsert looks for the membership, and inserts it if there is none.       *)
UpsertMember(r) ==
  LET p == <<tx[r].group, Current(r).user>>
  IN  /\ Doing(r, "upsert")
      /\ \/ /\ p \in Visible(r)
            /\ Proceed(r, tx[r])
         \/ /\ p \notin Visible(r)
            /\ tx' = [tx EXCEPT ![r].todo =
                        <<[Insert(p[2]) EXCEPT !.upsert = TRUE]>> \o Tail(@)]
            /\ UNCHANGED <<tables, req, phase, answer>>

(* INSERT of a membership: its entry in the unique index.  An upsert that  *)
(* finds the entry put in meanwhile fails or takes the row for its own.    *)
InsertMember(r) ==
  LET c == Current(r)
      p == <<tx[r].group, c.user>>
  IN  /\ Doing(r, "insert")
      /\ ~Blocked(r)
      /\ \/ /\ p \in Visible(r)
            /\ RollBack(r, "P2002")
         \/ /\ p \in Visible(r)
            /\ c.upsert
            /\ Proceed(r, tx[r])
         \/ /\ p \notin Visible(r)
            /\ tx' = [tx EXCEPT ![r].ins = @ \cup {p},
                                ![r].todo = References(c.user) \o Tail(@)]
            /\ UNCHANGED <<tables, req, phase, answer>>

(* Its foreign keys: the group and the user must be there, and are kept    *)
(* from going away by a KEY SHARE lock.                                    *)
ReferGroup(r) ==
  LET kept == Exists(tx[r].group) \/ req[r].kind = "create"
  IN  /\ Doing(r, "referGroup")
      /\ ~Blocked(r)
      /\ \/ ~kept /\ RollBack(r, "P2003")
         \/ kept /\ Proceed(r, [tx[r] EXCEPT !.lock = IF @ = "none" THEN "keyShare" ELSE @])

ReferUser(r) ==
  LET u == Current(r).user
  IN  /\ Doing(r, "referUser")
      /\ ~Blocked(r)
      /\ \/ u \notin liveUsers /\ RollBack(r, "P2003")
         \/ u \in liveUsers /\ Proceed(r, [tx[r] EXCEPT !.refs = @ \cup {u}])

(* DELETE of a group or a user.  A deleteMany passes over a row that is    *)
(* gone by the time it gets there.                                         *)
DropRow(r) ==
  LET c == Current(r)
  IN  /\ Doing(r, "drop")
      /\ ~Blocked(r)
      /\ \/ ~There(c.id) /\ ~c.many /\ RollBack(r, "P2025")
         \/ ~There(c.id) /\ c.many /\ Proceed(r, tx[r])
         \/ There(c.id) /\ Proceed(r, [tx[r] EXCEPT !.drops = @ \cup {c.id}])

(* DELETE /demo/api/data: a deleteMany of each table, each a transaction   *)
(* of its own, of the rows that are there when it starts.                  *)

TableAfter == [members |-> "users", users |-> "groups"]
LastTableIsUsers == "users"  \* variant: the groups are forgotten
LastTable == "groups"

DropAll(o) == [i \in DOMAIN o |-> [do |-> "drop", id |-> o[i], many |-> TRUE]]

ClearTable(r) ==
  LET present == {g \in GroupIds : Exists(g)}
  IN  /\ phase[r] = "clearing"
      /\ Await(r, "inTransaction")
      /\ \E todo \in CASE tx[r].table = "members" -> {<<Delete(GroupIds \X MemberIds)>>}
                       [] tx[r].table = "users" ->
                            {DropAll(o) \o Cascade(GroupIds \X liveUsers) : o \in SetToSeqs(liveUsers)}
                       [] tx[r].table = "groups" ->
                            {DropAll(o) \o Cascade(present \X MemberIds) : o \in SetToSeqs(present)} :
           tx' = [tx EXCEPT ![r].todo = todo]
      /\ UNCHANGED tables

(* A row that r deleted is no longer there for the DELETEs waiting for it. *)
Forget(r, new) ==
  tx' = [s \in Requests |-> IF s = r THEN new ELSE [tx[s] EXCEPT !.targets = @ \ tx[r].del]]

(* clearData goes on to its next deleteMany, or is done. *)
Cleared(r) ==
  \/ /\ tx[r].table # LastTable
     /\ Forget(r, [NoTx EXCEPT !.table = TableAfter[tx[r].table]])
     /\ phase' = [phase EXCEPT ![r] = "clearing"]
     /\ UNCHANGED answer
  \/ /\ tx[r].table = LastTable
     /\ Forget(r, NoTx)
     /\ phase'  = [phase EXCEPT ![r] = "answered"]
     /\ answer' = [answer EXCEPT ![r] = Success(204, NoBody)]

Commit(r) ==
  LET t == tx[r]
      q == req[r]
  IN  /\ Running(r)
      /\ t.todo = <<>>
      /\ members' = (members \ t.del) \cup t.ins
      /\ liveUsers' = liveUsers \ t.drops
      /\ groups' = [g \in GroupIds |-> IF g \in t.drops THEN Absent
                                       ELSE IF g = t.group /\ t.row # NoRow THEN t.row
                                       ELSE groups[g]]
      /\ issued' = IF q.kind = "create" THEN issued \cup {t.group} ELSE issued
      /\ UNCHANGED req
      /\ \/ /\ q.kind = "create"
            /\ Forget(r, NoTx)
            /\ phase'  = [phase EXCEPT ![r] = "answered"]
            /\ answer' = [answer EXCEPT ![r] =
                            Success(201, ToScimGroup(t.group, t.row, {p[2] : p \in t.ins}))]
         \/ /\ q.kind \in {"remove", "removeUser"}
            /\ Forget(r, NoTx)
            /\ phase'  = [phase EXCEPT ![r] = "answered"]
            /\ answer' = [answer EXCEPT ![r] = Success(204, NoBody)]
         \/ /\ q.kind \in {"replace", "patch"}
            /\ Forget(r, [NoTx EXCEPT !.committed = TRUE])
            /\ phase' = [phase EXCEPT ![r] = "finding"]
            /\ UNCHANGED answer
         \/ /\ q.kind = "clearData"
            /\ Cleared(r)

Deadlock(r) == InDeadlock(r) /\ RollBack(r, "P2034")

-------------------------------------------------------------------------------
Respond(r) ==
  /\ phase[r] = "answered"
  /\ req'    = [req EXCEPT ![r] = NoRequest]
  /\ phase'  = [phase EXCEPT ![r] = "idle"]
  /\ answer' = [answer EXCEPT ![r] = NoAnswer]
  /\ UNCHANGED <<tables, tx>>

(* The process dies and is started again: PostgreSQL rolls back what was   *)
(* not committed.                                                          *)
Crash ==
  /\ \E r \in Requests : phase[r] # "idle"
  /\ req'    = [r \in Requests |-> NoRequest]
  /\ phase'  = [r \in Requests |-> "idle"]
  /\ answer' = [r \in Requests |-> NoAnswer]
  /\ tx'     = [r \in Requests |-> NoTx]
  /\ UNCHANGED tables

Read(r) == \/ CheckDisplayName(r) \/ FindGroup(r) \/ FindMembers(r) \/ FindUsers(r) \/ FindUser(r)

Execute(r) == \/ ScanMembers(r) \/ DeleteMember(r) \/ EndDelete(r)
              \/ UpdateGroup(r) \/ ClaimName(r) \/ InsertGroup(r)
              \/ UpsertMember(r) \/ InsertMember(r) \/ ReferGroup(r) \/ ReferUser(r)
              \/ DropRow(r) \/ ClearTable(r) \/ Commit(r) \/ Deadlock(r)

Handle(r) == Parse(r) \/ Read(r) \/ Execute(r)

Next == \/ \E r \in Requests : \/ \E q \in Request : Receive(r, q)
                               \/ Handle(r)
                               \/ Respond(r)
        \/ Crash

Spec == Init /\ [][Next]_vars

(* Reads, the event loop and the deadlock detector make progress.  A       *)
(* statement that waits for a lock is in a queue, and is not overtaken for *)
(* ever.  Clients and crashes need not come.                               *)
Fairness == \A r \in Requests : /\ WF_vars(Parse(r) \/ Read(r))
                                /\ SF_vars(Execute(r))
                                /\ WF_vars(Respond(r))

FairSpec == Spec /\ Fairness

-------------------------------------------------------------------------------
(* Types. *)

Answers == [status : {200, 201, 204, 400, 404, 409, 500},
            scimType : {"none", "uniqueness", "invalidValue"},
            body : [id : GroupIds, displayName : STRING, externalId : STRING \cup {Undefined},
                    members : SUBSET UserIds] \cup {NoBody}]

Phases == {"idle", "parsing", "checking", "finding", "findingMembers", "findingUsers",
           "clearing", "inTransaction", "answered"}

ASSUME SentinelsAssumption ==
  /\ Absent \notin GroupRow \cup GroupIds
  /\ NoRow \notin GroupRow
  /\ NoRequest \notin Request
  /\ NoAnswer \notin Answers
  /\ Undefined \notin STRING \cup {Null}
  /\ Null \notin STRING

(* A slot holds a request exactly while it is busy, and an answer exactly  *)
(* while it is answered.                                                   *)
SlotOK(r) ==
  /\ phase[r] = "idle" <=> req[r] = NoRequest
  /\ phase[r] = "answered" <=> answer[r] # NoAnswer

Tx == [group     : GroupIds \cup {Absent},
       todo      : Seq(StatementOf),
       scanning  : BOOLEAN,
       targets   : SUBSET Memberships,
       ins       : SUBSET Memberships,
       del       : SUBSET Memberships,
       refs      : SUBSET UserIds,
       lock      : {"none", "keyShare", "noKey", "key"},
       drops     : SUBSET (GroupIds \cup UserIds),
       row       : GroupRow \cup {NoRow},
       committed : BOOLEAN,
       seen      : SUBSET UserIds,
       table     : {"members", "users", "groups"}]

(* What a transaction has written is of its own group, and it deletes only *)
(* what is there; outside it there is nothing to roll back.                *)
TxOK(r) ==
  /\ tx[r].ins \subseteq {tx[r].group} \X MemberIds
  /\ tx[r].del \subseteq members
  /\ tx[r].targets \subseteq members \cup tx[r].ins
  /\ ~Running(r) => tx[r].ins = {} /\ tx[r].del = {} /\ tx[r].drops = {} /\ tx[r].lock = "none"

(* The tables hold rows of issued ids; every slot and transaction is in    *)
(* order.                                                                  *)
TypeOK ==
  /\ groups \in [GroupIds -> GroupRow \cup {Absent}]
  /\ issued \subseteq GroupIds
  /\ \A g \in GroupIds : Exists(g) => g \in issued
  /\ liveUsers \subseteq UserIds
  /\ members \subseteq Memberships
  /\ req    \in [Requests -> Request \cup {NoRequest}]
  /\ phase  \in [Requests -> Phases]
  /\ answer \in [Requests -> Answers \cup {NoAnswer}]
  /\ tx     \in [Requests -> Tx]
  /\ \A r \in Requests : SlotOK(r) /\ TxOK(r)

(* Safety. *)

(* A membership is of a group and a user that are there, although it is    *)
(* written long after both were looked up and either can be deleted in     *)
(* between (groups.service.ts:57-71, users.service.ts:82-83; the foreign   *)
(* keys and cascades of the schema decide).                                *)
NoDanglingMembers ==
  \A p \in members : Exists(p[1]) /\ p[2] \in liveUsers

(* No two groups share a displayName, although create checks for it in a   *)
(* step of its own and PUT and PATCH do not check (groups.service.ts:37,   *)
(* 61, 83).                                                                *)
UniqueDisplayNames ==
  \A g, h \in GroupIds :
    Exists(g) /\ Exists(h) /\ groups[g].displayName = groups[h].displayName => g = h

(* Action properties. *)

(* A deleted group never comes back: a PUT or PATCH that found it before   *)
(* the DELETE updates nothing, and its id is given to no other group.      *)
DeletedGroupsStayDeleted ==
  [][\A g \in issued : ~Exists(g) => ~Exists(g)']_vars

(* The transaction this step commits. *)
Commits(r) == Running(r) /\ ~Running(r)'

(* What a request may take away, and what it may add, read off its body.   *)
MayRemove(q, p) ==
  \/ q.kind = "clearData"
  \/ q.kind = "removeUser" /\ q.id = p[2]
  \/ q.kind = "remove" /\ q.id = p[1]
  \/ q.kind = "replace" /\ q.id = p[1] /\ p[2] \notin Elements(q.dto.members)
  \/ /\ q.kind = "patch"
     /\ q.id = p[1]
     /\ \E i \in DOMAIN q.body : p[2] \in Removes(q.body[i])

MayAdd(q, p) ==
  \/ q.kind = "create" /\ ~Exists(p[1]) /\ p[2] \in Elements(q.dto.members)
  \/ q.kind = "replace" /\ q.id = p[1] /\ p[2] \in Elements(q.dto.members)
  \/ /\ q.kind = "patch"
     /\ q.id = p[1]
     /\ \E i \in DOMAIN q.body : p[2] \in Adds(q.body[i])

(* A user joins or leaves a group only when a request that says so takes   *)
(* effect, by naming the user or, of those who leave, by a filter the user *)
(* matches: what one request rolls back, or read before another committed, *)
(* changes no membership (groups.service.ts:59-71, 81-111).                *)
MembershipChangesOnlyOnRequest ==
  [][\A p \in GroupIds \X MemberIds :
       /\ p \in members /\ p \notin members'
            => \E r \in Requests : Commits(r) /\ MayRemove(req[r], p)
       /\ p \notin members /\ p \in members'
            => \E r \in Requests : Commits(r) /\ MayAdd(req[r], p)]_vars

(* When a PUT takes effect its displayName is the group's and its members  *)
(* are members, whatever ran beside it (groups.service.ts:59-71).          *)
PutsAreDelivered ==
  [][\A r \in Requests :
       Commits(r) /\ req[r].kind = "replace" /\ phase'[r] = "finding" /\ tx'[r].committed =>
         /\ groups'[req[r].id].displayName = req[r].dto.displayName
         /\ {req[r].id} \X Elements(req[r].dto.members) \subseteq members']_vars

(* When a wipe is answered 204, every row that was there when it was asked *)
(* for is gone, though its three statements share no transaction and       *)
(* others change the tables between them (demo.controller.ts:93-101).      *)
WipesAreWhole ==
  [][\A r \in Requests :
       /\ phase[r] # "idle"
       /\ req[r].kind = "clearData"
       /\ answer'[r] = Success(204, NoBody)
       => /\ \A id \in req[r].before : ~There(id)'
          /\ \A p \in members' : p[1] \notin req[r].before /\ p[2] \notin req[r].before]_vars

(* Liveness. *)

(* Every request that reaches its handler leaves it, whatever transactions *)
(* it meets: answered, or lost in a crash.                                 *)
EveryRequestEnds == \A r \in Requests : phase[r] # "idle" ~> phase[r] = "idle"
===============================================================================
