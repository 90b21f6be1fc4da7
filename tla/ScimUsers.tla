------------------------------- MODULE ScimUsers -------------------------------
(***************************************************************************)
(* The /Users endpoints: UsersController and UsersService over the table   *)
(* scim_users.                                                             *)
(*                                                                         *)
(* Node runs one handler at a time, and a handler is interrupted only at   *)
(* an await.  An action is therefore what happens from one await to the    *)
(* next: the database executes the statement the handler waits for, and    *)
(* the handler goes on with its result up to its next await or its answer. *)
(* A statement here writes one row of one table: PostgreSQL executes it as *)
(* one step, unless it is caught in a cycle of renames (NameCycle).        *)
(***************************************************************************)
EXTENDS UserRows, ScimErrors, FiniteSets

CONSTANTS UserIds,      \* ids the database may give out
          Requests,     \* requests in progress at one time
          UserDtos,     \* bodies of POST and PUT
          PatchBodies,  \* Operations of PATCH
          GroupRequests,  \* whether requests to /Groups run beside these
          Absent, NoRequest, NoAnswer, NoBody

ASSUME GroupRequestsAssumption == GroupRequests \in BOOLEAN
ASSUME UserDtosAssumption    == UserDtos \subseteq UserDto
ASSUME PatchBodiesAssumption == PatchBodies \subseteq Seq(OrNull(Operation))

(* What applyUserPatch makes of each of the bodies in use. *)
PatchResult == [b \in PatchBodies |-> ApplyUserPatch(b)]

VARIABLES users,   \* scim_users: the row of each id, or Absent
          issued,  \* ids ever given out: what INSERT never picks again (uuid)
          req,     \* what each request asks for
          phase,   \* the await each request is at
          answer   \* the answer of a request that is done

vars == <<users, issued, req, phase, answer>>

Request ==
       [kind : {"create"},         dto : UserDtos]
  \cup [kind : {"replace"},        id : UserIds, dto : UserDtos]
  \cup [kind : {"patch"},          id : UserIds, body : PatchBodies]
  \cup [kind : {"get", "remove"},  id : UserIds]

Answers == [status : {200, 201, 204, 404, 409, 500},
            scimType : {"none", "uniqueness"},
            body : ScimUser(UserIds) \cup {NoBody}]

Phases == {"idle", "parsing", "checking", "finding", "hashing", "writing", "answered"}

(* The constants that stand for "none" are none of the things they are     *)
(* compared with.                                                          *)
ASSUME SentinelsAssumption ==
  /\ Absent \notin Row
  /\ NoRequest \notin Request
  /\ NoAnswer \notin Answers
  /\ Thrown \notin UserPatchFields
  /\ Undefined \notin STRING \cup BOOLEAN
  /\ IllTyped \notin STRING \cup {Undefined, Null}

-------------------------------------------------------------------------------
(* The table. *)

Live == {u \in UserIds : users[u] # Absent}

(* The ids uuid() may give to an INSERT. *)
FreshIdsOfDeleted == UserIds \ Live  \* variant: ids of deleted users return
FreshIds == UserIds \ issued

(* The unique index on userName: u may hold the name n. *)
NameFreeUnindexed(u, n) == TRUE  \* variant: userName without @unique
NameFree(u, n) == \A v \in Live \ {u} : users[v].userName # n

(* Answers. *)

Failure(e) ==
  [status |-> ToScimError(e).status, scimType |-> ToScimError(e).scimType, body |-> NoBody]
Success(status, body) ==
  [status |-> status, scimType |-> "none", body |-> body]

Answer(r, a) ==
  /\ phase'  = [phase EXCEPT ![r] = "answered"]
  /\ answer' = [answer EXCEPT ![r] = a]

Await(r, p) ==
  /\ phase' = [phase EXCEPT ![r] = p]
  /\ UNCHANGED answer

-------------------------------------------------------------------------------
Init ==
  /\ users  = [u \in UserIds |-> Absent]
  /\ issued = {}
  /\ req    = [r \in Requests |-> NoRequest]
  /\ phase  = [r \in Requests |-> "idle"]
  /\ answer = [r \in Requests |-> NoAnswer]

(* Bound: a create is let in only while an id is left for it. *)
IdLeftFor(q) ==
  q.kind = "create" =>
    Cardinality(issued) + Cardinality({r \in Requests : req[r] # NoRequest /\ req[r].kind = "create"})
      < Cardinality(UserIds)

(* A request that the guard and the ValidationPipe let through.            *)
Receive(r, q) ==
  /\ phase[r] = "idle"
  /\ IdLeftFor(q)
  /\ req' = [req EXCEPT ![r] = q]
  /\ \/ q.kind = "create" /\ Await(r, "checking")
     \/ q.kind = "patch"  /\ Await(r, "parsing")
     \/ q.kind \in {"get", "replace", "remove"} /\ Await(r, "finding")
  /\ UNCHANGED <<users, issued>>

(* Variant: the error is thrown where nobody catches it.                   *)
ParseUncaught(r) ==
  /\ phase[r] = "parsing"
  /\ PatchResult[req[r].body] # Thrown
  /\ Await(r, "finding")
  /\ UNCHANGED <<users, issued, req>>

(* PATCH reads its operations before anything else.                        *)
Parse(r) ==
  /\ phase[r] = "parsing"
  /\ \/ PatchResult[req[r].body] = Thrown /\ Answer(r, Failure("TypeError"))
     \/ PatchResult[req[r].body] # Thrown /\ Await(r, "finding")
  /\ UNCHANGED <<users, issued, req>>

HashOrWrite(r) == Await(r, IF HasPassword(req[r].dto) THEN "hashing" ELSE "writing")

(* create: findUnique({ where: { userName } }). *)
CheckUserName(r) ==
  /\ phase[r] = "checking"
  /\ \/ /\ \E v \in Live : users[v].userName = req[r].dto.userName
        /\ Answer(r, Failure("ConflictException"))
     \/ /\ \A v \in Live : users[v].userName # req[r].dto.userName
        /\ HashOrWrite(r)
  /\ UNCHANGED <<users, issued, req>>

(* findById, the first step of every operation on one user. *)
FindById(r) ==
  LET u == req[r].id
  IN  /\ phase[r] = "finding"
      /\ \/ users[u] = Absent /\ Answer(r, Failure("NotFoundException"))
         \/ /\ users[u] # Absent
            /\ req[r].kind = "get"
            /\ Answer(r, Success(200, ToScimUser(u, users[u])))
         \/ users[u] # Absent /\ req[r].kind = "replace" /\ HashOrWrite(r)
         \/ users[u] # Absent /\ req[r].kind \in {"patch", "remove"} /\ Await(r, "writing")
      /\ UNCHANGED <<users, issued, req>>

(* await bcrypt.hash(dto.password, 10). *)
Hash(r) ==
  /\ phase[r] = "hashing"
  /\ Await(r, "writing")
  /\ UNCHANGED <<users, issued, req>>

InsertUser(r) ==
  LET dto == req[r].dto
  IN  /\ phase[r] = "writing"
      /\ req[r].kind = "create"
      /\ \/ /\ \E v \in Live : users[v].userName = dto.userName
            /\ Answer(r, Failure("P2002"))
            /\ UNCHANGED <<users, issued>>
         \/ /\ \A v \in Live : users[v].userName # dto.userName
            /\ \E u \in FreshIds :
                 /\ users'  = [users EXCEPT ![u] = CreateRow(dto)]
                 /\ issued' = issued \cup {u}
                 /\ Answer(r, Success(201, ToScimUser(u, CreateRow(dto))))
      /\ UNCHANGED req

(* The row an UPDATE of row by request q leaves. *)
UpdatedRow(q, row) ==
  IF q.kind = "replace"
  THEN ReplaceRow(row, q.dto)
  ELSE PatchRow(row, PatchResult[q.body])

Malformed(q) ==
  /\ q.kind = "patch"
  /\ PatchResult[q.body] = Thrown \/ ~FieldsValid(PatchResult[q.body])

UpdateUser(r) ==
  LET u   == req[r].id
      new == UpdatedRow(req[r], users[u])
  IN  /\ phase[r] = "writing"
      /\ req[r].kind \in {"replace", "patch"}
      /\ \/ /\ Malformed(req[r])
            /\ Answer(r, Failure("PrismaClientValidationError"))
            /\ UNCHANGED users
         \/ /\ ~Malformed(req[r])
            /\ users[u] = Absent
            /\ Answer(r, Failure("P2025"))
            /\ UNCHANGED users
         \/ /\ ~Malformed(req[r])
            /\ users[u] # Absent
            /\ ~NameFree(u, new.userName)
            /\ Answer(r, Failure("P2002"))
            /\ UNCHANGED users
         \/ /\ ~Malformed(req[r])
            /\ users[u] # Absent
            /\ NameFree(u, new.userName)
            /\ users' = [users EXCEPT ![u] = new]
            /\ Answer(r, Success(200, ToScimUser(u, new)))
      /\ UNCHANGED <<issued, req>>

(* An UPDATE that changes userName keeps its old name taken while it waits *)
(* for the owner of the new one: two renames into each other's names wait  *)
(* for each other, and PostgreSQL ends one of them (deadlock detected).    *)
Renames(r) ==
  /\ phase[r] = "writing"
  /\ req[r].kind \in {"replace", "patch"}
  /\ ~Malformed(req[r])
  /\ users[req[r].id] # Absent
  /\ UpdatedRow(req[r], users[req[r].id]).userName # users[req[r].id].userName

WaitsForNameOf(r, s) ==
  users[req[s].id].userName = UpdatedRow(req[r], users[req[r].id]).userName

NameCycle(r) ==
  \E C \in SUBSET {s \in Requests : Renames(s)} :
    /\ r \in C
    /\ \A a \in C : \E b \in C : WaitsForNameOf(a, b)

AbortRename(r) ==
  /\ NameCycle(r)
  /\ Answer(r, Failure("P2034"))
  /\ UNCHANGED <<users, issued, req>>

(* Variant: deleteMany instead of delete, which misses no row.             *)
DeleteUserIfThere(r) ==
  /\ phase[r] = "writing"
  /\ req[r].kind = "remove"
  /\ users' = [users EXCEPT ![req[r].id] = Absent]
  /\ Answer(r, Success(204, NoBody))
  /\ UNCHANGED <<issued, req>>

DeleteUser(r) ==
  LET u == req[r].id
  IN  /\ phase[r] = "writing"
      /\ req[r].kind = "remove"
      /\ \/ /\ users[u] = Absent
            /\ Answer(r, Failure("P2025"))
            /\ UNCHANGED users
         \/ /\ users[u] # Absent
            /\ users' = [users EXCEPT ![u] = Absent]
            /\ Answer(r, Success(204, NoBody))
      /\ UNCHANGED <<issued, req>>

(* The DELETE cascades to the memberships of the user, and can be ended by *)
(* a deadlock with a transaction of /Groups over them (ScimGroups).        *)
AbortDelete(r) ==
  /\ GroupRequests
  /\ phase[r] = "writing"
  /\ req[r].kind = "remove"
  /\ users[req[r].id] # Absent
  /\ Answer(r, Failure("P2034"))
  /\ UNCHANGED <<users, issued, req>>

(* DELETE /demo/api/data: scimUser.deleteMany().                           *)
ClearData ==
  /\ Live # {}
  /\ users' = [u \in UserIds |-> Absent]
  /\ UNCHANGED <<issued, req, phase, answer>>

(* The answer leaves; the slot is free for another request. *)
Respond(r) ==
  /\ phase[r] = "answered"
  /\ req'    = [req EXCEPT ![r] = NoRequest]
  /\ phase'  = [phase EXCEPT ![r] = "idle"]
  /\ answer' = [answer EXCEPT ![r] = NoAnswer]
  /\ UNCHANGED <<users, issued>>

(* The process dies and is started again: the table stays, every request   *)
(* in progress is gone, whether its statement was executed or not.         *)
Crash ==
  /\ \E r \in Requests : phase[r] # "idle"
  /\ req'    = [r \in Requests |-> NoRequest]
  /\ phase'  = [r \in Requests |-> "idle"]
  /\ answer' = [r \in Requests |-> NoAnswer]
  /\ UNCHANGED <<users, issued>>

(* What the server does for a request once it is there. *)
Handle(r) == \/ Parse(r)
             \/ CheckUserName(r)
             \/ FindById(r)
             \/ Hash(r)
             \/ InsertUser(r)
             \/ UpdateUser(r)
             \/ AbortRename(r)
             \/ DeleteUser(r)
             \/ AbortDelete(r)

Next == \/ \E r \in Requests : \/ \E q \in Request : Receive(r, q)
                               \/ Handle(r)
                               \/ Respond(r)
        \/ ClearData
        \/ Crash

Spec == Init /\ [][Next]_vars

(* Statements, bcrypt and the event loop all make progress; clients need   *)
(* not send anything, and nothing forces a crash.                          *)
Fairness == \A r \in Requests : WF_vars(Handle(r)) /\ WF_vars(Respond(r))

FairSpec == Spec /\ Fairness

-------------------------------------------------------------------------------
(* Types. *)

(* A slot holds a request of the right kind exactly while it is busy, and  *)
(* an answer exactly while it is answered.                                 *)
SlotOK(r) ==
  /\ req[r] \in Request \cup {NoRequest}
  /\ phase[r] \in Phases
  /\ answer[r] \in Answers \cup {NoAnswer}
  /\ phase[r] = "idle" <=> req[r] = NoRequest
  /\ phase[r] = "answered" <=> answer[r] # NoAnswer
  /\ phase[r] = "parsing"  => req[r].kind = "patch"
  /\ phase[r] = "checking" => req[r].kind = "create"
  /\ phase[r] = "finding"  => req[r].kind \in {"get", "replace", "patch", "remove"}
  /\ phase[r] = "hashing"  => req[r].kind \in {"create", "replace"}
  /\ phase[r] = "writing"  => req[r].kind \in {"create", "replace", "patch", "remove"}

(* The table holds rows of issued ids; every slot is in order.             *)
TypeOK ==
  /\ users  \in [UserIds -> Row \cup {Absent}]
  /\ issued \subseteq UserIds
  /\ Live \subseteq issued
  /\ DOMAIN req = Requests /\ DOMAIN phase = Requests /\ DOMAIN answer = Requests
  /\ \A r \in Requests : SlotOK(r)

(* Safety. *)

(* No two users share a userName, although create checks for the name and  *)
(* inserts in two steps and an update does not check at all                *)
(* (users.service.ts:35-42, 59; the unique index of the schema decides).   *)
UniqueUserNames ==
  \A u, v \in Live : users[u].userName = users[v].userName => u = v

(* Requests that take no part in a deadlock and that the server can read.  *)
NeedsNoServerError(r) ==
  \/ req[r].kind \in {"create", "get"}
  \/ /\ req[r].kind = "patch"
     /\ ~Malformed(req[r])
     /\ PatchResult[req[r].body].userName = Undefined

(* However requests race, a POST or GET is never answered 500, nor is a    *)
(* well-formed PATCH that leaves the userName alone: a lost race is a 404  *)
(* or a 409, as scim-exception.filter.ts:12-17 wants.                      *)
LostRacesAreClientErrors ==
  \A r \in Requests :
    phase[r] = "answered" /\ NeedsNoServerError(r) => answer[r].status # 500

(* Action properties. *)

(* A deleted user never comes back: a PUT or PATCH that found the user     *)
(* before the DELETE updates nothing (users.service.ts:56-59, 74-75), and  *)
(* no later user is given the id, so links of the past stay dead.          *)
NoResurrection ==
  [][\A u \in issued : users[u] = Absent => users'[u] = Absent]_vars

(* The request whose statement this step executes. *)
Executes(r) == phase[r] = "writing" /\ phase'[r] = "answered"

(* What an operation of a PATCH names, read off its path or its value.     *)
Names(o, c) ==
  /\ o # JNull
  /\ o.op \in {"add", "replace"}
  /\ CASE c = "externalId" -> o.path = c \/ (o.path = "" /\ Has(o.value, c))
       [] c = "email"      -> o.path \in EmailPaths \/ (o.path = "" /\ Has(o.value, "emails"))
       [] c \in {"givenName", "familyName"} ->
            o.path = NamePath[c] \/ (o.path = "" /\ Has(Prop(o.value, "name"), c))

Mentions(q, c) ==
  CASE q.kind = "replace" -> q.dto.optional[c] # Undefined
    [] q.kind = "patch"   -> \E i \in DOMAIN q.body : Names(q.body[i], c)
    [] OTHER              -> FALSE

(* A column of a user changes only by the statement of a request that      *)
(* mentions that column: what the handler read of the row at findById, any *)
(* number of writes ago, is never written back over a newer value.         *)
ColumnsChangeOnlyIfMentioned ==
  [][\A u \in UserIds, c \in OptionalColumns :
       /\ users[u] # Absent
       /\ users'[u] # Absent
       /\ users'[u].optional[c] # users[u].optional[c]
       => \E r \in Requests : Executes(r) /\ req[r].id = u /\ Mentions(req[r], c)]_vars

(* A user's credential changes only by a PUT that carries a password, and  *)
(* to that password: a PUT without one, a PATCH, or the hash of another    *)
(* request in progress leaves it alone (users.service.ts:57, 68, 77).      *)
CredentialsChangeOnlyByPut ==
  [][\A u \in UserIds :
       /\ users[u] # Absent
       /\ users'[u] # Absent
       /\ users'[u].passwordHash # users[u].passwordHash
       => \E r \in Requests :
            /\ Executes(r)
            /\ req[r].kind = "replace"
            /\ req[r].id = u
            /\ HasPassword(req[r].dto)
            /\ users'[u].passwordHash = BcryptHash(req[r].dto.password)]_vars

(* Liveness. *)

(* Every request that reaches its handler leaves it: answered, or lost in  *)
(* a crash.                                                                *)
EveryRequestEnds == \A r \in Requests : phase[r] # "idle" ~> phase[r] = "idle"

(* Refinement: the handlers, with all their awaits and failures, implement *)
(* operations that take effect at one instant (AtomicUsers).               *)
AbstractPhase ==
  [r \in Requests |-> IF phase[r] \in {"idle", "answered"} THEN phase[r] ELSE "pending"]

Atomic == INSTANCE AtomicUsers WITH phase <- AbstractPhase

(* A request takes effect once, whole, between its arrival and its answer, *)
(* and its answer tells the table of that instant: a client never sees an  *)
(* effect or an outcome made of two moments.                               *)
AtomicSpec == Atomic!Spec
===============================================================================
