---------------------------- MODULE ScimUsersProofs ----------------------------
(***************************************************************************)
(* Theorems about ScimUsers, for any sets of ids, of requests and of       *)
(* bodies.                                                                 *)
(***************************************************************************)
EXTENDS ScimUsers, PatchFacts

-------------------------------------------------------------------------------
(* What the writes and the answers are made of. *)

(* A POST stores a row. *)
LEMMA CreateRowType ==
  ASSUME NEW dto \in UserDto
  PROVE  CreateRow(dto) \in Row
BY SentinelsAssumption
   DEF UserDto, CreateRow, Row, ActiveOrTrue, Written, HasPassword, BcryptHash, PasswordHashes

(* A PUT over a row leaves a row. *)
LEMMA ReplaceRowType ==
  ASSUME NEW dto \in UserDto, NEW row \in Row
  PROVE  ReplaceRow(row, dto) \in Row
BY SentinelsAssumption
   DEF UserDto, ReplaceRow, Row, ActiveOrTrue, Written, HasPassword, BcryptHash, PasswordHashes

(* A PATCH that Prisma accepts leaves a row. *)
LEMMA PatchRowType ==
  ASSUME NEW fields \in UserPatchFields, FieldsValid(fields), NEW row \in Row
  PROVE  PatchRow(row, fields) \in Row
BY SentinelsAssumption
   DEF UserPatchFields, FieldsValid, PatchRow, Row, Written

(* toScimUser of a row is a SCIM user. *)
LEMMA ToScimUserType ==
  ASSUME NEW id \in UserIds, NEW row \in Row
  PROVE  ToScimUser(id, row) \in ScimUser(UserIds)
BY DEF Row, ToScimUser, ScimUser

(* Every error answer is one of the types the answers have. *)
LEMMA FailureType ==
  ASSUME NEW e \in {"ConflictException", "NotFoundException", "TypeError", "P2002",
                    "P2025", "P2034", "PrismaClientValidationError"}
  PROVE  Failure(e) \in Answers
BY DEF Failure, Answers, ToScimError, HttpExceptions, PrismaErrors, InternalServerError

(* And so is every successful one. *)
LEMMA SuccessType ==
  ASSUME NEW status \in {200, 201, 204}, NEW body \in ScimUser(UserIds) \cup {NoBody}
  PROVE  Success(status, body) \in Answers
BY DEF Success, Answers

(* applyUserPatch, of every body, tells something of each column or throws. *)
LEMMA PatchResultType ==
  PatchResult \in [PatchBodies -> UserPatchFields \cup {Thrown}]
BY PatchBodiesAssumption, UserPatchType DEF PatchResult

(* An update that is not malformed leaves a row. *)
LEMMA UpdatedRowType ==
  ASSUME NEW q \in Request, q.kind \in {"replace", "patch"}, ~Malformed(q), NEW row \in Row
  PROVE  UpdatedRow(q, row) \in Row
<1>1. CASE q.kind = "replace"
  <2>1. q.dto \in UserDto
    BY <1>1, UserDtosAssumption DEF Request
  <2> QED
    BY <1>1, <2>1, ReplaceRowType DEF UpdatedRow
<1>2. CASE q.kind = "patch"
  <2>1. /\ PatchResult[q.body] \in UserPatchFields
        /\ FieldsValid(PatchResult[q.body])
    BY <1>2, PatchResultType DEF Request, Malformed
  <2> QED
    BY <1>2, <2>1, PatchRowType DEF UpdatedRow
<1> QED
  BY <1>1, <1>2

-------------------------------------------------------------------------------
(* Type correctness. *)

(* Init establishes TypeOK. *)
LEMMA TypeInit == Init => TypeOK
BY DEF Init, TypeOK, SlotOK, Phases, Live

(* The two halves of TypeOK: the table, and the slots. *)
TableOK ==
  /\ users  \in [UserIds -> Row \cup {Absent}]
  /\ issued \subseteq UserIds
  /\ Live \subseteq issued

SlotsOK ==
  /\ DOMAIN req = Requests /\ DOMAIN phase = Requests /\ DOMAIN answer = Requests
  /\ \A r \in Requests : SlotOK(r)

LEMMA Halves == TypeOK <=> TableOK /\ SlotsOK
BY DEF TypeOK, TableOK, SlotsOK

(* A busy request that is answered keeps the slots in order. *)
LEMMA AnswerKeepsSlots ==
  ASSUME SlotsOK, NEW r \in Requests, phase[r] # "idle",
         NEW a \in Answers, Answer(r, a), UNCHANGED req
  PROVE  SlotsOK'
BY SentinelsAssumption DEF SlotsOK, SlotOK, Answer, Phases

(* So does one that goes on to an await its kind has. *)
LEMMA AwaitKeepsSlots ==
  ASSUME SlotsOK, NEW r \in Requests, phase[r] \notin {"idle", "answered"},
         NEW p \in {"finding", "hashing", "writing"}, Await(r, p), UNCHANGED req,
         p = "finding" => req[r].kind \in {"get", "replace", "patch", "remove"},
         p = "hashing" => req[r].kind \in {"create", "replace"},
         p = "writing" => req[r].kind \in {"create", "replace", "patch", "remove"}
  PROVE  SlotsOK'
BY DEF SlotsOK, SlotOK, Await, Phases

(* An action that leaves the table alone keeps it in order. *)
LEMMA UnchangedTable ==
  ASSUME TableOK, UNCHANGED <<users, issued>>
  PROVE  TableOK'
BY DEF TableOK, Live

(* Writing a row under an issued id keeps the table in order. *)
LEMMA WriteKeepsTable ==
  ASSUME TableOK, NEW u \in UserIds, NEW row \in Row,
         users' = [users EXCEPT ![u] = row], issued' = issued \cup {u}
  PROVE  TableOK'
BY SentinelsAssumption DEF TableOK, Live

(* Every action keeps both halves. *)
LEMMA TypeNext == TypeOK /\ [Next]_vars => TypeOK'
<1> SUFFICES ASSUME TableOK, SlotsOK, [Next]_vars
             PROVE  TableOK' /\ SlotsOK'
  BY Halves DEF TableOK, SlotsOK, TypeOK, SlotOK, Live
<1>1. ASSUME NEW r \in Requests, NEW q \in Request, Receive(r, q)
      PROVE  TableOK' /\ SlotsOK'
  <2>1. TableOK'
    BY <1>1, UnchangedTable DEF Receive
  <2>2. SlotsOK'
    BY <1>1, SentinelsAssumption DEF Receive, Await, SlotsOK, SlotOK, Phases
  <2> QED
    BY <2>1, <2>2
<1>2. ASSUME NEW r \in Requests, Parse(r)
      PROVE  TableOK' /\ SlotsOK'
  <2>1. TableOK'
    BY <1>2, UnchangedTable DEF Parse
  <2>2. req[r].kind = "patch"
    BY <1>2 DEF SlotsOK, SlotOK, Parse
  <2>3. SlotsOK'
    BY <1>2, <2>2, FailureType, AnswerKeepsSlots, AwaitKeepsSlots DEF Parse
  <2> QED
    BY <2>1, <2>3
<1>3. ASSUME NEW r \in Requests, CheckUserName(r)
      PROVE  TableOK' /\ SlotsOK'
  <2>1. TableOK'
    BY <1>3, UnchangedTable DEF CheckUserName
  <2>2. req[r].kind = "create"
    BY <1>3 DEF SlotsOK, SlotOK, CheckUserName
  <2>3. SlotsOK'
    BY <1>3, <2>2, FailureType, AnswerKeepsSlots, AwaitKeepsSlots
       DEF CheckUserName, HashOrWrite
  <2> QED
    BY <2>1, <2>3
<1>4. ASSUME NEW r \in Requests, FindById(r)
      PROVE  TableOK' /\ SlotsOK'
  <2>1. TableOK'
    BY <1>4, UnchangedTable DEF FindById
  <2>2. phase[r] = "finding" /\ UNCHANGED req
    BY <1>4 DEF FindById
  <2>3. req[r].id \in UserIds
    BY <2>2, SentinelsAssumption DEF SlotsOK, SlotOK, Request
  <2>4. ASSUME users[req[r].id] = Absent
        PROVE  SlotsOK'
    BY <1>4, <2>2, <2>4, FailureType, AnswerKeepsSlots DEF FindById
  <2>5. ASSUME users[req[r].id] # Absent
        PROVE  SlotsOK'
    <3>1. users[req[r].id] \in Row
      BY <2>3, <2>5 DEF TableOK
    <3>2. Success(200, ToScimUser(req[r].id, users[req[r].id])) \in Answers
      BY <2>3, <3>1, ToScimUserType, SuccessType
    <3> QED
      BY <1>4, <2>2, <2>5, <3>2, AnswerKeepsSlots, AwaitKeepsSlots
         DEF FindById, HashOrWrite
  <2> QED
    BY <2>1, <2>4, <2>5
<1>5. ASSUME NEW r \in Requests, Hash(r)
      PROVE  TableOK' /\ SlotsOK'
  <2>1. TableOK'
    BY <1>5, UnchangedTable DEF Hash
  <2>2. req[r].kind \in {"create", "replace"}
    BY <1>5 DEF SlotsOK, SlotOK, Hash
  <2>3. SlotsOK'
    BY <1>5, <2>2, AwaitKeepsSlots DEF Hash
  <2> QED
    BY <2>1, <2>3
<1>6. ASSUME NEW r \in Requests, InsertUser(r)
      PROVE  TableOK' /\ SlotsOK'
  <2> DEFINE row == CreateRow(req[r].dto)
  <2>1. phase[r] = "writing" /\ req[r].kind = "create" /\ UNCHANGED req
    BY <1>6 DEF InsertUser
  <2>2. row \in Row
    BY <2>1, SentinelsAssumption, UserDtosAssumption, CreateRowType DEF SlotsOK, SlotOK, Request
  <2>3. CASE Answer(r, Failure("P2002")) /\ UNCHANGED <<users, issued>>
    BY <2>1, <2>3, UnchangedTable, FailureType, AnswerKeepsSlots
  <2>4. ASSUME NEW u \in UserIds \ issued,
               users' = [users EXCEPT ![u] = row], issued' = issued \cup {u},
               Answer(r, Success(201, ToScimUser(u, row)))
        PROVE  TableOK' /\ SlotsOK'
    <3>1. TableOK'
      BY <2>2, <2>4, WriteKeepsTable
    <3>2. SlotsOK'
      BY <2>1, <2>2, <2>4, ToScimUserType, SuccessType, AnswerKeepsSlots
    <3> QED
      BY <3>1, <3>2
  <2> QED
    BY <1>6, <2>3, <2>4 DEF InsertUser, FreshIds
<1>7. ASSUME NEW r \in Requests, UpdateUser(r)
      PROVE  TableOK' /\ SlotsOK'
  <2> DEFINE u   == req[r].id
             new == UpdatedRow(req[r], users[u])
  <2>1. phase[r] = "writing" /\ req[r].kind \in {"replace", "patch"} /\ UNCHANGED <<issued, req>>
    BY <1>7 DEF UpdateUser
  <2>2. req[r] \in Request /\ u \in UserIds
    BY <2>1, SentinelsAssumption DEF SlotsOK, SlotOK, Request
  <2>3. ASSUME NEW e \in {"PrismaClientValidationError", "P2025", "P2002"},
               Answer(r, Failure(e)), UNCHANGED users
        PROVE  TableOK' /\ SlotsOK'
    BY <2>1, <2>3, UnchangedTable, FailureType, AnswerKeepsSlots
  <2>4. ASSUME ~Malformed(req[r]), users[u] # Absent, users' = [users EXCEPT ![u] = new],
               Answer(r, Success(200, ToScimUser(u, new)))
        PROVE  TableOK' /\ SlotsOK'
    <3>1. new \in Row
      BY <2>1, <2>2, <2>4, UpdatedRowType DEF TableOK
    <3>2. u \in issued
      BY <2>2, <2>4 DEF Live, TableOK
    <3>3. TableOK'
      BY <2>1, <2>2, <2>4, <3>1, <3>2, WriteKeepsTable
    <3>4. SlotsOK'
      BY <2>1, <2>2, <2>4, <3>1, ToScimUserType, SuccessType, AnswerKeepsSlots
    <3> QED
      BY <3>3, <3>4
  <2> QED
    BY <1>7, <2>3, <2>4 DEF UpdateUser
<1>8. ASSUME NEW r \in Requests, AbortRename(r)
      PROVE  TableOK' /\ SlotsOK'
  <2>1. TableOK'
    BY <1>8, UnchangedTable DEF AbortRename
  <2>2. phase[r] = "writing"
    BY <1>8 DEF AbortRename, NameCycle, Renames
  <2>3. SlotsOK'
    BY <1>8, <2>2, FailureType, AnswerKeepsSlots DEF AbortRename
  <2> QED
    BY <2>1, <2>3
<1>9. ASSUME NEW r \in Requests, DeleteUser(r)
      PROVE  TableOK' /\ SlotsOK'
  <2>1. phase[r] = "writing" /\ UNCHANGED req
    BY <1>9 DEF DeleteUser
  <2>2. TableOK'
    BY <1>9, SentinelsAssumption DEF DeleteUser, Live, TableOK
  <2>3. SlotsOK'
    BY <1>9, <2>1, FailureType, SuccessType, AnswerKeepsSlots DEF DeleteUser
  <2> QED
    BY <2>2, <2>3
<1>10. ASSUME NEW r \in Requests, AbortDelete(r)
       PROVE  TableOK' /\ SlotsOK'
  <2>1. TableOK'
    BY <1>10, UnchangedTable DEF AbortDelete
  <2>2. SlotsOK'
    BY <1>10, FailureType, AnswerKeepsSlots DEF AbortDelete
  <2> QED
    BY <2>1, <2>2
<1>11. CASE ClearData
  <2>1. TableOK'
    BY <1>11 DEF ClearData, TableOK, Live
  <2>2. SlotsOK'
    BY <1>11 DEF ClearData, SlotsOK, SlotOK
  <2> QED
    BY <2>1, <2>2
<1>12. ASSUME NEW r \in Requests, Respond(r)
       PROVE  TableOK' /\ SlotsOK'
  <2>1. TableOK'
    BY <1>12, UnchangedTable DEF Respond
  <2>2. SlotsOK'
    BY <1>12, SentinelsAssumption DEF Respond, SlotsOK, SlotOK, Phases
  <2> QED
    BY <2>1, <2>2
<1>13. CASE Crash
  <2>1. TableOK'
    BY <1>13, UnchangedTable DEF Crash
  <2>2. SlotsOK'
    BY <1>13 DEF Crash, SlotsOK, SlotOK, Phases
  <2> QED
    BY <2>1, <2>2
<1>14. CASE UNCHANGED vars
  BY <1>14, UnchangedTable DEF vars, SlotsOK, SlotOK
<1> QED
  BY <1>1, <1>2, <1>3, <1>4, <1>5, <1>6, <1>7, <1>8, <1>9, <1>12, <1>13, <1>14,
     <1>10, <1>11
     DEF Next, Handle

(* The table only ever holds well-typed rows of issued ids, and every      *)
(* request is at an await its kind has, with an answer of its type: no     *)
(* interleaving of handlers, failures and crashes brings the server        *)
(* anywhere else.                                                          *)
THEOREM TypeCorrect == Spec => []TypeOK
<1> QED
  BY TypeInit, TypeNext, PTL DEF Spec

-------------------------------------------------------------------------------
(* The table. *)

(* Only the three writing statements, and the demo page, change the table. *)
LEMMA TableSteps ==
  ASSUME [Next]_vars, ~UNCHANGED <<users, issued>>
  PROVE  ClearData \/ \E r \in Requests : InsertUser(r) \/ UpdateUser(r) \/ DeleteUser(r)
BY DEF Next, Handle, vars, Receive, Parse, CheckUserName, FindById, Hash, AbortRename, AbortDelete,
       Respond, Crash

(* What the three of them do to it. *)
LEMMA InsertChanges ==
  ASSUME TypeOK, NEW r \in Requests, InsertUser(r)
  PROVE  \/ UNCHANGED <<users, issued>>
         \/ \E u \in UserIds \ issued :
              /\ req[r].dto \in UserDto
              /\ users'  = [users EXCEPT ![u] = CreateRow(req[r].dto)]
              /\ issued' = issued \cup {u}
              /\ \A v \in Live : users[v].userName # CreateRow(req[r].dto).userName
<1>1. req[r].kind = "create" /\ req[r] \in Request
  BY SentinelsAssumption DEF InsertUser, TypeOK, SlotOK
<1>2. req[r].dto \in UserDto
  BY <1>1, UserDtosAssumption DEF Request
<1> QED
  BY <1>2 DEF InsertUser, FreshIds, CreateRow

LEMMA UpdateChanges ==
  ASSUME TypeOK, NEW r \in Requests, UpdateUser(r)
  PROVE  /\ UNCHANGED issued
         /\ \/ UNCHANGED users
            \/ /\ req[r] \in Request
               /\ req[r].kind \in {"replace", "patch"}
               /\ req[r].id \in Live
               /\ users[req[r].id] \in Row
               /\ ~Malformed(req[r])
               /\ users' = [users EXCEPT ![req[r].id] = UpdatedRow(req[r], users[req[r].id])]
               /\ NameFree(req[r].id, UpdatedRow(req[r], users[req[r].id]).userName)
               /\ phase[r] = "writing" /\ phase'[r] = "answered"
<1> DEFINE u == req[r].id
<1>1. req[r] \in Request /\ u \in UserIds
  BY SentinelsAssumption DEF UpdateUser, TypeOK, SlotOK, Request
<1>2. phase[r] = "writing" /\ phase'[r] = "answered" /\ UNCHANGED issued
  BY DEF UpdateUser, Answer, TypeOK
<1>3. users[u] # Absent => u \in Live /\ users[u] \in Row
  BY <1>1 DEF TypeOK, Live
<1>4. req[r].kind \in {"replace", "patch"}
  BY DEF UpdateUser
<1>5. \/ UNCHANGED users
      \/ /\ ~Malformed(req[r])
         /\ users[u] # Absent
         /\ NameFree(u, UpdatedRow(req[r], users[u]).userName)
         /\ users' = [users EXCEPT ![u] = UpdatedRow(req[r], users[u])]
  BY DEF UpdateUser
<1> QED
  BY <1>1, <1>2, <1>3, <1>4, <1>5

LEMMA DeleteChanges ==
  ASSUME TypeOK, NEW r \in Requests, DeleteUser(r)
  PROVE  UNCHANGED issued /\ (UNCHANGED users \/ users' = [users EXCEPT ![req[r].id] = Absent])
BY DEF DeleteUser

(* userName is unique in every reachable table, whatever races: this is    *)
(* what Okta's matching of accounts by userName rests on.                  *)
LEMMA UniqueNext == TypeOK /\ UniqueUserNames /\ [Next]_vars => UniqueUserNames'
<1> SUFFICES ASSUME TypeOK, UniqueUserNames, [Next]_vars
             PROVE  UniqueUserNames'
  OBVIOUS
<1>1. CASE UNCHANGED <<users, issued>>
  BY <1>1 DEF UniqueUserNames, Live
<1>2. ASSUME NEW r \in Requests, InsertUser(r)
      PROVE  UniqueUserNames'
  BY <1>2, InsertChanges DEF UniqueUserNames, Live, TypeOK
<1>3. ASSUME NEW r \in Requests, UpdateUser(r)
      PROVE  UniqueUserNames'
  BY <1>3, UpdateChanges DEF UniqueUserNames, Live, NameFree, TypeOK
<1>4. ASSUME NEW r \in Requests, DeleteUser(r)
      PROVE  UniqueUserNames'
  BY <1>4, DeleteChanges DEF UniqueUserNames, Live, TypeOK
<1>5. CASE ClearData
  BY <1>5 DEF ClearData, UniqueUserNames, Live, TypeOK
<1> QED
  BY <1>1, <1>2, <1>3, <1>4, <1>5, TableSteps

THEOREM UserNamesStayUnique == Spec => []UniqueUserNames
<1>1. Init => UniqueUserNames
  BY DEF Init, UniqueUserNames, Live
<1> QED
  BY <1>1, UniqueNext, TypeCorrect, PTL DEF Spec

(* No step brings a deleted user back. *)
LEMMA ResurrectionNext ==
  ASSUME TypeOK, [Next]_vars
  PROVE  \A u \in issued : users[u] = Absent => users'[u] = Absent
<1> SUFFICES ASSUME NEW u \in issued, users[u] = Absent
             PROVE  users'[u] = Absent
  OBVIOUS
<1>1. CASE UNCHANGED <<users, issued>>
  BY <1>1
<1>2. ASSUME NEW r \in Requests, InsertUser(r)
      PROVE  users'[u] = Absent
  BY <1>2, InsertChanges DEF TypeOK
<1>3. ASSUME NEW r \in Requests, UpdateUser(r)
      PROVE  users'[u] = Absent
  BY <1>3, UpdateChanges DEF TypeOK, Live
<1>4. ASSUME NEW r \in Requests, DeleteUser(r)
      PROVE  users'[u] = Absent
  BY <1>4, DeleteChanges DEF TypeOK
<1>5. CASE ClearData
  BY <1>5 DEF ClearData, TypeOK
<1> QED
  BY <1>1, <1>2, <1>3, <1>4, <1>5, TableSteps

(* A deleted user stays deleted, for any number of requests in progress.   *)
THEOREM DeletedUsersStayDeleted == Spec => NoResurrection
<1>1. TypeOK /\ [Next]_vars => [\A u \in issued : users[u] = Absent => users'[u] = Absent]_vars
  BY ResurrectionNext
<1> QED
  BY <1>1, TypeCorrect, PTL DEF Spec, NoResurrection

(* A credential changes only by a PUT with a password, to that password.   *)
LEMMA CredentialsNext ==
  ASSUME TypeOK, [Next]_vars,
         NEW u \in UserIds, users[u] # Absent, users'[u] # Absent,
         users'[u].passwordHash # users[u].passwordHash
  PROVE  \E r \in Requests :
            /\ Executes(r)
            /\ req[r].kind = "replace"
            /\ req[r].id = u
            /\ HasPassword(req[r].dto)
            /\ users'[u].passwordHash = BcryptHash(req[r].dto.password)
<1>1. u \in issued /\ users[u] \in Row
  BY DEF TypeOK, Live
<1>2. ASSUME NEW r \in Requests, InsertUser(r)
      PROVE  FALSE
  BY <1>1, <1>2, InsertChanges DEF TypeOK
<1>3. ASSUME NEW r \in Requests, DeleteUser(r)
      PROVE  FALSE
  BY <1>3, DeleteChanges DEF TypeOK
<1>4. ~ClearData
  BY DEF ClearData
<1>5. PICK r \in Requests : UpdateUser(r)
  BY <1>2, <1>3, <1>4, TableSteps
<1>6. /\ Executes(r) /\ req[r].id = u /\ req[r] \in Request
      /\ req[r].kind \in {"replace", "patch"} /\ ~Malformed(req[r])
      /\ users'[u] = UpdatedRow(req[r], users[u])
  BY <1>5, UpdateChanges DEF Executes, TypeOK, Live
<1>7. CASE req[r].kind = "patch"
  BY <1>6, <1>7 DEF UpdatedRow, PatchRow
<1>8. CASE req[r].kind = "replace"
  BY <1>6, <1>8 DEF UpdatedRow, ReplaceRow
<1> QED
  BY <1>6, <1>7, <1>8

(* What a password accepts is decided by the last PUT that carried one (or *)
(* by the POST): nothing else in progress can set it back.                 *)
THEOREM CredentialsOnlyByPut == Spec => CredentialsChangeOnlyByPut
<1> DEFINE A == \A u \in UserIds :
       /\ users[u] # Absent
       /\ users'[u] # Absent
       /\ users'[u].passwordHash # users[u].passwordHash
       => \E r \in Requests :
            /\ Executes(r)
            /\ req[r].kind = "replace"
            /\ req[r].id = u
            /\ HasPassword(req[r].dto)
            /\ users'[u].passwordHash = BcryptHash(req[r].dto.password)
<1>1. TypeOK /\ [Next]_vars => [A]_vars
  BY CredentialsNext
<1> HIDE DEF A
<1>2. Spec => [][A]_vars
  BY <1>1, TypeCorrect, PTL DEF Spec
<1> QED
  BY <1>2 DEF A, CredentialsChangeOnlyByPut

-------------------------------------------------------------------------------
(* What a PATCH names. *)

(* A path changes the column it names, and no other.                       *)
LEMMA PathNames ==
  ASSUME NEW fields \in UserPatchFields, NEW o \in Operation, o.op \in {"add", "replace"},
         o.path # "", NEW c \in OptionalColumns, ~Names(o, c),
         ApplyValueForPath(fields, o.path, o.value) # Thrown
  PROVE  ApplyValueForPath(fields, o.path, o.value).optional[c] = fields.optional[c]
<1> DEFINE v   == o.value
           new == ApplyValueForPath(fields, o.path, v)
<1>1. c \in {"externalId", "givenName", "familyName", "email"}
  BY DEF OptionalColumns
<1>2. /\ c = "externalId" => o.path # "externalId"
      /\ c = "givenName"  => o.path # NamePath.givenName
      /\ c = "familyName" => o.path # NamePath.familyName
      /\ c = "email"      => o.path \notin EmailPaths
  BY NullIsNoOperation DEF Names
<1>3. /\ [fields EXCEPT !.active = ToBoolean(v)].optional[c] = fields.optional[c]
      /\ [fields EXCEPT !.userName = ToText(v)].optional[c] = fields.optional[c]
  BY DEF UserPatchFields
<1>4. CASE o.path \in {"active", "userName"}
  BY <1>3, <1>4 DEF ApplyValueForPath, EmailPaths, NamePath
<1>5. CASE o.path = "externalId"
  <2>1. new = SetOptional(fields, "externalId", ToText(v))
    BY <1>5 DEF ApplyValueForPath, EmailPaths, NamePath
  <2> QED
    BY <1>2, <1>5, <2>1 DEF SetOptional, UserPatchFields
<1>6. CASE o.path = NamePath.givenName
  <2>1. new = SetOptional(fields, "givenName", ToText(v))
    BY <1>6 DEF ApplyValueForPath, EmailPaths, NamePath
  <2> QED
    BY <1>2, <1>6, <2>1 DEF SetOptional, UserPatchFields
<1>7. CASE o.path = NamePath.familyName
  <2>1. new = SetOptional(fields, "familyName", ToText(v))
    BY <1>7 DEF ApplyValueForPath, EmailPaths, NamePath
  <2> QED
    BY <1>2, <1>7, <2>1 DEF SetOptional, UserPatchFields
<1>8. CASE o.path \in EmailPaths
  <2>1. o.path \notin {"active", "userName", "externalId", NamePath.givenName, NamePath.familyName}
    BY <1>8 DEF EmailPaths, NamePath
  <2>2. \/ new = SetOptional(fields, "email", EmailOfArray(v))
        \/ new = SetOptional(fields, "email", v.val)
        \/ new = fields
    <3>1. NonEmptyArray(v) => v.type # "string"
      BY DEF NonEmptyArray
    <3> QED
      BY <1>8, <2>1, <3>1 DEF ApplyValueForPath
  <2> QED
    BY <1>2, <1>8, <2>2 DEF SetOptional, UserPatchFields
<1>9. CASE /\ o.path \notin {"active", "userName", "externalId"} \cup EmailPaths
            /\ o.path \notin {NamePath.givenName, NamePath.familyName}
  BY <1>9 DEF ApplyValueForPath
<1> QED
  BY <1>4, <1>5, <1>6, <1>7, <1>8, <1>9

(* So does a whole value. *)
LEMMA ValueNames ==
  ASSUME NEW fields \in UserPatchFields, NEW o \in Operation, o.op \in {"add", "replace"},
         o.path = "", NEW c \in OptionalColumns, ~Names(o, c)
  PROVE  AssignFromObject(fields, o.value).optional[c] = fields.optional[c]
<1> DEFINE v == o.value
<1>1. c \in {"externalId", "givenName", "familyName", "email"}
  BY DEF OptionalColumns
<1>2. /\ c = "externalId" => ~Has(v, c)
      /\ c \in {"givenName", "familyName"} => Prop(Prop(v, "name"), c) = JUndefined
      /\ c = "email" => ~NonEmptyArray(Prop(v, "emails"))
  BY NullIsNoOperation DEF Names, Prop, NonEmptyArray, JUndefined
<1>3. CASE c = "externalId"
  BY <1>2, <1>3 DEF AssignFromObject
<1>4. CASE c \in {"givenName", "familyName"}
  BY <1>2, <1>4 DEF AssignFromObject
<1>5. CASE c = "email"
  BY <1>2, <1>5 DEF AssignFromObject
<1> QED
  BY <1>1, <1>3, <1>4, <1>5

LEMMA TurnNames ==
  ASSUME NEW fields \in UserPatchFields, NEW o \in OrNull(Operation), NEW c \in OptionalColumns,
         ~Names(o, c), ApplyOperation(fields, o) # Thrown
  PROVE  ApplyOperation(fields, o).optional[c] = fields.optional[c]
<1>0. o \in Operation /\ o # JNull
  BY DEF ApplyOperation, OrNull
<1>1. CASE o.op \notin {"add", "replace"}
  BY <1>0, <1>1 DEF ApplyOperation
<1>2. CASE o.op \in {"add", "replace"} /\ o.path # ""
  <2>1. ApplyOperation(fields, o) \in {fields, ApplyValueForPath(fields, o.path, o.value)}
    BY <1>0, <1>2 DEF ApplyOperation
  <2> QED
    BY <1>0, <1>2, <2>1, PathNames
<1>3. CASE o.op \in {"add", "replace"} /\ o.path = ""
  <2>1. ApplyOperation(fields, o) \in {fields, AssignFromObject(fields, o.value)}
    BY <1>0, <1>3 DEF ApplyOperation, ApplyValueObject
  <2> QED
    BY <1>0, <1>3, <2>1, ValueNames
<1> QED
  BY <1>1, <1>2, <1>3

(* Of a column that no operation names, a PATCH says nothing, however many *)
(* operations it has.                                                      *)
LEMMA PatchNames ==
  ASSUME NEW ops \in Seq(OrNull(Operation)), ApplyUserPatch(ops) # Thrown, NEW c \in OptionalColumns,
         \A i \in DOMAIN ops : ~Names(ops[i], c)
  PROVE  ApplyUserPatch(ops).optional[c] = Undefined
<1> DEFINE n == Len(ops)
           h == UserRun(ops)
           T == {k \in 0..n : h[k] # Thrown => h[k].optional[c] = Undefined}
<1>1. n \in Nat /\ DOMAIN ops = 1..n /\ \A k \in 1..n : ops[k] \in OrNull(Operation)
  OBVIOUS
<1>2. /\ h \in [0..n -> UserPatchFields \cup {Thrown}]
      /\ h[0] = NoFields
      /\ \A k \in 1..n : h[k] = ApplyOperation(h[k - 1], ops[k])
      /\ ApplyUserPatch(ops) = h[n]
  BY UserRuns
<1> HIDE DEF h
<1>3. 0 \in T
  BY <1>1, <1>2 DEF NoFields
<1>4. ASSUME NEW k \in 0..n - 1, k \in T PROVE k + 1 \in T
  <2>1. k + 1 \in 1..n /\ (k + 1) - 1 = k /\ k + 1 \in 0..n /\ k \in 0..n
    BY <1>1
  <2> DEFINE o   == ops[k + 1]
             old == h[k]
  <2>2. /\ h[k + 1] = ApplyOperation(old, o) /\ o \in OrNull(Operation) /\ ~Names(o, c)
        /\ old \in UserPatchFields \cup {Thrown}
    BY <1>1, <1>2, <2>1
  <2> SUFFICES ASSUME h[k + 1] # Thrown PROVE h[k + 1].optional[c] = Undefined
    BY <2>1
  <2>3. old # Thrown /\ old \in UserPatchFields
    BY <2>2 DEF ApplyOperation
  <2>4. old.optional[c] = Undefined
    BY <1>4, <2>3
  <2> HIDE DEF old, o
  <2> QED
    BY <2>2, <2>3, <2>4, TurnNames
<1>5. n \in T
  <2>1. 0..n \subseteq T
    <3> HIDE DEF T
    <3> QED
      BY <1>1, <1>3, <1>4, UpTo
  <2> QED
    BY <1>1, <2>1
<1> QED
  BY <1>1, <1>2, <1>5

(* A column that a statement changes is one its request mentions.          *)
LEMMA ColumnsNext ==
  ASSUME TypeOK, [Next]_vars,
         NEW u \in UserIds, NEW c \in OptionalColumns, users[u] # Absent, users'[u] # Absent,
         users'[u].optional[c] # users[u].optional[c]
  PROVE  \E r \in Requests : Executes(r) /\ req[r].id = u /\ Mentions(req[r], c)
<1>1. u \in issued /\ users[u] \in Row
  BY DEF TypeOK, Live
<1>2. ASSUME NEW r \in Requests, InsertUser(r)
      PROVE  FALSE
  BY <1>1, <1>2, InsertChanges DEF TypeOK
<1>3. ASSUME NEW r \in Requests, DeleteUser(r)
      PROVE  FALSE
  BY <1>3, DeleteChanges DEF TypeOK
<1>4. ~ClearData
  BY DEF ClearData
<1>5. PICK r \in Requests : UpdateUser(r)
  BY <1>2, <1>3, <1>4, TableSteps
<1>6. /\ Executes(r) /\ req[r].id = u /\ req[r] \in Request
      /\ req[r].kind \in {"replace", "patch"} /\ ~Malformed(req[r])
      /\ users'[u] = UpdatedRow(req[r], users[u])
  BY <1>5, UpdateChanges DEF Executes, TypeOK, Live
<1>7. CASE req[r].kind = "patch"
  <2> DEFINE ops    == req[r].body
             fields == PatchResult[ops]
  <2>1. /\ ops \in PatchBodies /\ ops \in Seq(OrNull(Operation))
        /\ fields = ApplyUserPatch(ops)
    <3>1. ops \in PatchBodies
      BY <1>6, <1>7 DEF Request
    <3> QED
      BY <3>1, PatchBodiesAssumption DEF PatchResult
  <2>2. fields # Thrown
    BY <1>6, <1>7 DEF Malformed
  <2>3. users'[u].optional[c] = Written(fields.optional[c], users[u].optional[c])
    BY <1>6, <1>7 DEF UpdatedRow, PatchRow
  <2>4. fields.optional[c] # Undefined
    BY <2>3 DEF Written
  <2>5. \E i \in DOMAIN ops : Names(ops[i], c)
    BY <2>1, <2>2, <2>4, PatchNames
  <2> QED
    BY <1>6, <1>7, <2>5 DEF Mentions
<1>8. CASE req[r].kind = "replace"
  <2>1. users'[u].optional[c] = Written(req[r].dto.optional[c], users[u].optional[c])
    BY <1>6, <1>8 DEF UpdatedRow, ReplaceRow
  <2> QED
    BY <1>6, <1>8, <2>1 DEF Mentions, Written
<1> QED
  BY <1>6, <1>7, <1>8

(* However many requests race, a column changes only by the statement of a *)
(* request that mentions it: no stale copy is ever written back.           *)
THEOREM ColumnsOnlyIfMentioned == Spec => ColumnsChangeOnlyIfMentioned
<1> DEFINE A == \A u \in UserIds, c \in OptionalColumns :
       /\ users[u] # Absent
       /\ users'[u] # Absent
       /\ users'[u].optional[c] # users[u].optional[c]
       => \E r \in Requests : Executes(r) /\ req[r].id = u /\ Mentions(req[r], c)
<1>1. TypeOK /\ [Next]_vars => [A]_vars
  BY ColumnsNext
<1> HIDE DEF A
<1>2. Spec => [][A]_vars
  BY <1>1, TypeCorrect, PTL DEF Spec
<1> QED
  BY <1>2 DEF A, ColumnsChangeOnlyIfMentioned

-------------------------------------------------------------------------------
(* Error answers. *)

LEMMA ErrorStatus ==
  /\ Failure("ConflictException").status = 409
  /\ Failure("P2002").status = 409
  /\ Failure("NotFoundException").status = 404
  /\ Failure("P2025").status = 404
  /\ Failure("TypeError").status = 500
  /\ Failure("P2034").status = 500
  /\ Failure("PrismaClientValidationError").status = 500
BY DEF Failure, ToScimError, HttpExceptions, PrismaErrors, InternalServerError

(* Only a malformed PATCH, or an update of the userName, is given a 500.   *)
LEMMA RacesNext == TypeOK /\ LostRacesAreClientErrors /\ [Next]_vars => LostRacesAreClientErrors'
<1> SUFFICES ASSUME TypeOK, LostRacesAreClientErrors, [Next]_vars,
                    NEW s \in Requests, (phase[s] = "answered")', NeedsNoServerError(s)'
             PROVE  (answer[s].status # 500)'
  BY DEF LostRacesAreClientErrors
<1>1. CASE phase[s] = "answered" /\ req'[s] = req[s] /\ answer'[s] = answer[s]
  BY <1>1 DEF LostRacesAreClientErrors, NeedsNoServerError, Malformed
<1>2. ASSUME NEW r \in Requests, NEW a, Answer(r, a), UNCHANGED req,
             NeedsNoServerError(r) => a.status # 500
      PROVE  (answer[s].status # 500)'
  <2>1. CASE s = r
    BY <1>2, <2>1 DEF Answer, TypeOK, NeedsNoServerError, Malformed
  <2>2. CASE s # r
    BY <1>1, <1>2, <2>2 DEF Answer, TypeOK
  <2> QED
    BY <2>1, <2>2
<1>3. ASSUME NEW r \in Requests, NEW p, p # "answered", Await(r, p), s # r => UNCHANGED req[s]
      PROVE  (answer[s].status # 500)'
  BY <1>1, <1>3 DEF Await, TypeOK
<1>4. ASSUME NEW r \in Requests, NEW q \in Request, Receive(r, q)
      PROVE  (answer[s].status # 500)'
  BY <1>3, <1>4 DEF Receive, TypeOK
<1>5. ASSUME NEW r \in Requests, Parse(r)
      PROVE  (answer[s].status # 500)'
  <2>1. PatchResult[req[r].body] = Thrown => ~NeedsNoServerError(r)
    BY <1>5 DEF Parse, NeedsNoServerError, Malformed, TypeOK, SlotOK
  <2> QED
    BY <1>2, <1>3, <1>5, <2>1 DEF Parse
<1>6. ASSUME NEW r \in Requests, CheckUserName(r) \/ FindById(r) \/ Hash(r)
      PROVE  (answer[s].status # 500)'
  <2>1. ASSUME NEW body
        PROVE  Success(200, body).status # 500
    BY DEF Success
  <2> QED
    BY <1>2, <1>3, <1>6, <2>1, ErrorStatus DEF CheckUserName, FindById, Hash, HashOrWrite
<1>7. ASSUME NEW r \in Requests, InsertUser(r) \/ DeleteUser(r)
      PROVE  (answer[s].status # 500)'
  <2>1. ASSUME NEW body, NEW status \in {201, 204}
        PROVE  Success(status, body).status # 500
    BY DEF Success
  <2> QED
    BY <1>2, <1>7, <2>1, ErrorStatus DEF InsertUser, DeleteUser
<1>8. ASSUME NEW r \in Requests, UpdateUser(r)
      PROVE  (answer[s].status # 500)'
  <2>1. ASSUME NEW body
        PROVE  Success(200, body).status # 500
    BY DEF Success
  <2>2. Malformed(req[r]) => ~NeedsNoServerError(r)
    BY DEF Malformed, NeedsNoServerError
  <2> QED
    BY <1>2, <1>8, <2>1, <2>2, ErrorStatus DEF UpdateUser
<1>9. ASSUME NEW r \in Requests, AbortRename(r)
      PROVE  (answer[s].status # 500)'
  <2>1. /\ req[r].kind \in {"replace", "patch"}
        /\ UpdatedRow(req[r], users[req[r].id]).userName # users[req[r].id].userName
    BY <1>9 DEF AbortRename, NameCycle, Renames
  <2>2. ~NeedsNoServerError(r)
    BY <2>1 DEF NeedsNoServerError, UpdatedRow, PatchRow, Written
  <2> QED
    BY <1>2, <1>9, <2>2, ErrorStatus DEF AbortRename
<1>10. ASSUME NEW r \in Requests, AbortDelete(r)
       PROVE  (answer[s].status # 500)'
  <2>1. ~NeedsNoServerError(r)
    BY <1>10 DEF AbortDelete, NeedsNoServerError
  <2> QED
    BY <1>2, <1>10, <2>1 DEF AbortDelete
<1>11. CASE ClearData
  BY <1>1, <1>11 DEF ClearData
<1>12. ASSUME NEW r \in Requests, Respond(r)
       PROVE  (answer[s].status # 500)'
  BY <1>1, <1>12 DEF Respond, TypeOK
<1>13. CASE Crash
  BY <1>13 DEF Crash
<1>14. CASE UNCHANGED vars
  BY <1>1, <1>14 DEF vars
<1> QED
  BY <1>4, <1>5, <1>6, <1>7, <1>8, <1>9, <1>12, <1>13, <1>14, <1>10, <1>11
     DEF Next, Handle

(* A POST or GET, and a well-formed PATCH that leaves the userName *)
(* alone, never meet a 500, whoever else is changing the same users.       *)
THEOREM LostRacesAnswered == Spec => []LostRacesAreClientErrors
<1>1. Init => LostRacesAreClientErrors
  BY DEF Init, LostRacesAreClientErrors
<1> QED
  BY <1>1, RacesNext, TypeCorrect, PTL DEF Spec

-------------------------------------------------------------------------------
(* ScimUsers implements AtomicUsers: every step of a handler is an         *)
(* operation taking effect, or nothing at all to a client.                 *)

(* An answer given by a busy request is the end of an abstract operation.  *)
LEMMA AnswerEnds ==
  ASSUME TypeOK, NEW r \in Requests, phase[r] \notin {"idle", "answered"},
         NEW a, Answer(r, a), UNCHANGED req
  PROVE  /\ AbstractPhase[r] = "pending"
         /\ Atomic!Done(r, a)
BY DEF TypeOK, AbstractPhase, Answer, Atomic!Done

(* Going on to another await is invisible.                                 *)
LEMMA AwaitIsInvisible ==
  ASSUME TypeOK, NEW r \in Requests, phase[r] \notin {"idle", "answered"},
         NEW p, p \notin {"idle", "answered"}, Await(r, p)
  PROVE  UNCHANGED AbstractPhase
BY DEF TypeOK, AbstractPhase, Await

(* A request answered with an error, the table left alone, is refused.     *)
LEMMA FailureRefuses ==
  ASSUME TypeOK, NEW r \in Requests, phase[r] \notin {"idle", "answered"},
         NEW e, NEW f, Answer(r, Failure(e)), UNCHANGED <<users, issued, req>>,
         Failure(e) = Failure(f)
  PROVE  AbstractPhase[r] = "pending" /\ Atomic!Refused(r, f)
BY AnswerEnds DEF Atomic!Refused

LEMMA SameFailure ==
  /\ Failure("P2002") = Failure("ConflictException")
  /\ Failure("P2025") = Failure("NotFoundException")
  /\ Failure("PrismaClientValidationError") = Failure("TypeError")
BY DEF Failure, ToScimError, HttpExceptions, PrismaErrors, InternalServerError

(* The two ways of saying that a name is held by another user.             *)
LEMMA TakenNames ==
  /\ \A n : Atomic!Taken(n, {}) <=> \E v \in Live : users[v].userName = n
  /\ \A n, u : Atomic!Taken(n, {u}) <=> ~NameFree(u, n)
BY DEF Atomic!Taken, Live, NameFree

-------------------------------------------------------------------------------
(* Step simulation. *)

(* The initial states are abstract initial states. *)
LEMMA InitRefines == Init => Atomic!Init
BY DEF Init, Atomic!Init, AbstractPhase

(* Each action of the handlers is an abstract step or stutters.            *)
LEMMA StepRefines == TypeOK /\ [Next]_vars => [Atomic!Next]_(Atomic!vars)
<1> SUFFICES ASSUME TypeOK, [Next]_vars
             PROVE  [Atomic!Next]_(Atomic!vars)
  OBVIOUS
<1>1. ASSUME NEW r \in Requests, AbstractPhase[r] = "pending",
             \/ Atomic!Create(r) \/ Atomic!Get(r) \/ Atomic!Update(r) \/ Atomic!Remove(r)
             \/ Atomic!NotFound(r) \/ Atomic!RefuseMalformed(r) \/ Atomic!LoseToAnother(r)
      PROVE  Atomic!Next
  BY <1>1 DEF Atomic!Next, Atomic!Perform
<1>2. ASSUME UNCHANGED <<users, issued, req, answer, AbstractPhase>>
      PROVE  UNCHANGED Atomic!vars
  BY <1>2 DEF Atomic!vars
<1>3. ASSUME NEW r \in Requests, phase[r] \notin {"idle", "answered"},
             NEW p \in {"finding", "hashing", "writing"},
             Await(r, p), UNCHANGED <<users, issued, req>>
      PROVE  UNCHANGED Atomic!vars
  BY <1>2, <1>3, AwaitIsInvisible DEF Await
<1>4. ASSUME NEW r \in Requests, NEW q \in Request, Receive(r, q)
      PROVE  Atomic!Next
  <2>1. Atomic!Invoke(r, q)
    BY <1>4 DEF Receive, Await, Atomic!Invoke, AbstractPhase, TypeOK
  <2> QED
    BY <2>1 DEF Atomic!Next
<1>5. ASSUME NEW r \in Requests, Parse(r)
      PROVE  [Atomic!Next]_(Atomic!vars)
  <2>1. /\ phase[r] = "parsing"
        /\ UNCHANGED <<users, issued, req>>
        /\ req[r].kind = "patch"
    BY <1>5 DEF Parse, TypeOK, SlotOK
  <2>2. ASSUME PatchResult[req[r].body] = Thrown, Answer(r, Failure("TypeError"))
        PROVE  Atomic!Next
    <3>1. AbstractPhase[r] = "pending" /\ Atomic!Refused(r, "TypeError")
      BY <2>1, <2>2, FailureRefuses
    <3>2. Atomic!RefuseMalformed(r)
      BY <2>1, <2>2, <3>1 DEF Atomic!RefuseMalformed, Malformed
    <3> QED
      BY <1>1, <3>1, <3>2
  <2> QED
    BY <1>3, <1>5, <2>1, <2>2 DEF Parse
<1>6. ASSUME NEW r \in Requests, CheckUserName(r)
      PROVE  [Atomic!Next]_(Atomic!vars)
  <2>1. /\ phase[r] = "checking"
        /\ UNCHANGED <<users, issued, req>>
        /\ req[r].kind = "create"
    BY <1>6 DEF CheckUserName, TypeOK, SlotOK
  <2>2. ASSUME \E v \in Live : users[v].userName = req[r].dto.userName,
               Answer(r, Failure("ConflictException"))
        PROVE  Atomic!Next
    <3>1. AbstractPhase[r] = "pending" /\ Atomic!Refused(r, "ConflictException")
      BY <2>1, <2>2, FailureRefuses
    <3>2. Atomic!Taken(CreateRow(req[r].dto).userName, {})
      BY <2>2, TakenNames DEF CreateRow
    <3>3. Atomic!Create(r)
      BY <2>1, <3>1, <3>2 DEF Atomic!Create
    <3> QED
      BY <1>1, <3>1, <3>3
  <2> QED
    BY <1>3, <1>6, <2>1, <2>2 DEF CheckUserName, HashOrWrite
<1>7. ASSUME NEW r \in Requests, FindById(r)
      PROVE  [Atomic!Next]_(Atomic!vars)
  <2>1. /\ phase[r] = "finding"
        /\ UNCHANGED <<users, issued, req>>
        /\ req[r].kind \in {"get", "replace", "patch", "remove"}
    BY <1>7 DEF FindById, TypeOK, SlotOK
  <2>2. ASSUME users[req[r].id] = Absent, Answer(r, Failure("NotFoundException"))
        PROVE  Atomic!Next
    <3>1. AbstractPhase[r] = "pending" /\ Atomic!Refused(r, "NotFoundException")
      BY <2>1, <2>2, FailureRefuses
    <3>2. Atomic!NotFound(r)
      BY <2>1, <2>2, <3>1 DEF Atomic!NotFound
    <3> QED
      BY <1>1, <3>1, <3>2
  <2>3. ASSUME users[req[r].id] # Absent, req[r].kind = "get",
               Answer(r, Success(200, ToScimUser(req[r].id, users[req[r].id])))
        PROVE  Atomic!Next
    <3>1. /\ AbstractPhase[r] = "pending"
          /\ Atomic!Done(r, Success(200, ToScimUser(req[r].id, users[req[r].id])))
      BY <2>1, <2>3, AnswerEnds
    <3>2. Atomic!Get(r)
      BY <2>1, <2>3, <3>1 DEF Atomic!Get, Atomic!Accepted
    <3> QED
      BY <1>1, <3>1, <3>2
  <2> QED
    BY <1>3, <1>7, <2>1, <2>2, <2>3 DEF FindById, HashOrWrite
<1>8. ASSUME NEW r \in Requests, Hash(r)
      PROVE  [Atomic!Next]_(Atomic!vars)
  BY <1>3, <1>8 DEF Hash
<1>9. ASSUME NEW r \in Requests, InsertUser(r)
      PROVE  [Atomic!Next]_(Atomic!vars)
  <2> DEFINE row == CreateRow(req[r].dto)
  <2>1. phase[r] = "writing" /\ req[r].kind = "create" /\ UNCHANGED req
    BY <1>9 DEF InsertUser
  <2>2. row.userName = req[r].dto.userName
    BY DEF CreateRow
  <2>3. ASSUME \E v \in Live : users[v].userName = req[r].dto.userName,
               Answer(r, Failure("P2002")), UNCHANGED <<users, issued>>
        PROVE  Atomic!Next
    <3>1. AbstractPhase[r] = "pending" /\ Atomic!Refused(r, "ConflictException")
      BY <2>1, <2>3, FailureRefuses, SameFailure
    <3>2. Atomic!Taken(row.userName, {})
      BY <2>2, <2>3, TakenNames
    <3>3. Atomic!Create(r)
      BY <2>1, <3>1, <3>2 DEF Atomic!Create
    <3> QED
      BY <1>1, <3>1, <3>3
  <2>4. ASSUME \A v \in Live : users[v].userName # req[r].dto.userName,
               NEW u \in UserIds \ issued,
               users' = [users EXCEPT ![u] = row], issued' = issued \cup {u},
               Answer(r, Success(201, ToScimUser(u, row)))
        PROVE  Atomic!Next
    <3>1. /\ AbstractPhase[r] = "pending"
          /\ Atomic!Done(r, Success(201, ToScimUser(u, row)))
      BY <2>1, <2>4, AnswerEnds
    <3>2. Atomic!Accepted(r, 201, ToScimUser(u, row))
      BY <3>1 DEF Atomic!Accepted
    <3>3. ~Atomic!Taken(row.userName, {})
      BY <2>2, <2>4, TakenNames
    <3>4. Atomic!Create(r)
      BY <2>1, <2>4, <3>2, <3>3 DEF Atomic!Create
    <3> QED
      BY <1>1, <3>1, <3>4
  <2> QED
    BY <1>9, <2>3, <2>4 DEF InsertUser, FreshIds
<1>10. ASSUME NEW r \in Requests, UpdateUser(r)
       PROVE  [Atomic!Next]_(Atomic!vars)
  <2> DEFINE u   == req[r].id
             new == UpdatedRow(req[r], users[u])
  <2>1. /\ phase[r] = "writing"
        /\ req[r].kind \in {"replace", "patch"}
        /\ UNCHANGED <<issued, req>>
    BY <1>10 DEF UpdateUser
  <2>2. ASSUME Malformed(req[r]), Answer(r, Failure("PrismaClientValidationError")),
               UNCHANGED users
        PROVE  Atomic!Next
    <3>1. AbstractPhase[r] = "pending" /\ Atomic!Refused(r, "TypeError")
      BY <2>1, <2>2, FailureRefuses, SameFailure
    <3>2. Atomic!RefuseMalformed(r)
      BY <2>2, <3>1 DEF Atomic!RefuseMalformed, Malformed
    <3> QED
      BY <1>1, <3>1, <3>2
  <2>3. ASSUME users[u] = Absent, Answer(r, Failure("P2025")), UNCHANGED users
        PROVE  Atomic!Next
    <3>1. AbstractPhase[r] = "pending" /\ Atomic!Refused(r, "NotFoundException")
      BY <2>1, <2>3, FailureRefuses, SameFailure
    <3>2. Atomic!NotFound(r)
      BY <2>1, <2>3, <3>1 DEF Atomic!NotFound
    <3> QED
      BY <1>1, <3>1, <3>2
  <2>4. ASSUME ~Malformed(req[r]), users[u] # Absent, ~NameFree(u, new.userName),
               Answer(r, Failure("P2002")), UNCHANGED users
        PROVE  Atomic!Next
    <3>1. AbstractPhase[r] = "pending" /\ Atomic!Refused(r, "ConflictException")
      BY <2>1, <2>4, FailureRefuses, SameFailure
    <3>2. Atomic!Update(r)
      BY <2>1, <2>4, <3>1, TakenNames DEF Atomic!Update
    <3> QED
      BY <1>1, <3>1, <3>2
  <2>5. ASSUME ~Malformed(req[r]), users[u] # Absent, NameFree(u, new.userName),
               users' = [users EXCEPT ![u] = new],
               Answer(r, Success(200, ToScimUser(u, new)))
        PROVE  Atomic!Next
    <3>1. /\ AbstractPhase[r] = "pending"
          /\ Atomic!Done(r, Success(200, ToScimUser(u, new)))
      BY <2>1, <2>5, AnswerEnds
    <3>2. Atomic!Update(r)
      BY <2>1, <2>5, <3>1, TakenNames DEF Atomic!Update, Atomic!Accepted
    <3> QED
      BY <1>1, <3>1, <3>2
  <2> QED
    BY <1>10, <2>2, <2>3, <2>4, <2>5 DEF UpdateUser
<1>11. ASSUME NEW r \in Requests, AbortRename(r)
       PROVE  [Atomic!Next]_(Atomic!vars)
  <2>1. /\ NameCycle(r)
        /\ Answer(r, Failure("P2034"))
        /\ UNCHANGED <<users, issued, req>>
    BY <1>11 DEF AbortRename
  <2>2. PICK C \in SUBSET {t \in Requests : Renames(t)} :
          r \in C /\ \A a \in C : \E b \in C : WaitsForNameOf(a, b)
    BY <2>1 DEF NameCycle
  <2>3. PICK s \in C : WaitsForNameOf(r, s)
    BY <2>2
  <2>4. Renames(r) /\ Renames(s) /\ s # r
    BY <2>2, <2>3 DEF Renames, WaitsForNameOf
  <2>5. AbstractPhase[r] = "pending" /\ Atomic!Refused(r, "P2034")
    BY <2>1, <2>4, FailureRefuses DEF Renames
  <2>6. AbstractPhase[s] = "pending"
    BY <2>2, <2>3, <2>4 DEF Renames, AbstractPhase
  <2>7. Atomic!LoseToAnother(r)
    BY <2>2, <2>4, <2>5, <2>6 DEF Renames, Atomic!LoseToAnother
  <2> QED
    BY <1>1, <2>5, <2>7
<1>12. ASSUME NEW r \in Requests, DeleteUser(r)
       PROVE  [Atomic!Next]_(Atomic!vars)
  <2>1. phase[r] = "writing" /\ req[r].kind = "remove" /\ UNCHANGED <<issued, req>>
    BY <1>12 DEF DeleteUser
  <2>2. ASSUME users[req[r].id] = Absent, Answer(r, Failure("P2025")), UNCHANGED users
        PROVE  Atomic!Next
    <3>1. AbstractPhase[r] = "pending" /\ Atomic!Refused(r, "NotFoundException")
      BY <2>1, <2>2, FailureRefuses, SameFailure
    <3>2. Atomic!NotFound(r)
      BY <2>1, <2>2, <3>1 DEF Atomic!NotFound
    <3> QED
      BY <1>1, <3>1, <3>2
  <2>3. ASSUME users[req[r].id] # Absent, users' = [users EXCEPT ![req[r].id] = Absent],
               Answer(r, Success(204, NoBody))
        PROVE  Atomic!Next
    <3>1. AbstractPhase[r] = "pending" /\ Atomic!Done(r, Success(204, NoBody))
      BY <2>1, <2>3, AnswerEnds
    <3>2. Atomic!Remove(r)
      BY <2>1, <2>3, <3>1 DEF Atomic!Remove, Atomic!Accepted
    <3> QED
      BY <1>1, <3>1, <3>2
  <2> QED
    BY <1>12, <2>2, <2>3 DEF DeleteUser
<1>13. ASSUME NEW r \in Requests, AbortDelete(r)
       PROVE  [Atomic!Next]_(Atomic!vars)
  <2>1. AbstractPhase[r] = "pending" /\ Atomic!Refused(r, "P2034")
    BY <1>13, FailureRefuses DEF AbortDelete
  <2>2. Atomic!LoseToAnother(r)
    BY <1>13, <2>1 DEF AbortDelete, Atomic!LoseToAnother
  <2> QED
    BY <1>1, <2>1, <2>2
<1>14. ASSUME ClearData
       PROVE  Atomic!Next
  <2>1. Atomic!Clear
    BY <1>14 DEF ClearData, Atomic!Clear, AbstractPhase
  <2> QED
    BY <2>1 DEF Atomic!Next
<1>15. ASSUME NEW r \in Requests, Respond(r)
       PROVE  Atomic!Next
  <2>1. Atomic!Respond(r)
    BY <1>15 DEF Respond, Atomic!Respond, Atomic!Forget, AbstractPhase, TypeOK
  <2> QED
    BY <2>1 DEF Atomic!Next
<1>16. ASSUME Crash
       PROVE  Atomic!Next
  <2>1. Atomic!Crash
    BY <1>16 DEF Crash, Atomic!Crash, Atomic!Forget, AbstractPhase
  <2> QED
    BY <2>1 DEF Atomic!Next
<1>17. CASE UNCHANGED vars
  BY <1>2, <1>17 DEF vars, AbstractPhase
<1> QED
  BY <1>4, <1>5, <1>6, <1>7, <1>8, <1>9, <1>10, <1>11, <1>12, <1>15, <1>16, <1>17,
     <1>13, <1>14
     DEF Next, Handle

(* /Users is atomic: however its handlers are interleaved, lose races or   *)
(* die, the clients see operations that happen one at a time.              *)
THEOREM UsersAreAtomic == Spec => AtomicSpec
<1>1. Spec => Atomic!Init /\ [][Atomic!Next]_(Atomic!vars)
  BY InitRefines, StepRefines, TypeCorrect, PTL DEF Spec
<1> QED
  BY <1>1 DEF AtomicSpec, Atomic!Spec
===============================================================================
