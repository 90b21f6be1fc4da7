------------------------------ MODULE PatchLists ------------------------------
(***************************************************************************)
(* applyUserPatch, and applyGroupPatch with the order in which             *)
(* GroupsService.patch carries its result out, against what they should    *)
(* do, for every list of operations up to a length: the state is the       *)
(* resource that is patched and the list so far.                           *)
(***************************************************************************)
EXTENDS UserRows, GroupPatch, FiniteSetsExt

CONSTANTS UserOperations,   \* operations of a PATCH of a user,
          GroupOperations,  \* and of a group
          Rows,             \* rows that are patched
          MaxOperations     \* bound on the length of operations

ASSUME OperationsAssumption ==
  /\ UserOperations \subseteq OrNull(Operation)
  /\ GroupOperations \subseteq OrNull(GroupOperation)
ASSUME RowsAssumption == Rows \subseteq Row

(* The constants that stand for "none" are none of the things they are     *)
(* compared with.                                                          *)
ASSUME SentinelsAssumption ==
  /\ Undefined \notin STRING \cup BOOLEAN \cup {Null, IllTyped}
  /\ Null \notin STRING
  /\ IllTyped \notin STRING \cup {Null}
  /\ Thrown \notin UserPatchFields \cup GroupPatchResult

VARIABLES resource, operations

(* The operations of the list. *)
Operations == IF resource = "user" THEN UserOperations ELSE GroupOperations

Init ==
  /\ resource \in {"user", "group"}
  /\ operations = <<>>

AddOperation ==
  /\ Len(operations) < MaxOperations
  /\ \E o \in Operations : operations' = Append(operations, o)
  /\ UNCHANGED resource

Next == AddOperation

Spec == Init /\ [][Next]_<<resource, operations>>

-------------------------------------------------------------------------------
(* What one operation says about one column, written down column by column *)
(* instead of branch by branch: NotSaid, or the value.                     *)

NotSaid == <<>>
Said(v) == <<v>>

InEffect(o) == o.op \in {"add", "replace"}

EmailList(o) ==
  IF o.path = "" THEN Prop(o.value, "emails")
  ELSE IF o.path \in EmailPaths THEN o.value
  ELSE JUndefined

PlainColumns == {"active", "userName", "externalId"}
NameColumns  == {"givenName", "familyName"}
Columns      == {"active", "userName"} \cup OptionalColumns

SaysOf(o, c) ==
  LET as(v) == IF c = "active" THEN ToBoolean(v) ELSE ToText(v)
      name  == Prop(Prop(o.value, "name"), c)
      first == EmailList(o).val[1]
      email == Prop(first, "value")
  IN  CASE ~InEffect(o) -> NotSaid
        [] InEffect(o) /\ c \in PlainColumns /\ o.path = c -> Said(as(o.value))
        [] InEffect(o) /\ c \in PlainColumns /\ o.path = "" /\ Has(o.value, c) ->
             Said(as(Prop(o.value, c)))
        [] InEffect(o) /\ c \in NameColumns /\ o.path = NamePath[c] -> Said(ToText(o.value))
        [] InEffect(o) /\ c \in NameColumns /\ o.path = "" /\ name # JUndefined ->
             Said(AsColumn(name))
        [] InEffect(o) /\ c = "email" /\ NonEmptyArray(EmailList(o)) ->
             Said(CASE o.path = "" -> AsColumn(email)
                    [] o.path # "" /\ Nullish(email)  -> ToText(first)
                    [] o.path # "" /\ ~Nullish(email) -> ToText(email))
        [] InEffect(o) /\ c = "email" /\ o.path # "" /\ EmailList(o).type = "string" ->
             Said(EmailList(o).val)
        [] OTHER -> NotSaid

(* What is made of a column. *)
Got(fields, c) ==
  CASE c = "active" -> fields.active
    [] c = "userName" -> fields.userName
    [] c \in OptionalColumns -> fields.optional[c]

TakesNullEmail(o) == InEffect(o) /\ NonEmptyArray(EmailList(o)) /\ EmailList(o).val[1] = JNull

(* The handler fails on an operation that is null and on a list of e-mails *)
(* that begins with null, wherever in the request they are, and on nothing *)
(* else that passes the ValidationPipe (apply-user-patch.ts:32, 53, 61).   *)
ThrowsOnlyOnNulls ==
  resource = "user" =>
    (ApplyUserPatch(operations) = Thrown
       <=> \E i \in DOMAIN operations : operations[i] = JNull \/ TakesNullEmail(operations[i]))

(* Every column gets what the last operation that speaks of it says, in    *)
(* the order of the request, whichever of the forms (path, whole value,    *)
(* nested name, list of e-mails) the operations use; one that nobody       *)
(* speaks of stays as it is (apply-user-patch.ts:57-72).                   *)
LastOperationWins ==
  resource = "user" /\ ApplyUserPatch(operations) # Thrown =>
    \A c \in Columns :
      LET speaking == {i \in DOMAIN operations : SaysOf(operations[i], c) # NotSaid}
          got      == Got(ApplyUserPatch(operations), c)
      IN  IF speaking = {}
          THEN got = Undefined
          ELSE Said(got) = SaysOf(operations[Max(speaking)], c)

UserAccepted(ops) == ApplyUserPatch(ops) # Thrown /\ FieldsValid(ApplyUserPatch(ops))

(* An operation that gives e-mails without a value takes back the e-mail   *)
(* of the operations before it, in the same request only (line 53).        *)
TakesBackEmail(o) ==
  InEffect(o) /\ o.path = "" /\ SaysOf(o, "email") = Said(Undefined)

(* Operations sent in two PATCHes do what they do in one, wherever they    *)
(* are split, but for an e-mail that is taken back                         *)
(* (apply-user-patch.ts:57-72, users.service.ts:73-79).                    *)
SplittingIsHarmless ==
  resource = "user" /\ UserAccepted(operations) =>
    \A row \in Rows, k \in 0..Len(operations) :
      LET first  == ApplyUserPatch(SubSeq(operations, 1, k))
          second == ApplyUserPatch(SubSeq(operations, k + 1, Len(operations)))
          whole  == PatchRow(row, ApplyUserPatch(operations))
          split  == PatchRow(PatchRow(row, first), second)
          back   == \E i \in k + 1..Len(operations) : TakesBackEmail(operations[i])
      IN  FieldsValid(first) =>
            \/ split = whole
            \/ back /\ [split EXCEPT !.optional["email"] = whole.optional["email"]] = whole

(* What applyUserPatch returns is what UserPatchFields says.               *)
FieldsTypeOK ==
  resource = "user" => ApplyUserPatch(operations) \in UserPatchFields \cup {Thrown}

-------------------------------------------------------------------------------
(* The operations as a client means them, each on the members there are    *)
(* when its turn comes.                                                    *)

AfterOperation(members, o) == (members \ Removes(o)) \cup Adds(o)

OneByOne(ops, members) == FoldLeft(AfterOperation, members, ops)

Adding(i)   == Adds(operations[i])
Removing(i) == Removes(operations[i])

GroupAccepted ==
  /\ resource = "group"
  /\ ApplyGroupPatch(operations) # Thrown
  /\ PrismaAccepts(ApplyGroupPatch(operations))

(* No operation removes a user that an earlier one adds.                   *)
NothingTakenBack ==
  \A i, j \in DOMAIN operations : i < j => Adding(i) \cap Removing(j) = {}

(* The members after a PATCH are what its operations make one after        *)
(* another, even though the code carries out all removals first            *)
(* (groups.service.ts:93-107), unless a user is added and then removed.    *)
MembersAsIfOneByOne ==
  GroupAccepted /\ NothingTakenBack =>
    \A members \in SUBSET MemberIds :
      PatchedMembers(members, ApplyGroupPatch(operations)) = OneByOne(operations, members)

(* A PATCH that is carried out keeps as members all whom no removal of it  *)
(* names, by value or in a path, and no filter in a removal matches: no    *)
(* operation replaces the list as a whole (apply-group-patch.ts:32-55,     *)
(* groups.service.ts:93-97).                                               *)
OthersStayMembers ==
  GroupAccepted =>
    \A members \in SUBSET MemberIds :
      \A u \in members \ PatchedMembers(members, ApplyGroupPatch(operations)) :
        \E i \in DOMAIN operations : u \in Removing(i)

(* The value of an add or remove of members that cannot be looped over.    *)
NotAList(o) ==
  /\ \/ o.op = "add" /\ o.path \in {"members", ""}
     \/ o.op = "remove" /\ o.path = "members"
  /\ o.value.type \notin {"array", "undefined", "null", "string"}

(* The handler fails on an operation that is null and on members that are  *)
(* not a list, such as the object of an "add" without a path, and on       *)
(* nothing else that passes the ValidationPipe                             *)
(* (apply-group-patch.ts:20, 25-26, 34-35).                                *)
ThrowsOnlyOnNullOrNoList ==
  resource = "group" =>
    (ApplyGroupPatch(operations) = Thrown
       <=> \E i \in DOMAIN operations : operations[i] = JNull \/ NotAList(operations[i]))

(* displayName is what the last replacement of it says.                    *)
LastDisplayName ==
  LET says(o) == /\ o.op = "replace"
                 /\ o.path = "displayName" \/ (o.path = "" /\ Has(o.value, "displayName"))
      saying == {i \in DOMAIN operations : says(operations[i])}
      last   == CHOOSE i \in saying : \A j \in saying : j <= i
      name   == IF operations[last].path = "" THEN operations[last].value.val["displayName"]
                ELSE operations[last].value
  IN  resource = "group" /\ ApplyGroupPatch(operations) # Thrown =>
        ApplyGroupPatch(operations).displayName =
          IF saying = {} THEN Undefined ELSE ToText(name)
===============================================================================
