------------------------------- MODULE GroupPatch -------------------------------
(***************************************************************************)
(* applyGroupPatch (src/scim/groups/apply-group-patch.ts): what the        *)
(* Operations of a PATCH /Groups/:id say about the group and its members.  *)
(* "op" is taken after toLowerCase().                                      *)
(***************************************************************************)
EXTENDS JsonValues, SequencesExt

CONSTANTS MemberIds,  \* ids that bodies name as members
          PathIds,    \* of each path in which /members\[value eq "([^"]+)"\]/i
                      \*   finds a match, the id
          Filters     \* of each object that Prisma takes for a filter of ids,
                      \*   such as { not: "" }, the MemberIds it matches

Elements(s) == {s[i] : i \in DOMAIN s}

GroupPatchResult ==
  [displayName     : STRING \cup {Undefined},
   externalId      : STRING \cup {Undefined},
   addMemberIds    : Seq(Json),
   removeMemberIds : Seq(Json)]

NoGroupChange == [displayName     |-> Undefined, externalId      |-> Undefined,
                  addMemberIds    |-> <<>>,      removeMemberIds |-> <<>>]

ASSUME MemberIdsAssumption ==
  /\ MemberIds \subseteq STRING \ {""}
  /\ \A u \in MemberIds : JString(u) \in Json
ASSUME PathIdsAssumption ==
  /\ PathIds \in [DOMAIN PathIds -> MemberIds]
  /\ DOMAIN PathIds \subseteq STRING \ {"members", ""}
ASSUME FiltersAssumption ==
  /\ Filters \in [DOMAIN Filters -> SUBSET MemberIds]
  /\ \A v \in DOMAIN Filters : v.type = "object"

(* Variant: without ?? [].                                                 *)
IterableAsGiven(v) == v.type \in {"array", "string"}

(* (operation.value ?? []) can be looped over; a string is looped over by  *)
(* its characters, which have no .value.                                   *)
Iterable(v) == v.type \in {"undefined", "null", "array", "string"}

(* member?.value, of whatever type, where it is truthy. *)
PushId(ids, member) ==
  LET v == Prop(member, "value") IN IF ToBoolean(v) THEN Append(ids, v) ELSE ids

IdsOf(v) == IF v.type = "array" THEN FoldLeft(PushId, <<>>, v.val) ELSE <<>>

(* The texts among them are the ids that bodies name. *)
GroupOperation ==
  {o \in Operation : \A v \in Elements(IdsOf(o.value)) : v.type = "string" => v.val \in MemberIds}

AddMembers(result, v) ==
  IF Iterable(v)
  THEN [result EXCEPT !.addMemberIds = @ \o IdsOf(v)]
  ELSE Thrown

(* Variant: without a value, the whole list is removed.                    *)
RemoveMembersOrAll(result, path, v) ==
  [result EXCEPT !.removeMemberIds =
     @ \o (IF path = "members" /\ v.type = "undefined"
            THEN SetToSeq({JString(u) : u \in MemberIds}) ELSE IdsOf(v))]

RemoveMembers(result, path, v) ==
  CASE path = "members" /\ ~Iterable(v) -> Thrown
    [] path = "members" /\ Iterable(v)  -> [result EXCEPT !.removeMemberIds = @ \o IdsOf(v)]
    [] path \in DOMAIN PathIds ->
         [result EXCEPT !.removeMemberIds = Append(@, JString(PathIds[path]))]
    [] OTHER -> result

(* Variant: a displayName that is set stays.                               *)
ReplaceAttributesOnce(result, path, v) ==
  [result EXCEPT !.displayName = IF @ = Undefined /\ path = "displayName" THEN ToText(v) ELSE @]

ReplaceAttributes(result, path, v) ==
  CASE path = "displayName" -> [result EXCEPT !.displayName = ToText(v)]
    [] path = "" /\ v.type = "object" ->
         [result EXCEPT
            !.displayName = IF Has(v, "displayName") THEN ToText(v.val["displayName"]) ELSE @,
            !.externalId  = IF Has(v, "externalId")  THEN ToText(v.val["externalId"])  ELSE @]
    [] OTHER -> result

(* What an operation that is not null adds to the result. *)
TakeOperation(result, o) ==
  CASE o.op = "add" /\ o.path \in {"members", ""} -> AddMembers(result, o.value)
    [] o.op = "remove"  -> RemoveMembers(result, o.path, o.value)
    [] o.op = "replace" -> ReplaceAttributes(result, o.path, o.value)
    [] OTHER -> result

(* One turn of the loop: null has no op, and reading it throws. *)
ApplyGroupOperation(result, o) ==
  IF result = Thrown \/ o = JNull THEN Thrown ELSE TakeOperation(result, o)

ApplyGroupPatch(operations) == FoldLeft(ApplyGroupOperation, NoGroupChange, operations)

-------------------------------------------------------------------------------
(* What GroupsService.patch does with the result, in its order: the        *)
(* removals before the additions, whatever the order of the operations.    *)

(* deleteMany({ where: { userId: v } }): a string is the id itself, and an *)
(* object can be a filter of any number of them.                           *)
Matching(v) ==
  CASE v.type = "string"    -> {v.val}
    [] v \in DOMAIN Filters -> Filters[v]
    [] OTHER                -> {}

(* An upsert takes a string only. *)
PrismaAccepts(result) ==
  /\ \A v \in Elements(result.addMemberIds)    : v.type = "string"
  /\ \A v \in Elements(result.removeMemberIds) : v.type = "string" \/ v \in DOMAIN Filters

AddedIds(result)   == {v.val : v \in {w \in Elements(result.addMemberIds) : w.type = "string"}}
RemovedIds(result) == UNION {Matching(v) : v \in Elements(result.removeMemberIds)}

(* Variant: the additions first.                                           *)
PatchedMembersAddingFirst(members, result) == (members \cup AddedIds(result)) \ RemovedIds(result)

PatchedMembers(members, result) == (members \ RemovedIds(result)) \cup AddedIds(result)

-------------------------------------------------------------------------------
(* What one operation asks for, read off it alone. *)

MemberValues(o) ==
  IF o.value.type = "array" THEN {Prop(m, "value") : m \in Elements(o.value.val)} ELSE {}

Adds(o) ==
  {u \in MemberIds : /\ o.op = "add" /\ o.path \in {"members", ""}
                     /\ \E v \in MemberValues(o) : v.type = "string" /\ v.val = u}

(* A member leaves when it is named, or when a filter matches it. *)
Removes(o) ==
  {u \in MemberIds : /\ o.op = "remove"
                     /\ \/ o.path = "members" /\ \E v \in MemberValues(o) : u \in Matching(v)
                        \/ o.path \in DOMAIN PathIds /\ u = PathIds[o.path]}
===============================================================================
