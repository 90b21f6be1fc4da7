------------------------------ MODULE MCScimGroups ------------------------------
(***************************************************************************)
(* Bodies and operations for the runs of ScimGroups.                       *)
(***************************************************************************)
EXTENDS ScimGroups, TLC

Group(displayName, externalId, users) ==
  [displayName |-> displayName, externalId |-> externalId, members |-> users]

Ops == Group("ops", Undefined, <<"u1">>)

NullMember == Group("ops", Undefined, <<Null>>)

Op(op, path, value) == [op |-> op, path |-> path, value |-> value]
Member(v)           == [type |-> "object", val |-> [value |-> v]]

(* A path that names u1, in the spelling the regular expression takes.     *)
PathOfU1 == "Members[value EQ \"u1\"].display"
Paths    == [p \in {PathOfU1} |-> "u1"]

(* A filter that every member matches. *)
Anybody   == JObject([not |-> JString("")])
IdFilters == [v \in {Anybody} |-> MemberIds]

(* u2 instead of all others, and a new name for the group.                 *)
SwapAndRename == <<Op("add", "members", JArray(<<Member(JString("u2"))>>)),
                   Op("remove", "members", JArray(<<Member(Anybody)>>)),
                   Op("replace", "displayName", JString("dev"))>>
RenameToDev == <<Op("replace", "displayName", JString("dev")),
                 Op("remove", PathOfU1, JUndefined)>>
(* Operations that are null, that are no list, that Prisma refuses, and    *)
(* none at all.                                                            *)
NullOperation == <<JNull>>
NotAList      == <<Op("add", "", JObject([members |-> JArray(<<Member(JString("u1"))>>)]))>>
AddAnybody    == <<Op("add", "members", JArray(<<Member(Anybody)>>))>>
NumberId      == <<Op("remove", "members", JArray(<<Member(JNumber(1))>>))>>
Nothing       == <<>>

Patches    == {SwapAndRename}
OddPatches == {RenameToDev, NullOperation, NotAList, AddAnybody, NumberId, Nothing}

OpsOnly == {Ops}
AlsoNullMember == {Ops, NullMember}

(* For the runs of PUT beside PUT, and of reads.                           *)
Ops2    == Group("ops", Undefined, <<"u2">>)
TwoPuts == {Ops, Ops2}
NoPatches == {}

Values == WithParts(WithParts(WithParts(WithParts(
            {JUndefined} \cup {JString(u) : u \in MemberIds}
              \cup UNION {{o.value : o \in Elements(b) \ {JNull}} : b \in Patches \cup OddPatches}))))

Interchangeable == Permutations(Requests) \cup Permutations(GroupIds)

(* PUT is described as a full replacement (groups.controller.ts:78): when  *)
(* it takes effect, the members of the group are those of its body.        *)
PutReplacesTheMembers ==
  [][\A r \in Requests :
       Commits(r) /\ req[r].kind = "replace" /\ tx'[r].committed =>
         {u \in MemberIds : <<req[r].id, u>> \in members'} = Elements(req[r].dto.members)]_vars

(* The exception filter is there so that what Prisma throws is not         *)
(* answered with a generic 500 (scim-exception.filter.ts:12-17): stated of *)
(* the simplest request, a GET of one group.                               *)
ReadsAreNot500 ==
  \A r \in Requests :
    phase[r] = "answered" /\ req[r].kind = "get" => answer[r].status # 500
===============================================================================
