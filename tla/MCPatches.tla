------------------------------- MODULE MCPatches -------------------------------
(***************************************************************************)
(* Operations for the run of PatchLists.                                   *)
(***************************************************************************)
EXTENDS PatchLists

Users == {"u1", "u2"}

Op(op, path, value) == [op |-> op, path |-> path, value |-> value]
Whole(value)        == Op("replace", "", value)
Emails(first)       == JObject([emails |-> JArray(<<first>>)])
Member(u)           == JObject([value |-> JString(u)])
MemberPath(u)       == "members[value eq \"" \o u \o "\"]"
DisplayPath         == "MEMBERS[Value EQ \"u1\"].display"

(* The regular expression ignores case and what follows the match.         *)
Paths == [p \in {MemberPath("u1"), MemberPath("u2"), DisplayPath} |->
            IF p = MemberPath("u2") THEN "u2" ELSE "u1"]

(* Filters that match everybody and one user; an upsert takes neither.     *)
NotEmpty  == JObject([not |-> JString("")])
EqualsU2  == JObject([equals |-> JString("u2")])
IdFilters == [v \in {NotEmpty, EqualsU2} |-> IF v = NotEmpty THEN Users ELSE {"u2"}]

(* Operations as Okta sends them, and those of other clients: values of    *)
(* other types, lists without a value, operations the code leaves alone.   *)
UserOps ==
  {Op("replace", "active", v) : v \in {JBoolean(FALSE), JString("False"), JUndefined}}
  \cup
  {Op("replace", "userName", JString("ann")),
   Op("add", "name.givenName", JNull),
   Op("replace", "externalId", JNumber(7)),
   Op("replace", "emails", JArray(<<JObject([value |-> JString("a@x")])>>)),
   Op("add", "emails[primary eq true].value", JString("b@x")),
   Op("replace", "emails", JArray(<<JNull>>)),
   Op("replace", "title", JString("CTO")),
   Op("remove", "externalId", JUndefined),
   Op("remove", "emails", JArray(<<JNull>>))}
  \cup
  {Whole(v) : v \in {JObject([active |-> JBoolean(TRUE)]),
                     JObject([userName |-> JNumber(5),
                              name |-> JObject([givenName |-> JString("Bob"),
                                                familyName |-> JNumber(3)])]),
                     JObject([externalId |-> JString("x1"),
                              name |-> JObject([familyName |-> JNull])]),
                     JObject([name |-> JObject([givenName |-> JObject([set |-> JString("Al")]),
                                                familyName |-> JObject([set |-> JNumber(1)])])]),
                     Emails(JObject([value |-> JString("c@x")])),
                     Emails(JObject([type |-> JString("work")])),
                     JObject([emails |-> JArray(<<>>)]),
                     Emails(JNull),
                     JString("text")}}
  \cup {JNull}

(* Operations on members of every shape, and on the other attributes.      *)
GroupOps ==
       {Op("add", "members", JArray(<<Member(u)>>)) : u \in Users}
  \cup {Op("remove", "members", JArray(<<Member("u1"), JNull, JObject([display |-> JString("x")])>>)),
        Op("remove", "members", JUndefined),
        Op("remove", "members", JArray(<<JObject([value |-> NotEmpty])>>)),
        Op("remove", "members", JArray(<<JObject([value |-> EqualsU2])>>)),
        Op("remove", "members", JArray(<<JObject([value |-> JObject([display |-> JString("x")])])>>)),
        Op("add", "members", JArray(<<JObject([value |-> NotEmpty])>>)),
        Op("remove", MemberPath("u2"), JUndefined),
        Op("remove", DisplayPath, JUndefined),
        Op("remove", "displayName", JUndefined),
        Op("remove", "members", JObject([value |-> JString("u1")])),
        Op("add", "", JArray(<<Member("u1"), Member("u2")>>)),
        Op("add", "", JObject([members |-> JArray(<<Member("u2")>>)])),
        Op("add", "members", JArray(<<JObject([value |-> JNumber(1)])>>)),
        Op("add", "members", JString("u1")),
        Op("add", "displayName", JString("Ops")),
        Op("replace", "displayName", JString("Dev")),
        Op("replace", "", JObject([displayName |-> JNumber(1), externalId |-> JString("x")])),
        Op("replace", "members", JArray(<<Member("u1")>>)),
        JNull}

Values == WithParts(WithParts(WithParts(WithParts(
            {JUndefined} \cup {o.value : o \in (UserOps \cup GroupOps) \ {JNull}}))))

(* A row to patch. *)
SomeRow == [userName |-> "zoe", active |-> TRUE, passwordHash |-> Null,
            optional |-> [c \in OptionalColumns |-> "old"]]
OneRow == {SomeRow}
===============================================================================
