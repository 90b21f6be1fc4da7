------------------------------ MODULE MCScimUsers ------------------------------
(***************************************************************************)
(* Bodies and operations for the runs of ScimUsers.                        *)
(***************************************************************************)
EXTENDS ScimUsers

Optional(externalId, givenName, familyName, email) ==
  [externalId |-> externalId, givenName |-> givenName,
   familyName |-> familyName, email |-> email]

(* A body with little in it, and a full one that takes the user out of     *)
(* service and sets a password.                                            *)
Ann == [userName |-> "ann", active |-> Undefined, password |-> Undefined,
        optional |-> Optional(Undefined, Undefined, Null, Undefined)]
Bob == [userName |-> "bob", active |-> FALSE, password |-> "s3cret",
        optional |-> Optional(Undefined, "Bob", "Roe", "bob@x")]

Dtos == {Ann, Bob}

Op(op, path, value) == [op |-> op, path |-> path, value |-> value]
Emails(first)       == JObject([emails |-> JArray(<<first>>)])

(* A null and a remove, a name Prisma refuses, and two that throw: on an   *)
(* e-mail that is null, and on an operation that is.                       *)
DropName   == <<Op("replace", "", JObject([name |-> JObject([givenName |-> JNull])])),
                Op("remove", "externalId", JUndefined)>>
NumberName == <<Op("replace", "", JObject([name |-> JObject([givenName |-> JNumber(5)])]))>>
NullEmail  == <<Op("add", "", Emails(JNull))>>

NullOperation == <<JNull>>

FewPatches    == {DropName, NullEmail, NullOperation}
IllTypedPatch == {NumberName}
NoPatches     == {}

Values == WithParts(WithParts(WithParts(WithParts(
            {JUndefined} \cup
            UNION {{b[i].value : i \in DOMAIN b} : b \in {DropName, NumberName, NullEmail}}))))

(* PUT is described as a full replacement (users.controller.ts:78): the    *)
(* answer to one shows the attributes of its body and no other.            *)
PutReplacesTheWholeUser ==
  \A r \in Requests :
    phase[r] = "answered" /\ req[r].kind = "replace" /\ answer[r].status = 200
      => answer[r].body.optional =
           ToScimUser(req[r].id, CreateRow(req[r].dto)).optional

(* Prisma's errors surface as SCIM answers "instead of a generic 500"      *)
(* (scim-exception.filter.ts:12-17): stated where no PATCH makes the       *)
(* server's own code throw.                                                *)
PrismaErrorsAreNot500 ==
  \A r \in Requests : phase[r] = "answered" => answer[r].status # 500
===============================================================================
