------------------------------- MODULE UserPatch -------------------------------
(***************************************************************************)
(* applyUserPatch (src/scim/users/apply-user-patch.ts): what the           *)
(* Operations of a PATCH /Users/:id say about each column of the user.     *)
(*                                                                         *)
(* "op" is taken after toLowerCase().  A column the patch leaves alone is  *)
(* Undefined, one it clears is Null, and one it gives a value that is      *)
(* neither a string nor null is IllTyped: Prisma refuses it later.         *)
(***************************************************************************)
EXTENDS JsonValues, SequencesExt

OptionalColumns == {"externalId", "givenName", "familyName", "email"}

-------------------------------------------------------------------------------
(* UserPatchFields: what the patch says of each column. *)

UserPatchFields ==
  [active   : BOOLEAN \cup {Undefined},
   userName : STRING \cup {Undefined},
   optional : [OptionalColumns -> STRING \cup {Undefined, Null, IllTyped}]]

NoFields == [active   |-> Undefined,
             userName |-> Undefined,
             optional |-> [c \in OptionalColumns |-> Undefined]]

SetOptionalOnce(fields, c, v) ==  \* variant: the first operation wins
  IF fields.optional[c] = Undefined THEN [fields EXCEPT !.optional[c] = v] ELSE fields
SetOptional(fields, c, v) == [fields EXCEPT !.optional[c] = v]

(* v == null: what ?? gives a replacement for. *)
Nullish(v) == v.type \in {"undefined", "null"}

(* String(value[0].value ?? value[0]); reading .value of null throws. *)
EmailOfArray(v) ==
  LET first == v.val[1]
      value == Prop(first, "value")
  IN  ToText(IF Nullish(value) THEN first ELSE value)

NamePath   == [givenName |-> "name.givenName", familyName |-> "name.familyName"]
EmailPaths == {"emails", "emails[primary eq true].value"}

ApplyValueForPath(fields, path, v) ==
  CASE path = "active"            -> [fields EXCEPT !.active = ToBoolean(v)]
    [] path = "userName"          -> [fields EXCEPT !.userName = ToText(v)]
    [] path = NamePath.givenName  -> SetOptional(fields, "givenName", ToText(v))
    [] path = NamePath.familyName -> SetOptional(fields, "familyName", ToText(v))
    [] path = "externalId"        -> SetOptional(fields, "externalId", ToText(v))
    [] path \in EmailPaths /\ NonEmptyArray(v) ->
         IF v.val[1] = JNull
         THEN Thrown
         ELSE SetOptional(fields, "email", EmailOfArray(v))
    [] path \in EmailPaths /\ v.type = "string" ->
         SetOptional(fields, "email", v.val)
    [] OTHER -> fields

AssignFromObject(fields, v) ==
  LET name   == Prop(v, "name")
      emails == Prop(v, "emails")
      old    == fields.optional
      sub(k) == IF Prop(name, k) = JUndefined THEN old[k] ELSE AsColumn(Prop(name, k))
  IN  [active   |-> IF Has(v, "active") THEN ToBoolean(v.val["active"]) ELSE fields.active,
       userName |-> IF Has(v, "userName") THEN ToText(v.val["userName"]) ELSE fields.userName,
       optional |-> [c \in OptionalColumns |->
           CASE c = "externalId" -> IF Has(v, c) THEN ToText(v.val[c]) ELSE old[c]
             [] c \in {"givenName", "familyName"} -> sub(c)
             [] c = "email" -> IF NonEmptyArray(emails)
                               THEN AsColumn(Prop(emails.val[1], "value"))
                               ELSE old[c]]]

ApplyValueObject(fields, v) ==
  LET emails == Prop(v, "emails")
  IN  IF NonEmptyArray(emails) /\ emails.val[1] = JNull
      THEN Thrown
      ELSE AssignFromObject(fields, v)

(* Variant: the kind of operation is not looked at.                        *)
ApplyAnyOperation(fields, o) ==
  IF fields = Thrown \/ o = JNull THEN Thrown
  ELSE IF o.path # "" THEN ApplyValueForPath(fields, o.path, o.value)
  ELSE IF o.value.type = "object" THEN ApplyValueObject(fields, o.value)
  ELSE fields

(* One turn of the loop: an operation has op, path ("" when it has none)   *)
(* and value; null has no op, and reading it throws.  Once a turn throws,  *)
(* the loop is over.                                                       *)
ApplyOperation(fields, o) ==
  IF fields = Thrown \/ o = JNull
  THEN Thrown
  ELSE IF o.op \notin {"replace", "add"}
  THEN fields
  ELSE IF o.path # ""
  THEN ApplyValueForPath(fields, o.path, o.value)
  ELSE IF o.value.type = "object"
  THEN ApplyValueObject(fields, o.value)
  ELSE fields

ApplyUserPatch(operations) == FoldLeft(ApplyOperation, NoFields, operations)
===============================================================================
