------------------------------- MODULE UserRows -------------------------------
(***************************************************************************)
(* The row of table scim_users (prisma/schema.prisma, model ScimUser), the *)
(* request body CreateScimUserDto / UpdateScimUserDto, the writes that     *)
(* UsersService makes of it (src/scim/users/users.service.ts) and the SCIM *)
(* answer made from a row (users.mapper.ts).                               *)
(*                                                                         *)
(* id, createdAt, updatedAt and the unused column raw are left out: the    *)
(* table is a function of the id, and no property is about the dates.      *)
(***************************************************************************)
EXTENDS UserPatch

(* A bcrypt hash, abstracted to the password it accepts. *)
BcryptHash(password) == <<"bcrypt", password>>
PasswordHashes       == {"bcrypt"} \X STRING

Row == [userName     : STRING,
        active       : BOOLEAN,
        optional     : [OptionalColumns -> STRING \cup {Null}],
        passwordHash : PasswordHashes \cup {Null}]

(* A body the ValidationPipe lets through.  @IsOptional() accepts an       *)
(* explicit null as well as an absent attribute; optional.email stands for *)
(* emails?.[0]?.value.  active and password have no Null of their own: the *)
(* code treats null as absent (active ?? true; dto.password ? ... : ...).  *)
UserDto == [userName : STRING,
            active   : BOOLEAN \cup {Undefined},
            optional : [OptionalColumns -> STRING \cup {Undefined, Null}],
            password : STRING \cup {Undefined}]

HasPassword(dto)   == dto.password \notin {Undefined, ""}
ActiveAsGiven(dto) == dto.active  \* variant: without ?? true
ActiveOrTrue(dto)  == IF dto.active = Undefined THEN TRUE ELSE dto.active

(* Prisma: a column given undefined is not written... *)
Written(new, old) == IF new = Undefined THEN old ELSE new

(* ...and one that is not written by an INSERT is null. *)
CreateRow(dto) ==
  [userName     |-> dto.userName,
   active       |-> ActiveOrTrue(dto),
   optional     |-> [c \in OptionalColumns |-> Written(dto.optional[c], Null)],
   passwordHash |-> IF HasPassword(dto) THEN BcryptHash(dto.password) ELSE Null]

(* Variant: passwordHash is written as create writes it.                   *)
ReplaceRowAndHash(row, dto) ==
  [CreateRow(dto) EXCEPT
     !.optional = [c \in OptionalColumns |-> Written(dto.optional[c], row.optional[c])]]

ReplaceRow(row, dto) ==
  [userName     |-> dto.userName,
   active       |-> ActiveOrTrue(dto),
   optional     |-> [c \in OptionalColumns |-> Written(dto.optional[c], row.optional[c])],
   passwordHash |-> IF HasPassword(dto) THEN BcryptHash(dto.password) ELSE row.passwordHash]

(* Variant: a column the patch does not name is set to null.               *)
PatchRowNulling(row, fields) ==
  [row EXCEPT !.optional = [c \in OptionalColumns |-> Written(fields.optional[c], Null)]]

PatchRow(row, fields) ==
  [userName     |-> Written(fields.userName, row.userName),
   active       |-> Written(fields.active, row.active),
   optional     |-> [c \in OptionalColumns |-> Written(fields.optional[c], row.optional[c])],
   passwordHash |-> row.passwordHash]

(* Prisma's own check of the arguments of update, made before any SQL. *)
FieldsValid(fields) == \A c \in OptionalColumns : fields.optional[c] # IllTyped

(* toScimUser: a null column is left out of the answer (undefined), and so *)
(* is an empty e-mail; passwordHash is never part of it.                   *)
ToScimUser(id, row) ==
  [id       |-> id,
   userName |-> row.userName,
   active   |-> row.active,
   optional |-> [c \in OptionalColumns |->
                  IF row.optional[c] = Null \/ (c = "email" /\ row.optional[c] = "")
                  THEN Undefined ELSE row.optional[c]]]

ScimUser(Ids) == [id       : Ids,
                  userName : STRING,
                  active   : BOOLEAN,
                  optional : [OptionalColumns -> STRING \cup {Undefined}]]
===============================================================================
