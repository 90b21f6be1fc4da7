------------------------------ MODULE PatchProofs ------------------------------
(***************************************************************************)
(* Theorems about PatchLists: what applyUserPatch and applyGroupPatch do   *)
(* with lists of operations of any length.                                 *)
(***************************************************************************)
EXTENDS PatchLists, PatchFacts, SequenceTheorems

LEMMA GreatestIs ==
  ASSUME NEW s \in SUBSET Int, NEW x \in s, \A y \in s : x >= y
  PROVE  Max(s) = x
<1> DEFINE is(z) == z \in s /\ \A y \in s : z >= y
<1>1. ASSUME NEW z, is(z) PROVE z = x
  <2>1. z \in Int /\ x \in Int /\ z >= x /\ x >= z
    BY <1>1
  <2> QED
    BY <2>1
<1>2. is(CHOOSE z : is(z))
  <2>1. is(x)
    OBVIOUS
  <2> QED
    BY <2>1
<1>3. (CHOOSE z : is(z)) = x
  BY <1>1, <1>2
<1> QED
  BY <1>3 DEF Max

-------------------------------------------------------------------------------
(* The lists. *)

Lists ==
  /\ resource \in {"user", "group"}
  /\ resource = "user"  => operations \in Seq(OrNull(Operation))
  /\ resource = "group" => operations \in Seq(OrNull(GroupOperation))

LEMMA ListsOfOperations == Spec => []Lists
<1>1. Init => Lists
  BY DEF Init, Lists
<1>2. Lists /\ [Next]_<<resource, operations>> => Lists'
  <2>1. ASSUME Lists, AddOperation PROVE Lists'
    BY <2>1, OperationsAssumption DEF AddOperation, Operations, Lists
  <2>2. ASSUME Lists, UNCHANGED <<resource, operations>> PROVE Lists'
    BY <2>2 DEF Lists
  <2> QED
    BY <2>1, <2>2 DEF Next
<1> QED
  BY <1>1, <1>2, PTL DEF Spec

-------------------------------------------------------------------------------
(* applyUserPatch: what one turn of its loop does. *)

LEMMA ApplyValueForPathThrows ==
  ASSUME NEW fields \in UserPatchFields, NEW path, NEW v \in Json
  PROVE  ApplyValueForPath(fields, path, v) = Thrown <=>
           path \in EmailPaths /\ NonEmptyArray(v) /\ v.val[1] = JNull
<1>1. \A x \in UserPatchFields : x # Thrown
  BY SentinelsAssumption
<1>2. ToText(v) \in ColumnValues /\ ToText(v) \in STRING /\ ToBoolean(v) \in BOOLEAN
  BY ConversionTypes DEF ColumnValues
<1>3. /\ [fields EXCEPT !.active = ToBoolean(v)] \in UserPatchFields
      /\ [fields EXCEPT !.userName = ToText(v)] \in UserPatchFields
  BY <1>2 DEF UserPatchFields
<1>4. \A c : SetOptional(fields, c, ToText(v)) \in UserPatchFields
  BY <1>2, SetOptionalType
<1>5. NonEmptyArray(v) => SetOptional(fields, "email", EmailOfArray(v)) \in UserPatchFields
  BY EmailOfArrayType, SetOptionalType
<1>6. v.type = "string" => SetOptional(fields, "email", v.val) \in UserPatchFields
  BY TypesOfJson, SetOptionalType DEF ColumnValues
<1>7. CASE path \in EmailPaths /\ NonEmptyArray(v)
  <2>1. path \notin {"active", "userName", "externalId", NamePath.givenName, NamePath.familyName}
    BY <1>7 DEF EmailPaths, NamePath
  <2>2. v.type # "string"
    BY <1>7 DEF NonEmptyArray
  <2>3. ApplyValueForPath(fields, path, v) =
          IF v.val[1] = JNull THEN Thrown ELSE SetOptional(fields, "email", EmailOfArray(v))
    BY <1>7, <2>1, <2>2 DEF ApplyValueForPath
  <2> QED
    BY <1>1, <1>5, <1>7, <2>3
<1>8. CASE ~(path \in EmailPaths /\ NonEmptyArray(v))
  <2>1. ApplyValueForPath(fields, path, v) \in UserPatchFields
    BY <1>3, <1>4, <1>6, <1>8 DEF ApplyValueForPath
  <2> QED
    BY <1>1, <1>8, <2>1
<1> QED
  BY <1>7, <1>8

LEMMA ApplyValueObjectThrows ==
  ASSUME NEW fields \in UserPatchFields, NEW v \in Json
  PROVE  ApplyValueObject(fields, v) = Thrown <=>
           NonEmptyArray(Prop(v, "emails")) /\ Prop(v, "emails").val[1] = JNull
<1>1. \A x \in UserPatchFields : x # Thrown
  BY SentinelsAssumption
<1> QED
  BY <1>1, AssignFromObjectType DEF ApplyValueObject

(* What makes a turn throw. *)
Fails(o) == o = JNull \/ TakesNullEmail(o)

LEMMA UserTurnThrows ==
  ASSUME NEW fields \in UserPatchFields, NEW o \in OrNull(Operation)
  PROVE  ApplyOperation(fields, o) = Thrown <=> Fails(o)
<1> SUFFICES ASSUME o # JNull PROVE ApplyOperation(fields, o) = Thrown <=> TakesNullEmail(o)
  BY DEF ApplyOperation, Fails
<1>1. o.value \in Json /\ fields # Thrown
  BY SentinelsAssumption DEF Operation, OrNull
<1>2. CASE ~InEffect(o)
  BY <1>1, <1>2 DEF ApplyOperation, InEffect, TakesNullEmail
<1>3. CASE InEffect(o) /\ o.path = "" /\ o.value.type = "object"
  BY <1>1, <1>3, ApplyValueObjectThrows
     DEF ApplyOperation, InEffect, TakesNullEmail, EmailList
<1>4. CASE InEffect(o) /\ o.path = "" /\ o.value.type # "object"
  BY <1>1, <1>4 DEF ApplyOperation, InEffect, TakesNullEmail, EmailList, Prop, Has,
                    NonEmptyArray, JUndefined
<1>5. CASE InEffect(o) /\ o.path # ""
  BY <1>1, <1>5, ApplyValueForPathThrows
     DEF ApplyOperation, InEffect, TakesNullEmail, EmailList, NonEmptyArray, JUndefined
<1> QED
  BY <1>2, <1>3, <1>4, <1>5

LEMMA UserThrows ==
  ASSUME NEW ops \in Seq(OrNull(Operation))
  PROVE  ApplyUserPatch(ops) = Thrown <=> \E i \in DOMAIN ops : Fails(ops[i])
<1> DEFINE n == Len(ops)
           h == UserRun(ops)
           T == {k \in 0..n : h[k] = Thrown <=> \E i \in 1..k : Fails(ops[i])}
<1>1. n \in Nat /\ DOMAIN ops = 1..n /\ \A k \in 1..n : ops[k] \in OrNull(Operation)
  OBVIOUS
<1>2. /\ h \in [0..n -> UserPatchFields \cup {Thrown}]
      /\ h[0] = NoFields
      /\ \A k \in 1..n : h[k] = ApplyOperation(h[k - 1], ops[k])
      /\ ApplyUserPatch(ops) = h[n]
  BY UserRuns
<1> HIDE DEF h
<1>3. 0 \in T
  <2>1. NoFields # Thrown
    BY SentinelsAssumption, NoFieldsType
  <2> QED
    BY <1>1, <1>2, <2>1
<1>4. ASSUME NEW k \in 0..n - 1, k \in T PROVE k + 1 \in T
  <2>1. k + 1 \in 1..n /\ (k + 1) - 1 = k /\ k + 1 \in 0..n /\ k \in 0..n
        /\ 1..k + 1 = 1..k \cup {k + 1}
    BY <1>1
  <2>2. /\ h[k + 1] = ApplyOperation(h[k], ops[k + 1]) /\ ops[k + 1] \in OrNull(Operation)
        /\ h[k] \in UserPatchFields \cup {Thrown}
    BY <1>1, <1>2, <2>1
  <2>3. h[k] = Thrown => h[k + 1] = Thrown
    BY <2>2 DEF ApplyOperation
  <2>4. h[k] # Thrown => (h[k + 1] = Thrown <=> Fails(ops[k + 1]))
    BY <2>2, UserTurnThrows
  <2>5. h[k] = Thrown <=> \E i \in 1..k : Fails(ops[i])
    BY <1>4
  <2>6. h[k + 1] = Thrown <=> \E i \in 1..k + 1 : Fails(ops[i])
    BY <2>1, <2>3, <2>4, <2>5
  <2> QED
    BY <2>1, <2>6
<1>5. n \in T
  <2>1. 0..n \subseteq T
    <3> HIDE DEF T
    <3> QED
      BY <1>1, <1>3, <1>4, UpTo
  <2> QED
    BY <1>1, <2>1
<1> QED
  BY <1>1, <1>2, <1>5

(* A list with a null in it is not carried out. *)
LEMMA UserAccepts ==
  ASSUME NEW ops \in Seq(OrNull(Operation)), ApplyUserPatch(ops) # Thrown
  PROVE  ops \in Seq(Operation)
<1>1. DOMAIN ops = 1..Len(ops) /\ Len(ops) \in Nat /\ \A i \in 1..Len(ops) : ops[i] \in OrNull(Operation)
  OBVIOUS
<1>2. \A i \in 1..Len(ops) : ops[i] \in Operation
  BY <1>1, UserThrows DEF OrNull, Fails
<1> QED
  BY <1>1, <1>2

(* The handler fails on an operation that is null and on a list of e-mails *)
(* that begins with null, wherever in the request they are, and on nothing *)
(* else that passes the ValidationPipe, for lists of any length            *)
(* (apply-user-patch.ts:32, 53, 61).                                       *)
THEOREM FailsOnlyOnNulls == Spec => []ThrowsOnlyOnNulls
<1>1. Lists => ThrowsOnlyOnNulls
  BY UserThrows DEF Lists, ThrowsOnlyOnNulls, Fails
<1> QED
  BY <1>1, ListsOfOperations, PTL

(* What applyUserPatch returns has a value of its type for each column, or *)
(* it throws, for lists of any length.                                     *)
THEOREM FieldsTyped == Spec => []FieldsTypeOK
<1>1. Lists => FieldsTypeOK
  BY UserPatchType DEF Lists, FieldsTypeOK
<1> QED
  BY <1>1, ListsOfOperations, PTL

-------------------------------------------------------------------------------
(* applyUserPatch: who speaks last of a column. *)

(* What a turn leaves in a column is what the operation says of it.        *)
Tells(new, old, o, c) ==
  IF SaysOf(o, c) = NotSaid THEN Got(new, c) = Got(old, c) ELSE SaysOf(o, c) = Said(Got(new, c))

LEMMA SetOptionalGot ==
  ASSUME NEW fields \in UserPatchFields, NEW col \in OptionalColumns,
         NEW x \in ColumnValues, NEW c \in Columns
  PROVE  Got(SetOptional(fields, col, x), c) = IF c = col THEN x ELSE Got(fields, c)
BY DEF Got, SetOptional, UserPatchFields, Columns, OptionalColumns

LEMMA SetTells ==
  ASSUME NEW fields \in UserPatchFields, NEW col \in OptionalColumns,
         NEW x \in ColumnValues, NEW c \in Columns, NEW o,
         SaysOf(o, c) = IF c = col THEN Said(x) ELSE NotSaid
  PROVE  Tells(SetOptional(fields, col, x), fields, o, c)
<1>1. Got(SetOptional(fields, col, x), c) = IF c = col THEN x ELSE Got(fields, c)
  BY SetOptionalGot
<1>2. Said(x) # NotSaid
  BY DEF Said, NotSaid
<1> QED
  BY <1>1, <1>2 DEF Tells

LEMMA PathTells ==
  ASSUME NEW fields \in UserPatchFields, NEW o \in Operation, InEffect(o), o.path # "",
         ~TakesNullEmail(o), NEW c \in Columns
  PROVE  Tells(ApplyValueForPath(fields, o.path, o.value), fields, o, c)
<1> DEFINE v == o.value
           new == ApplyValueForPath(fields, o.path, v)
<1>1. v \in Json
  BY DEF Operation
<1>2. \A x : Said(x) # NotSaid
  BY DEF Said, NotSaid
<1>11. /\ ToText(v) \in ColumnValues
       /\ NonEmptyArray(v) => EmailOfArray(v) \in ColumnValues
       /\ v.type = "string" => v.val \in ColumnValues
  BY <1>1, ConversionTypes, EmailOfArrayType, TypesOfJson DEF ColumnValues
<1>3. CASE o.path = "active"
  <2>1. new = [fields EXCEPT !.active = ToBoolean(v)]
    BY <1>3 DEF ApplyValueForPath, EmailPaths, NamePath
  <2>2. SaysOf(o, c) = IF c = "active" THEN Said(ToBoolean(v)) ELSE NotSaid
    BY <1>3 DEF SaysOf, EmailList, EmailPaths, NonEmptyArray, JUndefined, PlainColumns,
                NameColumns, NamePath, Columns, OptionalColumns
  <2> QED
    BY <1>2, <2>1, <2>2 DEF Tells, Got, UserPatchFields, Columns, OptionalColumns
<1>4. CASE o.path = "userName"
  <2>1. new = [fields EXCEPT !.userName = ToText(v)]
    BY <1>4 DEF ApplyValueForPath, EmailPaths, NamePath
  <2>2. SaysOf(o, c) = IF c = "userName" THEN Said(ToText(v)) ELSE NotSaid
    BY <1>4 DEF SaysOf, EmailList, EmailPaths, NonEmptyArray, JUndefined, PlainColumns,
                NameColumns, NamePath, Columns, OptionalColumns
  <2> QED
    BY <1>2, <2>1, <2>2 DEF Tells, Got, UserPatchFields, Columns, OptionalColumns
<1>5. ASSUME NEW col \in OptionalColumns, NEW x \in ColumnValues,
             new = SetOptional(fields, col, x),
             SaysOf(o, c) = IF c = col THEN Said(x) ELSE NotSaid
      PROVE  Tells(new, fields, o, c)
  <2>1. Tells(SetOptional(fields, col, x), fields, o, c)
    BY <1>5, SetTells
  <2> QED
    BY <1>5, <2>1
<1>6. CASE o.path = "externalId"
  <2>1. new = SetOptional(fields, "externalId", ToText(v))
    BY <1>6 DEF ApplyValueForPath, EmailPaths, NamePath
  <2>2. SaysOf(o, c) = IF c = "externalId" THEN Said(ToText(v)) ELSE NotSaid
    BY <1>6 DEF SaysOf, EmailList, EmailPaths, NonEmptyArray, JUndefined, PlainColumns,
                NameColumns, NamePath, Columns, OptionalColumns
  <2>3. "externalId" \in OptionalColumns
    BY DEF OptionalColumns
  <2> QED
    BY <1>5, <1>11, <2>1, <2>2, <2>3
<1>7. CASE o.path = NamePath.givenName
  <2>1. new = SetOptional(fields, "givenName", ToText(v))
    BY <1>7 DEF ApplyValueForPath, EmailPaths, NamePath
  <2>2. SaysOf(o, c) = IF c = "givenName" THEN Said(ToText(v)) ELSE NotSaid
    BY <1>7 DEF SaysOf, EmailList, EmailPaths, NonEmptyArray, JUndefined, PlainColumns,
                NameColumns, NamePath, Columns, OptionalColumns
  <2>3. "givenName" \in OptionalColumns
    BY DEF OptionalColumns
  <2> QED
    BY <1>5, <1>11, <2>1, <2>2, <2>3
<1>8. CASE o.path = NamePath.familyName
  <2>1. new = SetOptional(fields, "familyName", ToText(v))
    BY <1>8 DEF ApplyValueForPath, EmailPaths, NamePath
  <2>2. SaysOf(o, c) = IF c = "familyName" THEN Said(ToText(v)) ELSE NotSaid
    BY <1>8 DEF SaysOf, EmailList, EmailPaths, NonEmptyArray, JUndefined, PlainColumns,
                NameColumns, NamePath, Columns, OptionalColumns
  <2>3. "familyName" \in OptionalColumns
    BY DEF OptionalColumns
  <2> QED
    BY <1>5, <1>11, <2>1, <2>2, <2>3
<1>9. CASE o.path \in EmailPaths
  <2>1. o.path \notin {"active", "userName", "externalId", NamePath.givenName, NamePath.familyName}
    BY <1>9 DEF EmailPaths, NamePath
  <2>2. EmailList(o) = v
    BY <1>9 DEF EmailList
  <2>3. c # "email" => SaysOf(o, c) = NotSaid
    BY <1>9, <2>1 DEF SaysOf, PlainColumns, NameColumns, NamePath, Columns, OptionalColumns
  <2>4. /\ "email" \notin PlainColumns /\ "email" \notin NameColumns /\ "email" \in OptionalColumns
        /\ o.path # ""
    BY DEF PlainColumns, NameColumns, OptionalColumns
  <2>5. CASE NonEmptyArray(v)
    <3>1. new = SetOptional(fields, "email", EmailOfArray(v))
      <4>1. v.val[1] # JNull /\ v.type # "string"
        BY <2>2, <2>5 DEF TakesNullEmail, NonEmptyArray
      <4> QED
        BY <1>9, <2>1, <2>5, <4>1 DEF ApplyValueForPath
    <3>2. SaysOf(o, "email") = Said(EmailOfArray(v))
      BY <1>9, <2>2, <2>4, <2>5 DEF SaysOf, EmailOfArray, NonEmptyArray
    <3>3. SaysOf(o, c) = IF c = "email" THEN Said(EmailOfArray(v)) ELSE NotSaid
      BY <2>3, <3>2
    <3> QED
      BY <1>5, <1>11, <2>4, <2>5, <3>1, <3>3
  <2>6. CASE ~NonEmptyArray(v) /\ v.type = "string"
    <3>1. new = SetOptional(fields, "email", v.val)
      BY <1>9, <2>1, <2>6 DEF ApplyValueForPath
    <3>2. SaysOf(o, "email") = Said(v.val)
      BY <1>9, <2>2, <2>4, <2>6 DEF SaysOf
    <3>3. SaysOf(o, c) = IF c = "email" THEN Said(v.val) ELSE NotSaid
      BY <2>3, <3>2
    <3> QED
      BY <1>5, <1>11, <2>4, <2>6, <3>1, <3>3
  <2>7. CASE ~NonEmptyArray(v) /\ v.type # "string"
    <3>1. new = fields
      BY <1>9, <2>1, <2>7 DEF ApplyValueForPath
    <3>2. SaysOf(o, "email") = NotSaid
      BY <1>9, <2>2, <2>4, <2>7 DEF SaysOf
    <3> QED
      BY <2>3, <3>1, <3>2 DEF Tells
  <2> QED
    BY <2>5, <2>6, <2>7
<1>10. CASE /\ o.path \notin {"active", "userName", "externalId"} \cup EmailPaths
           /\ o.path \notin {NamePath.givenName, NamePath.familyName}
  <2>1. new = fields
    BY <1>10 DEF ApplyValueForPath
  <2>2. SaysOf(o, c) = NotSaid
    BY <1>10 DEF SaysOf, EmailList, NonEmptyArray, JUndefined, PlainColumns, NameColumns,
                NamePath, Columns, OptionalColumns
  <2> QED
    BY <2>1, <2>2 DEF Tells
<1> QED
  BY <1>3, <1>4, <1>6, <1>7, <1>8, <1>9, <1>10

LEMMA ObjectSays ==
  ASSUME NEW o \in Operation, InEffect(o), o.path = ""
  PROVE  LET v == o.value
             emails == Prop(v, "emails")
         IN /\ SaysOf(o, "active") =
                 IF Has(v, "active") THEN Said(ToBoolean(Prop(v, "active"))) ELSE NotSaid
            /\ \A c \in {"userName", "externalId"} :
                 SaysOf(o, c) = IF Has(v, c) THEN Said(ToText(Prop(v, c))) ELSE NotSaid
            /\ \A c \in NameColumns :
                 SaysOf(o, c) = IF Prop(Prop(v, "name"), c) # JUndefined
                                THEN Said(AsColumn(Prop(Prop(v, "name"), c))) ELSE NotSaid
            /\ SaysOf(o, "email") =
                 IF NonEmptyArray(emails)
                 THEN Said(AsColumn(Prop(emails.val[1], "value"))) ELSE NotSaid
<1>1. EmailList(o) = Prop(o.value, "emails")
  BY DEF EmailList
<1>2. SaysOf(o, "active") =
        IF Has(o.value, "active") THEN Said(ToBoolean(Prop(o.value, "active"))) ELSE NotSaid
  BY <1>1 DEF SaysOf, PlainColumns, NameColumns
<1>3. ASSUME NEW c \in {"userName", "externalId"}
      PROVE  SaysOf(o, c) = IF Has(o.value, c) THEN Said(ToText(Prop(o.value, c))) ELSE NotSaid
  BY <1>1, <1>3 DEF SaysOf, PlainColumns, NameColumns
<1>4. ASSUME NEW c \in NameColumns
      PROVE  SaysOf(o, c) = IF Prop(Prop(o.value, "name"), c) # JUndefined
                            THEN Said(AsColumn(Prop(Prop(o.value, "name"), c))) ELSE NotSaid
  <2>1. c \notin PlainColumns /\ c # "email" /\ c \in NameColumns
    BY <1>4 DEF PlainColumns, NameColumns
  <2>2. NamePath[c] # o.path
    <3>1. NamePath["givenName"] # "" /\ NamePath["familyName"] # ""
      BY DEF NamePath
    <3> QED
      BY <1>4, <3>1 DEF NameColumns
  <2> QED
    BY <1>1, <2>1, <2>2 DEF SaysOf
<1>5. SaysOf(o, "email") =
        IF NonEmptyArray(Prop(o.value, "emails"))
        THEN Said(AsColumn(Prop(Prop(o.value, "emails").val[1], "value"))) ELSE NotSaid
  BY <1>1 DEF SaysOf, PlainColumns, NameColumns
<1> QED
  BY <1>2, <1>3, <1>4, <1>5

LEMMA GotIs ==
  ASSUME NEW fields
  PROVE  /\ Got(fields, "active") = fields.active
         /\ Got(fields, "userName") = fields.userName
         /\ \A c \in OptionalColumns : Got(fields, c) = fields.optional[c]
BY DEF Got, OptionalColumns

LEMMA ObjectTells ==
  ASSUME NEW fields \in UserPatchFields, NEW o \in Operation, InEffect(o), o.path = "",
         NEW c \in Columns
  PROVE  Tells(AssignFromObject(fields, o.value), fields, o, c)
<1> DEFINE v   == o.value
           new == AssignFromObject(fields, v)
<1>1. \A x : Said(x) # NotSaid
  BY DEF Said, NotSaid
<1>2. c \in {"active", "userName", "externalId", "givenName", "familyName", "email"}
  BY DEF Columns, OptionalColumns
<1>3. CASE c = "active"
  <2>1. new.active = IF Has(v, "active") THEN ToBoolean(v.val["active"]) ELSE fields.active
    BY DEF AssignFromObject
  <2>2. Has(v, "active") => Prop(v, "active") = v.val["active"]
    BY DEF Prop
  <2> QED
    BY <1>1, <1>3, <2>1, <2>2, GotIs, ObjectSays DEF Tells
<1>4. CASE c = "userName"
  <2>1. new.userName = IF Has(v, "userName") THEN ToText(v.val["userName"]) ELSE fields.userName
    BY DEF AssignFromObject
  <2>2. Has(v, "userName") => Prop(v, "userName") = v.val["userName"]
    BY DEF Prop
  <2> QED
    BY <1>1, <1>4, <2>1, <2>2, GotIs, ObjectSays DEF Tells
<1>5. CASE c = "externalId"
  <2>1. c \in OptionalColumns
    BY <1>5 DEF OptionalColumns
  <2>2. new.optional[c] = IF Has(v, c) THEN ToText(v.val[c]) ELSE fields.optional[c]
    BY <1>5, <2>1 DEF AssignFromObject
  <2>3. Has(v, c) => Prop(v, c) = v.val[c]
    BY DEF Prop
  <2> QED
    BY <1>1, <1>5, <2>1, <2>2, <2>3, GotIs, ObjectSays DEF Tells
<1>6. CASE c \in {"givenName", "familyName"}
  <2>1. Got(new, c) = IF Prop(Prop(v, "name"), c) # JUndefined
                      THEN AsColumn(Prop(Prop(v, "name"), c)) ELSE Got(fields, c)
    BY <1>6 DEF Got, AssignFromObject, OptionalColumns
  <2>2. c \in NameColumns
    BY <1>6 DEF NameColumns
  <2> QED
    BY <1>1, <2>1, <2>2, ObjectSays DEF Tells
<1>7. CASE c = "email"
  <2>1. Got(new, c) = IF NonEmptyArray(Prop(v, "emails"))
                      THEN AsColumn(Prop(Prop(v, "emails").val[1], "value")) ELSE Got(fields, c)
    BY <1>7 DEF Got, AssignFromObject, OptionalColumns
  <2> QED
    BY <1>1, <1>7, <2>1, ObjectSays DEF Tells
<1> QED
  BY <1>2, <1>3, <1>4, <1>5, <1>6, <1>7

LEMMA UserTurnTells ==
  ASSUME NEW fields \in UserPatchFields, NEW o \in Operation, ~TakesNullEmail(o),
         NEW c \in Columns
  PROVE  Tells(ApplyOperation(fields, o), fields, o, c)
<1>1. fields # Thrown /\ o # JNull
  BY SentinelsAssumption, NullIsNoOperation
<1>2. CASE ~InEffect(o)
  <2>1. SaysOf(o, c) = NotSaid
    BY <1>2 DEF SaysOf
  <2>2. ApplyOperation(fields, o) = fields
    BY <1>1, <1>2 DEF ApplyOperation, InEffect
  <2> QED
    BY <2>1, <2>2 DEF Tells
<1>3. CASE InEffect(o) /\ o.path # ""
  <2>1. ApplyOperation(fields, o) = ApplyValueForPath(fields, o.path, o.value)
    BY <1>1, <1>3 DEF ApplyOperation, InEffect
  <2> QED
    BY <1>3, <2>1, PathTells
<1>4. CASE InEffect(o) /\ o.path = "" /\ o.value.type = "object"
  <2>1. ApplyOperation(fields, o) = AssignFromObject(fields, o.value)
    BY <1>1, <1>4 DEF ApplyOperation, ApplyValueObject, InEffect, TakesNullEmail, EmailList
  <2> QED
    BY <1>4, <2>1, ObjectTells
<1>5. CASE InEffect(o) /\ o.path = "" /\ o.value.type # "object"
  <2>1. ApplyOperation(fields, o) = fields
    BY <1>1, <1>5 DEF ApplyOperation, InEffect
  <2>2. \A k : ~Has(o.value, k) /\ Prop(o.value, k) = JUndefined /\ Prop(JUndefined, k) = JUndefined
    BY <1>5 DEF Has, Prop, JUndefined
  <2>3. ~NonEmptyArray(JUndefined)
    BY DEF NonEmptyArray, JUndefined
  <2>4. SaysOf(o, c) = NotSaid
    <3>1. c \in {"active", "userName", "externalId", "givenName", "familyName", "email"}
      BY DEF Columns, OptionalColumns
    <3>2. c \in {"givenName", "familyName"} <=> c \in NameColumns
      BY <3>1 DEF NameColumns
    <3> QED
      BY <1>5, <2>2, <2>3, <3>1, <3>2, ObjectSays
  <2> QED
    BY <2>1, <2>4 DEF Tells
<1> QED
  BY <1>2, <1>3, <1>4, <1>5

(* What the first k operations leave in column c of fields is what the     *)
(* last of them that speaks of it says.                                    *)
Silent(ops, k, c) == \A i \in 1..k : SaysOf(ops[i], c) = NotSaid
Tell(fields, ops, k, c) ==
  \E i \in 1..k :
    /\ SaysOf(ops[i], c) = Said(Got(fields, c))
    /\ \A j \in 1..k : j > i => SaysOf(ops[j], c) = NotSaid
Reflects(fields, ops, k, c) ==
  \/ Silent(ops, k, c) /\ Got(fields, c) = Undefined
  \/ Tell(fields, ops, k, c)

LEMMA LastSpeakerHeard ==
  ASSUME NEW ops \in Seq(Operation), ApplyUserPatch(ops) # Thrown, NEW c \in Columns
  PROVE  Reflects(ApplyUserPatch(ops), ops, Len(ops), c)
<1> DEFINE n == Len(ops)
           h == UserRun(ops)
           T == {k \in 0..n : h[k] # Thrown => Reflects(h[k], ops, k, c)}
<1>1. n \in Nat /\ DOMAIN ops = 1..n /\ \A k \in 1..n : ops[k] \in Operation
  OBVIOUS
<1>2. /\ h \in [0..n -> UserPatchFields \cup {Thrown}]
      /\ h[0] = NoFields
      /\ \A k \in 1..n : h[k] = ApplyOperation(h[k - 1], ops[k])
      /\ ApplyUserPatch(ops) = h[n]
  BY AlsoWithNulls, UserRuns
<1> HIDE DEF h
<1>3. 0 \in T
  <2>1. Got(NoFields, c) = Undefined
    BY DEF Got, NoFields, Columns, OptionalColumns
  <2>2. Silent(ops, 0, c)
    BY DEF Silent
  <2> QED
    BY <1>1, <1>2, <2>1, <2>2 DEF Reflects
<1>4. ASSUME NEW k \in 0..n - 1, k \in T PROVE k + 1 \in T
  <2>1. k + 1 \in 1..n /\ (k + 1) - 1 = k /\ k + 1 \in 0..n /\ k \in 0..n
        /\ 1..k + 1 = 1..k \cup {k + 1} /\ \A i \in 1..k : i < k + 1 /\ ~(i > k + 1)
    BY <1>1
  <2> DEFINE o == ops[k + 1]
             old == h[k]
             new == h[k + 1]
  <2>2. new = ApplyOperation(old, o) /\ o \in Operation /\ old \in UserPatchFields \cup {Thrown}
    BY <1>1, <1>2, <2>1
  <2> SUFFICES ASSUME new # Thrown PROVE Reflects(new, ops, k + 1, c)
    BY <2>1
  <2>3. old # Thrown /\ old \in UserPatchFields
    BY <2>2 DEF ApplyOperation
  <2>4. ~TakesNullEmail(o)
    BY <2>2, <2>3, UserTurnThrows DEF OrNull, Fails
  <2>5. Tells(new, old, o, c)
    BY <2>2, <2>3, <2>4, UserTurnTells
  <2>6. Reflects(old, ops, k, c)
    BY <1>4, <2>3
  <2> HIDE DEF new, old
  <2>7. CASE SaysOf(o, c) # NotSaid
    <3>1. SaysOf(o, c) = Said(Got(new, c))
      BY <2>5, <2>7 DEF Tells
    <3>2. Tell(new, ops, k + 1, c)
      BY <2>1, <3>1 DEF Tell
    <3> QED
      BY <3>2 DEF Reflects
  <2>8. CASE SaysOf(o, c) = NotSaid
    <3>1. Got(new, c) = Got(old, c)
      BY <2>5, <2>8 DEF Tells
    <3>2. Silent(ops, k, c) => Silent(ops, k + 1, c)
      BY <2>1, <2>8 DEF Silent
    <3>3. Tell(old, ops, k, c) => Tell(new, ops, k + 1, c)
      BY <2>1, <2>8, <3>1 DEF Tell
    <3> QED
      BY <2>6, <3>1, <3>2, <3>3 DEF Reflects
  <2> QED
    BY <2>7, <2>8
<1>5. n \in T
  <2>1. 0..n \subseteq T
    <3> HIDE DEF T
    <3> QED
      BY <1>1, <1>3, <1>4, UpTo
  <2> QED
    BY <1>1, <2>1
<1> QED
  BY <1>1, <1>2, <1>5

(* Every column gets what the last operation that speaks of it says, in    *)
(* the order of the request, for lists of any length and operations with   *)
(* any values; one that nobody speaks of stays as it is                    *)
(* (apply-user-patch.ts:57-72).                                            *)
THEOREM TheLastOperationWins == Spec => []LastOperationWins
<1>1. Lists => LastOperationWins
  <2> SUFFICES ASSUME Lists, resource = "user", ApplyUserPatch(operations) # Thrown,
                      NEW c \in Columns
               PROVE  LET speaking == {i \in DOMAIN operations : SaysOf(operations[i], c) # NotSaid}
                          got      == Got(ApplyUserPatch(operations), c)
                      IN  IF speaking = {} THEN got = Undefined
                          ELSE Said(got) = SaysOf(operations[Max(speaking)], c)
    BY DEF LastOperationWins
  <2> DEFINE speaking == {i \in DOMAIN operations : SaysOf(operations[i], c) # NotSaid}
             fields   == ApplyUserPatch(operations)
             n        == Len(operations)
  <2>1. operations \in Seq(Operation)
    BY UserAccepts DEF Lists
  <2>2. DOMAIN operations = 1..n /\ n \in Nat /\ speaking \in SUBSET Int
    BY <2>1
  <2>3. Reflects(fields, operations, n, c)
    BY <2>1, LastSpeakerHeard
  <2>4. \A x : Said(x) # NotSaid
    BY DEF Said, NotSaid
  <2>5. CASE Silent(operations, n, c) /\ Got(fields, c) = Undefined
    BY <2>2, <2>5 DEF Silent
  <2>6. CASE Tell(fields, operations, n, c)
    <3>1. PICK i \in 1..n : /\ SaysOf(operations[i], c) = Said(Got(fields, c))
                            /\ \A j \in 1..n : j > i => SaysOf(operations[j], c) = NotSaid
      BY <2>6 DEF Tell
    <3>2. i \in speaking
      BY <2>2, <2>4, <3>1
    <3>3. \A y \in speaking : i >= y
      BY <2>2, <3>1
    <3>4. Max(speaking) = i
      <4> HIDE DEF speaking
      <4> QED
        BY <2>2, <3>2, <3>3, GreatestIs
    <3> QED
      BY <3>1, <3>2, <3>4
  <2> QED
    BY <2>3, <2>5, <2>6 DEF Reflects
<1> QED
  BY <1>1, ListsOfOperations, PTL

-------------------------------------------------------------------------------
(* applyUserPatch: one request and two. *)

LEMMA SaidIs == \A x, y : Said(x) = Said(y) => x = y
BY DEF Said

(* Only a list of e-mails of a whole value can say undefined.              *)
LEMMA SaysUndefined ==
  ASSUME NEW o \in Operation, NEW c \in Columns, SaysOf(o, c) = Said(Undefined)
  PROVE  c = "email" /\ TakesBackEmail(o)
<1> DEFINE v == o.value
<1>1. v \in Json
  BY DEF Operation
<1>2. \A x : Said(x) # NotSaid
  BY DEF Said, NotSaid
<1>3. \A x : Said(x) = Said(Undefined) => x = Undefined
  BY SaidIs
<1>4. \A w \in Json : /\ ToText(w) # Undefined
                      /\ ToBoolean(w) # Undefined
                      /\ AsColumn(w) = Undefined => w = JUndefined
  <2> TAKE w \in Json
  <2>1. ToText(w) \in STRING /\ ToBoolean(w) \in BOOLEAN
    BY ConversionTypes
  <2>2. w.type = "string" => w.val \in STRING
    BY TypesOfJson
  <2>3. w.type = "undefined" => w = JUndefined
    BY JsonAssumption DEF JNull, JUndefined
  <2>4. AsColumn(w) = Undefined => w.type = "undefined"
    <3>1. ASSUME NEW u \in Json PROVE Contents(u) # Undefined
      BY TypesOfJson, SentinelsAssumption DEF Contents
    <3>2. Setting(w) => w.val["set"] \in Json
      BY ConversionTypes DEF Setting, Has
    <3> QED
      BY <3>1, <3>2, SentinelsAssumption DEF AsColumn
  <2> QED
    BY <2>1, <2>3, <2>4, SentinelsAssumption
<1>5. InEffect(o)
  BY <1>2 DEF SaysOf
<1>6. \A k : Prop(v, k) \in Json /\ Prop(Prop(v, "name"), k) \in Json
  BY <1>1, ConversionTypes
<1>7. CASE o.path = ""
  <2>1. c \in {"active", "userName", "externalId", "email"} \cup NameColumns
    BY DEF Columns, OptionalColumns, NameColumns
  <2>2. c # "active"
    BY <1>2, <1>3, <1>4, <1>5, <1>6, <1>7, ObjectSays
  <2>3. c \notin {"userName", "externalId"}
    BY <1>2, <1>3, <1>4, <1>5, <1>6, <1>7, ObjectSays
  <2>4. c \notin NameColumns
    BY <1>2, <1>3, <1>4, <1>5, <1>6, <1>7, ObjectSays
  <2> QED
    BY <1>5, <1>7, <2>1, <2>2, <2>3, <2>4 DEF TakesBackEmail
<1>8. CASE o.path # ""
  <2>1. /\ ToText(v) # Undefined
        /\ NonEmptyArray(v) => EmailOfArray(v) # Undefined
        /\ v.type = "string" => v.val # Undefined
    <3>1. NonEmptyArray(v) => v.val[1] \in Json /\ Prop(v.val[1], "value") \in Json
      BY <1>1, ConversionTypes
    <3>2. v.type = "string" => v.val \in STRING
      BY <1>1, TypesOfJson
    <3> QED
      BY <1>1, <1>4, <3>1, <3>2, SentinelsAssumption DEF EmailOfArray
  <2>2. ASSUME NonEmptyArray(EmailList(o)) PROVE EmailList(o) = v
    BY <1>8, <2>2 DEF EmailList, NonEmptyArray, JUndefined
  <2>3. ASSUME EmailList(o).type = "string" PROVE EmailList(o) = v
    BY <1>8, <2>3 DEF EmailList, JUndefined
  <2>4. c \in PlainColumns => SaysOf(o, c) \in {NotSaid, Said(ToBoolean(v)), Said(ToText(v))}
    BY <1>5, <1>8 DEF SaysOf, PlainColumns, NameColumns
  <2>5. c \in NameColumns => SaysOf(o, c) \in {NotSaid, Said(ToText(v))}
    BY <1>5, <1>8 DEF SaysOf, PlainColumns, NameColumns
  <2>6. c = "email" => \/ SaysOf(o, c) = NotSaid
                       \/ NonEmptyArray(v) /\ SaysOf(o, c) = Said(EmailOfArray(v))
                       \/ v.type = "string" /\ SaysOf(o, c) = Said(v.val)
    <3> SUFFICES ASSUME c = "email"
                 PROVE  \/ SaysOf(o, c) = NotSaid
                        \/ NonEmptyArray(v) /\ SaysOf(o, c) = Said(EmailOfArray(v))
                        \/ v.type = "string" /\ SaysOf(o, c) = Said(v.val)
      OBVIOUS
    <3>0. c \notin PlainColumns /\ c \notin NameColumns
      BY DEF PlainColumns, NameColumns
    <3>1. CASE NonEmptyArray(EmailList(o))
      <4>1. EmailList(o).type # "string"
        BY <3>1 DEF NonEmptyArray
      <4>2. SaysOf(o, c) = Said(EmailOfArray(v))
        BY <1>5, <1>8, <2>2, <3>0, <3>1, <4>1 DEF SaysOf, EmailOfArray
      <4> QED
        BY <2>2, <3>1, <4>2
    <3>2. CASE EmailList(o).type = "string" /\ ~NonEmptyArray(EmailList(o))
      <4>1. EmailList(o) = v
        BY <2>3, <3>2
      <4>2. SaysOf(o, c) = Said(EmailList(o).val)
        BY <1>5, <1>8, <3>0, <3>2 DEF SaysOf
      <4> QED
        BY <3>2, <4>1, <4>2
    <3>3. CASE EmailList(o).type # "string" /\ ~NonEmptyArray(EmailList(o))
      BY <1>5, <1>8, <3>0, <3>3 DEF SaysOf
    <3> QED
      BY <3>1, <3>2, <3>3
  <2>7. c \in PlainColumns \cup NameColumns \cup {"email"}
    BY DEF PlainColumns, NameColumns, Columns, OptionalColumns
  <2> QED
    BY <1>1, <1>2, <1>3, <1>4, <2>1, <2>4, <2>5, <2>6, <2>7
<1> QED
  BY <1>7, <1>8

LEMMA OneLastSpeaker ==
  ASSUME NEW f, NEW g, NEW ops, NEW n \in Nat, NEW c, Tell(f, ops, n, c), Tell(g, ops, n, c)
  PROVE  Got(f, c) = Got(g, c)
<1>1. PICK i \in 1..n : /\ SaysOf(ops[i], c) = Said(Got(f, c))
                        /\ \A j \in 1..n : j > i => SaysOf(ops[j], c) = NotSaid
  BY DEF Tell
<1>2. PICK k \in 1..n : /\ SaysOf(ops[k], c) = Said(Got(g, c))
                        /\ \A j \in 1..n : j > k => SaysOf(ops[j], c) = NotSaid
  BY DEF Tell
<1>3. \A x : Said(x) # NotSaid
  BY DEF Said, NotSaid
<1>4. ~(i > k) /\ ~(k > i)
  BY <1>1, <1>2, <1>3
<1>5. i = k
  BY <1>4
<1> QED
  BY <1>1, <1>2, <1>5, SaidIs

LEMMA Halves ==
  ASSUME NEW S, NEW s \in Seq(S), NEW k \in 0..Len(s)
  PROVE  LET first  == SubSeq(s, 1, k)
             second == SubSeq(s, k + 1, Len(s))
         IN  /\ first \in Seq(S) /\ Len(first) = k
             /\ \A i \in 1..k : first[i] = s[i]
             /\ second \in Seq(S) /\ Len(second) = Len(s) - k
             /\ \A i \in 1..Len(s) - k : second[i] = s[k + i]
<1>1. /\ \A i \in 1..k : s[i] \in S
      /\ \A i \in k + 1..Len(s) : s[i] \in S
  OBVIOUS
<1>2. SubSeq(s, 1, k) \in Seq(S)
  BY <1>1, SubSeqProperties
<1>3. SubSeq(s, k + 1, Len(s)) \in Seq(S)
  BY <1>1, SubSeqProperties
<1> QED
  BY <1>2, <1>3, SubSeqProperties

(* A request and its two halves say the same of a column, but for an       *)
(* e-mail that the second half takes back.                                 *)
LEMMA ColumnSplits ==
  ASSUME NEW ops \in Seq(Operation), NEW k \in 0..Len(ops), NEW c \in Columns,
         ApplyUserPatch(ops) # Thrown
  PROVE  LET whole  == Got(ApplyUserPatch(ops), c)
             first  == Got(ApplyUserPatch(SubSeq(ops, 1, k)), c)
             second == Got(ApplyUserPatch(SubSeq(ops, k + 1, Len(ops))), c)
         IN  \/ whole = IF second = Undefined THEN first ELSE second
             \/ c = "email" /\ \E i \in k + 1..Len(ops) : TakesBackEmail(ops[i])
<1> DEFINE n == Len(ops)
           A == SubSeq(ops, 1, k)
           B == SubSeq(ops, k + 1, n)
           W == ApplyUserPatch(ops)
           F == ApplyUserPatch(A)
           S == ApplyUserPatch(B)
<1> SUFFICES \/ Got(W, c) = IF Got(S, c) = Undefined THEN Got(F, c) ELSE Got(S, c)
             \/ c = "email" /\ \E i \in k + 1..n : TakesBackEmail(ops[i])
  OBVIOUS
<1>0. \A x : Said(x) # NotSaid
  BY DEF Said, NotSaid
<1>1. /\ n \in Nat /\ DOMAIN ops = 1..n /\ \A i \in 1..n : ops[i] \in Operation
      /\ k \in Nat /\ k <= n /\ n - k \in Nat
  OBVIOUS
<1>2. /\ A \in Seq(Operation) /\ Len(A) = k /\ \A i \in 1..k : A[i] = ops[i]
      /\ B \in Seq(Operation) /\ Len(B) = n - k /\ \A i \in 1..n - k : B[i] = ops[k + i]
  BY Halves
<1> HIDE DEF A, B
<1>3. DOMAIN A = 1..k /\ DOMAIN B = 1..n - k
  BY <1>2
<1>4. \A i \in 1..n - k : k + i \in 1..n /\ k + i \in k + 1..n
  BY <1>1
<1>5. F # Thrown /\ S # Thrown
  <2>1. ops \in Seq(OrNull(Operation)) /\ A \in Seq(OrNull(Operation)) /\ B \in Seq(OrNull(Operation))
    BY <1>2, AlsoWithNulls
  <2>2. \A i \in 1..n : ~Fails(ops[i])
    BY <1>1, <2>1, UserThrows
  <2>3. (\A i \in 1..k : ~Fails(A[i])) /\ \A i \in 1..n - k : ~Fails(B[i])
    BY <1>1, <1>2, <1>4, <2>2
  <2> QED
    BY <1>3, <2>1, <2>3, UserThrows
<1>6. /\ Reflects(W, ops, n, c)
      /\ Reflects(F, A, k, c)
      /\ Reflects(S, B, n - k, c)
  BY <1>2, <1>5, LastSpeakerHeard
<1> HIDE DEF W, F, S
<1>7. CASE Tell(S, B, n - k, c)
  <2>1. PICK i \in 1..n - k : /\ SaysOf(B[i], c) = Said(Got(S, c))
                              /\ \A j \in 1..n - k : j > i => SaysOf(B[j], c) = NotSaid
    BY <1>7 DEF Tell
  <2>2. k + i \in 1..n /\ k + i \in k + 1..n /\ SaysOf(ops[k + i], c) = Said(Got(S, c))
    BY <1>2, <1>4, <2>1
  <2>3. ASSUME NEW j \in 1..n, j > k + i PROVE SaysOf(ops[j], c) = NotSaid
    <3>1. j - k \in 1..n - k /\ j - k > i /\ k + (j - k) = j
      BY <1>1, <2>3
    <3> QED
      BY <1>2, <2>1, <3>1
  <2>4. Tell(S, ops, n, c)
    BY <2>2, <2>3 DEF Tell
  <2>5. ~Silent(ops, n, c)
    BY <1>0, <2>2 DEF Silent
  <2>6. Got(W, c) = Got(S, c)
    BY <1>1, <1>6, <2>4, <2>5, OneLastSpeaker DEF Reflects
  <2>7. CASE Got(S, c) = Undefined
    <3>1. c = "email" /\ TakesBackEmail(ops[k + i])
      BY <1>1, <2>2, <2>7, SaysUndefined
    <3> QED
      BY <2>2, <3>1
  <2> QED
    BY <2>6, <2>7
<1>8. CASE Silent(B, n - k, c) /\ Got(S, c) = Undefined
  <2>1. ASSUME NEW j \in 1..n, j > k PROVE SaysOf(ops[j], c) = NotSaid
    <3>1. j - k \in 1..n - k /\ k + (j - k) = j
      BY <1>1, <2>1
    <3> QED
      BY <1>2, <1>8, <3>1 DEF Silent
  <2>2. 1..k \subseteq 1..n /\ \A j \in 1..n : j \in 1..k \/ j > k
    BY <1>1
  <2>3. CASE Tell(F, A, k, c)
    <3>1. PICK i \in 1..k : /\ SaysOf(A[i], c) = Said(Got(F, c))
                            /\ \A j \in 1..k : j > i => SaysOf(A[j], c) = NotSaid
      BY <2>3 DEF Tell
    <3>2. /\ SaysOf(ops[i], c) = Said(Got(F, c))
          /\ \A j \in 1..n : j > i => SaysOf(ops[j], c) = NotSaid
      BY <1>2, <2>1, <2>2, <3>1
    <3>3. Tell(F, ops, n, c)
      BY <2>2, <3>2 DEF Tell
    <3>4. ~Silent(ops, n, c)
      BY <1>0, <2>2, <3>2 DEF Silent
    <3>5. Got(W, c) = Got(F, c)
      BY <1>1, <1>6, <3>3, <3>4, OneLastSpeaker DEF Reflects
    <3> QED
      BY <1>8, <3>5
  <2>4. CASE Silent(A, k, c) /\ Got(F, c) = Undefined
    <3>1. Silent(ops, n, c)
      BY <1>2, <2>1, <2>2, <2>4 DEF Silent
    <3>2. ~Tell(W, ops, n, c)
      BY <1>0, <3>1 DEF Silent, Tell
    <3> QED
      BY <1>6, <1>8, <2>4, <3>2 DEF Reflects
  <2> QED
    BY <1>6, <2>3, <2>4 DEF Reflects
<1> QED
  BY <1>6, <1>7, <1>8 DEF Reflects

LEMMA GotOfPatchRow ==
  ASSUME NEW row, NEW fields, NEW c \in Columns
  PROVE  Got(PatchRow(row, fields), c) = Written(Got(fields, c), Got(row, c))
<1>1. c \in {"active", "userName"} \cup OptionalColumns
  BY DEF Columns
<1>2. c \in OptionalColumns =>
        PatchRow(row, fields).optional[c] = Written(fields.optional[c], row.optional[c])
  BY DEF PatchRow
<1>3. /\ PatchRow(row, fields).active = Written(fields.active, row.active)
      /\ PatchRow(row, fields).userName = Written(fields.userName, row.userName)
  BY DEF PatchRow
<1> QED
  BY <1>1, <1>2, <1>3, GotIs

(* A row is its columns. *)
Columned(row) ==
  row = [userName |-> row.userName, active |-> row.active,
         optional |-> [c \in OptionalColumns |-> row.optional[c]],
         passwordHash |-> row.passwordHash]

LEMMA PatchRowColumned ==
  ASSUME NEW row, NEW fields
  PROVE  Columned(PatchRow(row, fields)) /\ PatchRow(row, fields).passwordHash = row.passwordHash
BY DEF Columned, PatchRow

LEMMA SameColumns ==
  ASSUME NEW r, NEW s, Columned(r), Columned(s), r.passwordHash = s.passwordHash,
         r.active = s.active, r.userName = s.userName,
         \A c \in OptionalColumns : r.optional[c] = s.optional[c]
  PROVE  r = s
<1>1. [c \in OptionalColumns |-> r.optional[c]] = [c \in OptionalColumns |-> s.optional[c]]
  OBVIOUS
<1> QED
  BY <1>1 DEF Columned

WithEmail(row, x) == [row EXCEPT !.optional["email"] = x]

LEMMA OneColumnSet ==
  ASSUME NEW r, NEW x, Columned(r)
  PROVE  /\ Columned(WithEmail(r, x)) /\ WithEmail(r, x).passwordHash = r.passwordHash
         /\ WithEmail(r, x).active = r.active /\ WithEmail(r, x).userName = r.userName
         /\ WithEmail(r, x).optional["email"] = x
         /\ \A c \in OptionalColumns \ {"email"} : WithEmail(r, x).optional[c] = r.optional[c]
BY DEF WithEmail, Columned, OptionalColumns

(* Two PATCHes do what one does, wherever the operations are split, for    *)
(* lists of any length and any row, but for an e-mail that is taken back   *)
(* (apply-user-patch.ts:57-72, users.service.ts:73-79).                    *)
THEOREM SplitsAreHarmless == Spec => []SplittingIsHarmless
<1>1. Lists => SplittingIsHarmless
  <2> SUFFICES ASSUME Lists, resource = "user", UserAccepted(operations),
                      NEW row \in Rows, NEW k \in 0..Len(operations)
               PROVE  LET first  == ApplyUserPatch(SubSeq(operations, 1, k))
                          second == ApplyUserPatch(SubSeq(operations, k + 1, Len(operations)))
                          whole  == PatchRow(row, ApplyUserPatch(operations))
                          split  == PatchRow(PatchRow(row, first), second)
                          back   == \E i \in k + 1..Len(operations) : TakesBackEmail(operations[i])
                      IN  FieldsValid(first) =>
                            \/ split = whole
                            \/ back /\ [split EXCEPT !.optional["email"] = whole.optional["email"]] = whole
    BY DEF SplittingIsHarmless
  <2> DEFINE n      == Len(operations)
             W      == ApplyUserPatch(operations)
             first  == ApplyUserPatch(SubSeq(operations, 1, k))
             second == ApplyUserPatch(SubSeq(operations, k + 1, n))
             whole  == PatchRow(row, W)
             once   == PatchRow(row, first)
             split  == PatchRow(once, second)
             back   == \E i \in k + 1..n : TakesBackEmail(operations[i])
             kept   == WithEmail(split, whole.optional["email"])
  <2> SUFFICES ASSUME FieldsValid(first) PROVE split = whole \/ (back /\ kept = whole)
    BY DEF WithEmail
  <2>1. operations \in Seq(Operation) /\ W # Thrown
    BY UserAccepts DEF Lists, UserAccepted
  <2>2. /\ \A c \in Columns :
             \/ Got(W, c) = IF Got(second, c) = Undefined THEN Got(first, c) ELSE Got(second, c)
             \/ c = "email" /\ back
    BY <2>1, ColumnSplits
  <2>3. \A c \in Columns :
          /\ Got(whole, c) = Written(Got(W, c), Got(row, c))
          /\ Got(once, c) = Written(Got(first, c), Got(row, c))
          /\ Got(split, c) = Written(Got(second, c), Got(once, c))
    BY GotOfPatchRow
  <2>4. \A c \in Columns : Got(split, c) = Got(whole, c) \/ (c = "email" /\ back)
    BY <2>2, <2>3 DEF Written
  <2>5. /\ Columned(split) /\ Columned(whole) /\ split.passwordHash = whole.passwordHash
    BY PatchRowColumned
  <2> HIDE DEF split, whole, back
  <2>6. /\ split.active = whole.active /\ split.userName = whole.userName
        /\ \A c \in OptionalColumns :
             split.optional[c] = whole.optional[c] \/ (c = "email" /\ back)
    BY <2>4, GotIs DEF Columns
  <2>7. CASE back
    <3>1. Columned(kept) /\ kept.passwordHash = whole.passwordHash
      BY <2>5, OneColumnSet
    <3>2. /\ kept.active = whole.active /\ kept.userName = whole.userName
          /\ kept.optional["email"] = whole.optional["email"]
          /\ \A c \in OptionalColumns \ {"email"} : kept.optional[c] = split.optional[c]
      BY <2>5, <2>6, OneColumnSet
    <3>3. \A c \in OptionalColumns : kept.optional[c] = whole.optional[c]
      BY <2>6, <3>2
    <3> HIDE DEF kept
    <3>4. kept = whole
      BY <2>5, <3>1, <3>2, <3>3, SameColumns
    <3> QED
      BY <2>7, <3>4
  <2>8. CASE ~back
    BY <2>5, <2>6, <2>8, SameColumns
  <2> QED
    BY <2>7, <2>8
<1> QED
  BY <1>1, ListsOfOperations, PTL

-------------------------------------------------------------------------------
(* applyGroupPatch: what one turn of its loop does. *)

SaysName(o) == /\ o.op = "replace"
               /\ o.path = "displayName" \/ (o.path = "" /\ Has(o.value, "displayName"))
NameSaid(o) == ToText(IF o.path = "" THEN o.value.val["displayName"] ELSE o.value)

LEMMA GroupTurnThrows ==
  ASSUME NEW r \in GroupPatchResult, NEW o \in GroupOperation
  PROVE  TakeOperation(r, o) = Thrown <=> NotAList(o)
<1>1. r # Thrown /\ o.value \in Json
  BY SentinelsAssumption DEF GroupOperation, Operation
<1>2. \A x \in GroupPatchResult : x # Thrown
  BY SentinelsAssumption
<1>3. IdsOf(o.value) \in Ids /\ \A p \in DOMAIN PathIds : JString(PathIds[p]) \in Json
  BY <1>1, IdsOfMembers, PathIdsAssumption, MemberIdsAssumption
<1>4. /\ r.addMemberIds \o IdsOf(o.value) \in Ids
      /\ r.removeMemberIds \o IdsOf(o.value) \in Ids
      /\ \A p \in DOMAIN PathIds : Append(r.removeMemberIds, JString(PathIds[p])) \in Ids
  BY <1>3, IdsOfResult DEF Ids
<1>5. CASE o.op = "add" /\ o.path \in {"members", ""}
  <2>1. TakeOperation(r, o) = AddMembers(r, o.value)
    BY <1>1, <1>5 DEF TakeOperation
  <2>2. [r EXCEPT !.addMemberIds = @ \o IdsOf(o.value)] \in GroupPatchResult
    BY <1>4, WithIds
  <2> QED
    BY <1>2, <1>5, <2>1, <2>2 DEF AddMembers, NotAList, Iterable
<1>6. CASE o.op = "remove" /\ o.path = "members"
  <2>1. TakeOperation(r, o) = RemoveMembers(r, o.path, o.value)
    BY <1>1, <1>6 DEF TakeOperation
  <2>2. [r EXCEPT !.removeMemberIds = @ \o IdsOf(o.value)] \in GroupPatchResult
    BY <1>4, WithIds
  <2>3. "members" \notin DOMAIN PathIds
    BY PathIdsAssumption
  <2> QED
    BY <1>2, <1>6, <2>1, <2>2, <2>3 DEF RemoveMembers, NotAList, Iterable
<1>7. CASE o.op = "remove" /\ o.path # "members"
  <2>1. TakeOperation(r, o) = RemoveMembers(r, o.path, o.value)
    BY <1>1, <1>7 DEF TakeOperation
  <2>2. ASSUME NEW p \in DOMAIN PathIds
        PROVE  [r EXCEPT !.removeMemberIds = Append(@, JString(PathIds[p]))] \in GroupPatchResult
    BY <1>4, WithIds
  <2>3. RemoveMembers(r, o.path, o.value) \in GroupPatchResult
    BY <1>7, <2>2 DEF RemoveMembers
  <2> QED
    BY <1>2, <1>7, <2>1, <2>3 DEF NotAList
<1>8. CASE o.op = "replace"
  <2>1. TakeOperation(r, o) = ReplaceAttributes(r, o.path, o.value)
    BY <1>1, <1>8 DEF TakeOperation
  <2>2. ReplaceAttributes(r, o.path, o.value) \in GroupPatchResult
    <3>1. /\ ToText(o.value) \in STRING
          /\ \A k : Has(o.value, k) => ToText(o.value.val[k]) \in STRING
      BY <1>1, ConversionTypes
    <3> QED
      BY <3>1 DEF ReplaceAttributes, GroupPatchResult
  <2> QED
    BY <1>2, <1>8, <2>1, <2>2 DEF NotAList
<1>9. CASE /\ o.op \notin {"remove", "replace"}
           /\ ~(o.op = "add" /\ o.path \in {"members", ""})
  BY <1>1, <1>9 DEF TakeOperation, NotAList
<1> QED
  BY <1>5, <1>6, <1>7, <1>8, <1>9

(* The displayName that a turn leaves. *)
LEMMA TurnNames ==
  ASSUME NEW r \in GroupPatchResult, NEW o \in GroupOperation, TakeOperation(r, o) # Thrown
  PROVE  TakeOperation(r, o).displayName = IF SaysName(o) THEN NameSaid(o) ELSE r.displayName
<1> DEFINE new == TakeOperation(r, o)
<1>1. r \in [displayName : STRING \cup {Undefined}, externalId : STRING \cup {Undefined},
             addMemberIds : Seq(Json), removeMemberIds : Seq(Json)]
  BY DEF GroupPatchResult
<1>2. CASE o.op = "add" /\ o.path \in {"members", ""}
  <2>1. new = [r EXCEPT !.addMemberIds = @ \o IdsOf(o.value)]
    BY <1>2 DEF TakeOperation, AddMembers
  <2> QED
    BY <1>1, <1>2, <2>1 DEF SaysName
<1>3. CASE o.op = "remove"
  <2>1. new = RemoveMembers(r, o.path, o.value) /\ ~SaysName(o)
    BY <1>3 DEF TakeOperation, SaysName
  <2>2. \A ids : [r EXCEPT !.removeMemberIds = ids].displayName = r.displayName
    BY <1>1
  <2>3. new = r \/ \E ids : new = [r EXCEPT !.removeMemberIds = ids]
    BY <2>1 DEF RemoveMembers
  <2> QED
    BY <2>1, <2>2, <2>3
<1>4. CASE o.op = "replace"
  <2>1. new = ReplaceAttributes(r, o.path, o.value)
    BY <1>4 DEF TakeOperation
  <2> QED
    BY <1>1, <1>4, <2>1 DEF ReplaceAttributes, SaysName, NameSaid, Has
<1>5. CASE /\ o.op \notin {"remove", "replace"}
           /\ ~(o.op = "add" /\ o.path \in {"members", ""})
  BY <1>5 DEF TakeOperation, SaysName
<1> QED
  BY <1>2, <1>3, <1>4, <1>5

-------------------------------------------------------------------------------
(* applyGroupPatch, from the first operation to the last. *)

(* What makes a turn throw. *)
Stops(o) == o = JNull \/ NotAList(o)

LEMMA GroupThrows ==
  ASSUME NEW ops \in Seq(OrNull(GroupOperation))
  PROVE  ApplyGroupPatch(ops) = Thrown <=> \E i \in DOMAIN ops : Stops(ops[i])
<1> DEFINE n == Len(ops)
           h == GroupRun(ops)
           T == {k \in 0..n : h[k] = Thrown <=> \E i \in 1..k : Stops(ops[i])}
<1>1. n \in Nat /\ DOMAIN ops = 1..n /\ \A k \in 1..n : ops[k] \in OrNull(GroupOperation)
  OBVIOUS
<1>2. /\ h \in [0..n -> GroupPatchResult \cup {Thrown}]
      /\ h[0] = NoGroupChange
      /\ \A k \in 1..n : h[k] = ApplyGroupOperation(h[k - 1], ops[k])
      /\ ApplyGroupPatch(ops) = h[n]
  BY GroupRuns
<1> HIDE DEF h
<1>3. 0 \in T
  <2>1. NoGroupChange # Thrown
    BY SentinelsAssumption, NoGroupChangeType
  <2> QED
    BY <1>1, <1>2, <2>1
<1>4. ASSUME NEW k \in 0..n - 1, k \in T PROVE k + 1 \in T
  <2>1. k + 1 \in 1..n /\ (k + 1) - 1 = k /\ k + 1 \in 0..n /\ k \in 0..n
        /\ 1..k + 1 = 1..k \cup {k + 1}
    BY <1>1
  <2>2. /\ h[k + 1] = ApplyGroupOperation(h[k], ops[k + 1]) /\ ops[k + 1] \in OrNull(GroupOperation)
        /\ h[k] \in GroupPatchResult \cup {Thrown}
    BY <1>1, <1>2, <2>1
  <2>3. h[k] = Thrown => h[k + 1] = Thrown
    BY <2>2 DEF ApplyGroupOperation
  <2>4. h[k] # Thrown => (h[k + 1] = Thrown <=> Stops(ops[k + 1]))
    BY <2>2, SentinelsAssumption, GroupTurnThrows, NullIsNoOperation
       DEF ApplyGroupOperation, OrNull, Stops, GroupOperation
  <2>5. h[k] = Thrown <=> \E i \in 1..k : Stops(ops[i])
    BY <1>4
  <2>6. h[k + 1] = Thrown <=> \E i \in 1..k + 1 : Stops(ops[i])
    BY <2>1, <2>3, <2>4, <2>5
  <2> QED
    BY <2>1, <2>6
<1>5. n \in T
  <2>1. 0..n \subseteq T
    <3> HIDE DEF T
    <3> QED
      BY <1>1, <1>3, <1>4, UpTo
  <2> QED
    BY <1>1, <2>1
<1> QED
  BY <1>1, <1>2, <1>5

(* The handler fails on an operation that is null and on members that are  *)
(* not a list, and on nothing else that passes the ValidationPipe, for     *)
(* lists of any length (apply-group-patch.ts:20, 25-26, 34-35).            *)
THEOREM FailsOnlyOnNullOrNoList == Spec => []ThrowsOnlyOnNullOrNoList
<1>1. Lists => ThrowsOnlyOnNullOrNoList
  BY GroupThrows DEF Lists, ThrowsOnlyOnNullOrNoList, Stops
<1> QED
  BY <1>1, ListsOfOperations, PTL

LEMMA AcceptedIds ==
  ASSUME NEW ops \in Seq(OrNull(GroupOperation)), ApplyGroupPatch(ops) # Thrown, NEW members
  PROVE  PatchedMembers(members, ApplyGroupPatch(ops)) =
           (members \ RemovedBy(ops, Len(ops))) \cup AddedBy(ops, Len(ops))
BY PatchAsks DEF PatchedMembers

(* A PATCH that is carried out keeps as members all whom no removal of it  *)
(* names, by value or in a path, and no filter in a removal matches, for   *)
(* lists of any length and any members (apply-group-patch.ts:32-55,        *)
(* groups.service.ts:93-97).                                               *)
THEOREM TheOthersStay == Spec => []OthersStayMembers
<1>1. Lists => OthersStayMembers
  <2> SUFFICES ASSUME Lists, GroupAccepted, NEW members \in SUBSET MemberIds,
                      NEW u \in members \ PatchedMembers(members, ApplyGroupPatch(operations))
               PROVE  \E i \in DOMAIN operations : u \in Removing(i)
    BY DEF OthersStayMembers
  <2>1. /\ operations \in Seq(OrNull(GroupOperation)) /\ operations \in Seq(GroupOperation)
        /\ ApplyGroupPatch(operations) # Thrown
    BY PatchAsks DEF Lists, GroupAccepted
  <2>2. u \in RemovedBy(operations, Len(operations))
    BY <2>1, AcceptedIds
  <2> QED
    BY <2>1, <2>2 DEF RemovedBy, Removing
<1> QED
  BY <1>1, ListsOfOperations, PTL

-------------------------------------------------------------------------------
(* The operations one by one. *)

LEMMA AfterOperationType ==
  ASSUME NEW members \in SUBSET MemberIds, NEW o
  PROVE  AfterOperation(members, o) \in SUBSET MemberIds
BY DEF AfterOperation, Adds

MembersIter(ops, members) ==
  CHOOSE iter :
    iter = [s \in SUBSET DOMAIN ops |->
              IF s = {} THEN members ELSE AfterOperation(iter[s \ {Max(s)}], ops[Max(s)])]

LEMMA MembersUnfolds ==
  ASSUME NEW ops, NEW members
  PROVE  OneByOne(ops, members) = MembersIter(ops, members)[DOMAIN ops]
BY ZenonT(20) DEF OneByOne, FoldLeft, MapThenFoldSet, MembersIter

LEMMA MembersIterIs ==
  ASSUME NEW ops \in Seq(GroupOperation), NEW members \in SUBSET MemberIds
  PROVE  MembersIter(ops, members) =
           [s \in SUBSET DOMAIN ops |->
              IF s = {} THEN members
              ELSE AfterOperation(MembersIter(ops, members)[s \ {Max(s)}], ops[Max(s)])]
<1> DEFINE n == Len(ops)
           S == SUBSET MemberIds
           turn == [k \in 1..n |-> [x \in S |-> AfterOperation(x, ops[k])]]
<1>1. n \in Nat /\ DOMAIN ops = 1..n /\ \A k \in 1..n : ops[k] \in GroupOperation
  OBVIOUS
<1>2. turn \in [1..n -> [S -> S]]
  BY <1>1, AfterOperationType
<1>3. members \in S
  OBVIOUS
<1>4. PICK g \in [SUBSET (1..n) -> S] :
        Folds(g, n, members, turn)
  <2> HIDE DEF turn, S, n
  <2> QED
    BY <1>1, <1>2, <1>3, FoldExists
<1>5. ASSUME NEW s \in SUBSET (1..n)
      PROVE  g[s] = IF s = {} THEN members ELSE AfterOperation(g[s \ {Max(s)}], ops[Max(s)])
  <2>1. CASE s # {}
    <3>1. Max(s) \in 1..n /\ g[s \ {Max(s)}] \in S
      BY <1>1, <2>1, GreatestIn
    <3> QED
      BY <3>1, <2>1, <1>4 DEF Folds
  <2> QED
    BY <2>1, <1>4 DEF Folds
<1>6. g = [s \in SUBSET DOMAIN ops |->
             IF s = {} THEN members ELSE AfterOperation(g[s \ {Max(s)}], ops[Max(s)])]
  BY <1>1, <1>4, <1>5
<1> QED
  BY <1>6 DEF MembersIter

(* The members after each operation. *)
MembersRun(ops, members) == [k \in 0..Len(ops) |-> MembersIter(ops, members)[1..k]]

LEMMA MembersRuns ==
  ASSUME NEW ops \in Seq(GroupOperation), NEW members \in SUBSET MemberIds
  PROVE  /\ MembersRun(ops, members) \in [0..Len(ops) -> SUBSET MemberIds]
         /\ MembersRun(ops, members)[0] = members
         /\ \A k \in 1..Len(ops) : MembersRun(ops, members)[k] = AfterOperation(MembersRun(ops, members)[k - 1], ops[k])
         /\ OneByOne(ops, members) = MembersRun(ops, members)[Len(ops)]
<1> DEFINE n == Len(ops)
           h == MembersRun(ops, members)
<1>1. n \in Nat /\ DOMAIN ops = 1..n /\ \A k \in 1..n : ops[k] \in GroupOperation
  OBVIOUS
<1>2. \A k \in 0..n : h[k] = MembersIter(ops, members)[1..k]
  BY DEF MembersRun
<1> DEFINE f == MembersIter(ops, members)
<1>0. \A s \in SUBSET (1..n) :
        f[s] = IF s = {} THEN members ELSE AfterOperation(f[s \ {Max(s)}], ops[Max(s)])
  <2>1. f = [s \in SUBSET DOMAIN ops |->
               IF s = {} THEN members ELSE AfterOperation(f[s \ {Max(s)}], ops[Max(s)])]
    BY MembersIterIs
  <2> HIDE DEF f
  <2> QED
    BY <1>1, <2>1
<1>3. h[0] = members
  <2>1. {} \in SUBSET (1..n) /\ 1..0 = {} /\ 0 \in 0..n
    BY <1>1, EmptyInterval
  <2> HIDE DEF f
  <2> QED
    BY <1>0, <1>2, <2>1 DEF f
<1>4. ASSUME NEW k \in 1..n PROVE h[k] = AfterOperation(h[k - 1], ops[k])
  <2>1. /\ 1..k \in SUBSET (1..n) /\ 1..k # {} /\ Max(1..k) = k /\ (1..k) \ {k} = 1..k - 1
        /\ k - 1 \in 0..n /\ k \in 0..n
    BY <1>1, FirstOf
  <2>2. f[1..k] = AfterOperation(f[1..k - 1], ops[k])
    BY <1>0, <2>1
  <2> QED
    BY <1>2, <2>1, <2>2
<1>5. h[n] = OneByOne(ops, members)
  BY <1>1, <1>2, MembersUnfolds
<1> DEFINE T == {k \in 0..n : h[k] \in SUBSET MemberIds}
<1>6. 0..n \subseteq T
  <2>1. 0 \in T
    BY <1>1, <1>3
  <2>2. \A k \in 0..n - 1 : k \in T => k + 1 \in T
    <3> HIDE DEF h
    <3> TAKE k \in 0..n - 1
    <3> HAVE k \in T
    <3>1. k + 1 \in 1..n /\ (k + 1) - 1 = k /\ k + 1 \in 0..n
      BY <1>1
    <3> QED
      BY <3>1, <1>1, <1>4, AfterOperationType
  <2> HIDE DEF T
  <2> QED
    BY <1>1, <2>1, <2>2, UpTo
<1>7. h \in [0..n -> SUBSET MemberIds]
  BY <1>6 DEF MembersRun
<1> QED
  BY <1>3, <1>4, <1>5, <1>7

LEMMA OneByOneIs ==
  ASSUME NEW ops \in Seq(GroupOperation), NEW members \in SUBSET MemberIds,
         \A i, j \in DOMAIN ops : i < j => Adds(ops[i]) \cap Removes(ops[j]) = {}
  PROVE  OneByOne(ops, members) = (members \ RemovedBy(ops, Len(ops))) \cup AddedBy(ops, Len(ops))
<1> DEFINE n == Len(ops)
           h == MembersRun(ops, members)
           Is(m, k) == m = (members \ RemovedBy(ops, k)) \cup AddedBy(ops, k)
           T == {k \in 0..n : Is(h[k], k)}
<1>1. n \in Nat /\ DOMAIN ops = 1..n /\ \A k \in 1..n : ops[k] \in GroupOperation
  OBVIOUS
<1>2. /\ h[0] = members
      /\ \A k \in 1..n : h[k] = AfterOperation(h[k - 1], ops[k])
      /\ OneByOne(ops, members) = h[n]
  BY MembersRuns
<1> HIDE DEF h
<1>3. 0 \in T
  BY <1>1, <1>2, NoneYet
<1>4. ASSUME NEW k \in 0..n - 1, k \in T PROVE k + 1 \in T
  <2>1. k + 1 \in 1..n /\ (k + 1) - 1 = k /\ k + 1 \in 0..n /\ k \in Nat
        /\ \A i \in 1..k : i \in DOMAIN ops /\ i < k + 1 /\ k + 1 \in DOMAIN ops
    BY <1>1
  <2> DEFINE o == ops[k + 1]
  <2>2. h[k + 1] = (h[k] \ Removes(o)) \cup Adds(o)
    BY <1>2, <2>1 DEF AfterOperation
  <2>3. AddedBy(ops, k) \cap Removes(o) = {}
    BY <2>1 DEF AddedBy
  <2>4. /\ AddedBy(ops, k + 1) = AddedBy(ops, k) \cup Adds(o)
        /\ RemovedBy(ops, k + 1) = RemovedBy(ops, k) \cup Removes(o)
    BY <2>1, OneMore
  <2>5. Is(h[k], k)
    BY <1>4
  <2> HIDE DEF o
  <2>6. Is(h[k + 1], k + 1)
    BY <2>2, <2>3, <2>4, <2>5
  <2> QED
    BY <2>1, <2>6
<1>5. n \in T
  <2>1. 0..n \subseteq T
    <3> HIDE DEF T
    <3> QED
      BY <1>1, <1>3, <1>4, UpTo
  <2> QED
    BY <1>1, <2>1
<1> QED
  BY <1>1, <1>2, <1>5

(* Carrying out the removals before the additions makes the members that   *)
(* the operations make one after another, for lists of any length and any  *)
(* members, unless a user is added and then removed                        *)
(* (groups.service.ts:93-107).                                             *)
THEOREM MembersOneByOne == Spec => []MembersAsIfOneByOne
<1>1. Lists => MembersAsIfOneByOne
  <2> SUFFICES ASSUME Lists, GroupAccepted, NothingTakenBack, NEW members \in SUBSET MemberIds
               PROVE  PatchedMembers(members, ApplyGroupPatch(operations)) = OneByOne(operations, members)
    BY DEF MembersAsIfOneByOne
  <2>1. /\ operations \in Seq(OrNull(GroupOperation)) /\ operations \in Seq(GroupOperation)
        /\ ApplyGroupPatch(operations) # Thrown
    BY PatchAsks DEF Lists, GroupAccepted
  <2>2. \A i, j \in DOMAIN operations :
          i < j => Adds(operations[i]) \cap Removes(operations[j]) = {}
    BY DEF NothingTakenBack, Adding, Removing
  <2>3. PatchedMembers(members, ApplyGroupPatch(operations)) =
          (members \ RemovedBy(operations, Len(operations))) \cup AddedBy(operations, Len(operations))
    BY <2>1, AcceptedIds
  <2>4. OneByOne(operations, members) =
          (members \ RemovedBy(operations, Len(operations))) \cup AddedBy(operations, Len(operations))
    BY <2>1, <2>2, OneByOneIs
  <2> QED
    BY <2>3, <2>4
<1> QED
  BY <1>1, ListsOfOperations, PTL

-------------------------------------------------------------------------------
(* The displayName. *)

NoName(ops, k) == \A i \in 1..k : ~SaysName(ops[i])
LastName(name, ops, k) ==
  \E i \in 1..k : /\ SaysName(ops[i]) /\ name = NameSaid(ops[i])
                  /\ \A j \in 1..k : j > i => ~SaysName(ops[j])

LEMMA GroupNames ==
  ASSUME NEW ops \in Seq(GroupOperation), ApplyGroupPatch(ops) # Thrown
  PROVE  \/ NoName(ops, Len(ops)) /\ ApplyGroupPatch(ops).displayName = Undefined
         \/ LastName(ApplyGroupPatch(ops).displayName, ops, Len(ops))
<1> DEFINE n == Len(ops)
           h == GroupRun(ops)
           Told(r, k) == \/ NoName(ops, k) /\ r.displayName = Undefined
                         \/ LastName(r.displayName, ops, k)
           T == {k \in 0..n : h[k] # Thrown => Told(h[k], k)}
<1>1. n \in Nat /\ DOMAIN ops = 1..n /\ \A k \in 1..n : ops[k] \in GroupOperation
  OBVIOUS
<1>2. /\ h \in [0..n -> GroupPatchResult \cup {Thrown}]
      /\ h[0] = NoGroupChange
      /\ \A k \in 1..n : h[k] = ApplyGroupOperation(h[k - 1], ops[k])
      /\ ApplyGroupPatch(ops) = h[n]
  BY AlsoWithNulls, GroupRuns DEF GroupOperation
<1> HIDE DEF h
<1>3. 0 \in T
  <2>1. NoGroupChange.displayName = Undefined /\ NoName(ops, 0)
    BY DEF NoGroupChange, NoName
  <2> QED
    BY <1>1, <1>2, <2>1
<1>4. ASSUME NEW k \in 0..n - 1, k \in T PROVE k + 1 \in T
  <2>1. k + 1 \in 1..n /\ (k + 1) - 1 = k /\ k + 1 \in 0..n /\ k \in 0..n
        /\ 1..k + 1 = 1..k \cup {k + 1} /\ \A i \in 1..k : i < k + 1 /\ ~(i > k + 1)
    BY <1>1
  <2> DEFINE o   == ops[k + 1]
             old == h[k]
             new == h[k + 1]
  <2>2. new = ApplyGroupOperation(old, o) /\ o \in GroupOperation /\ old \in GroupPatchResult \cup {Thrown}
    BY <1>1, <1>2, <2>1
  <2> SUFFICES ASSUME new # Thrown PROVE Told(new, k + 1)
    BY <2>1
  <2>3. old # Thrown /\ old \in GroupPatchResult
    BY <2>2 DEF ApplyGroupOperation
  <2>4. new = TakeOperation(old, o)
    BY <2>2, <2>3 DEF ApplyGroupOperation
  <2>5. new.displayName = IF SaysName(o) THEN NameSaid(o) ELSE old.displayName
    BY <2>2, <2>3, <2>4, TurnNames
  <2>6. Told(old, k)
    BY <1>4, <2>3
  <2> HIDE DEF new, old
  <2>7. CASE SaysName(o)
    <3>1. LastName(new.displayName, ops, k + 1)
      BY <2>1, <2>5, <2>7 DEF LastName
    <3> QED
      BY <3>1
  <2>8. CASE ~SaysName(o)
    <3>1. NoName(ops, k) => NoName(ops, k + 1)
      BY <2>1, <2>8 DEF NoName
    <3>2. LastName(old.displayName, ops, k) => LastName(new.displayName, ops, k + 1)
      BY <2>1, <2>5, <2>8 DEF LastName
    <3> QED
      BY <2>5, <2>6, <2>8, <3>1, <3>2
  <2> QED
    BY <2>7, <2>8
<1>5. n \in T
  <2>1. 0..n \subseteq T
    <3> HIDE DEF T
    <3> QED
      BY <1>1, <1>3, <1>4, UpTo
  <2> QED
    BY <1>1, <2>1
<1> QED
  BY <1>1, <1>2, <1>5

(* displayName is what the last replacement of it says, for lists of any   *)
(* length.                                                                 *)
THEOREM TheLastDisplayName == Spec => []LastDisplayName
<1>1. Lists => LastDisplayName
  <2> DEFINE n      == Len(operations)
             says(o) == /\ o.op = "replace"
                        /\ o.path = "displayName" \/ (o.path = "" /\ Has(o.value, "displayName"))
             saying == {i \in DOMAIN operations : says(operations[i])}
             last   == CHOOSE i \in saying : \A j \in saying : j <= i
             name   == IF operations[last].path = "" THEN operations[last].value.val["displayName"]
                       ELSE operations[last].value
             got    == ApplyGroupPatch(operations).displayName
  <2> SUFFICES ASSUME Lists, resource = "group", ApplyGroupPatch(operations) # Thrown
               PROVE  got = IF saying = {} THEN Undefined ELSE ToText(name)
    BY DEF LastDisplayName
  <2>1. operations \in Seq(GroupOperation)
    BY PatchAsks DEF Lists
  <2>2. DOMAIN operations = 1..n /\ n \in Nat
    BY <2>1
  <2>3. saying = {i \in 1..n : SaysName(operations[i])}
    BY <2>2 DEF SaysName
  <2>4. \/ NoName(operations, n) /\ got = Undefined
        \/ LastName(got, operations, n)
    BY <2>1, GroupNames
  <2> HIDE DEF saying
  <2>5. CASE NoName(operations, n) /\ got = Undefined
    BY <2>3, <2>5 DEF NoName
  <2>6. CASE LastName(got, operations, n)
    <3>1. PICK i \in 1..n : /\ SaysName(operations[i]) /\ got = NameSaid(operations[i])
                            /\ \A j \in 1..n : j > i => ~SaysName(operations[j])
      BY <2>6 DEF LastName
    <3>2. i \in saying /\ \A j \in saying : j <= i
      BY <2>2, <2>3, <3>1
    <3>3. saying \subseteq Int
      BY <2>2, <2>3
    <3>4. \A x \in saying : (\A j \in saying : j <= x) => x = i
      BY <3>2, <3>3
    <3>5. last = i
      BY <3>2, <3>4
    <3> HIDE DEF last
    <3> QED
      BY <3>1, <3>2, <3>5 DEF NameSaid
  <2> QED
    BY <2>4, <2>5, <2>6
<1> QED
  BY <1>1, ListsOfOperations, PTL
===============================================================================
