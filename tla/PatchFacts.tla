------------------------------ MODULE PatchFacts ------------------------------
(***************************************************************************)
(* applyUserPatch and applyGroupPatch loop over a list of operations.      *)
(* Their folds as runs, a state after each turn of the loop, and what      *)
(* they return for every list.                                             *)
(***************************************************************************)
EXTENDS UserPatch, GroupPatch, FiniteSetTheorems, WellFoundedInduction, TLAPS

(***************************************************************************)
(* Induction up to n, of a set: the provers cannot instantiate an          *)
(* induction theorem whose parameter is an operator, but they can take the *)
(* least element of a set.                                                 *)
(***************************************************************************)
LEMMA Least ==
  ASSUME NEW T \in SUBSET Nat, T # {}
  PROVE  \E x \in T : \A y \in T : x <= y
<1> DEFINE R == OpToRel(<, Nat)
<1>1. IsWellFoundedOn(R, Nat)
  BY NatLessThanWellFounded
<1>2. \A x, y \in Nat : <<y, x>> \in R <=> y < x
  BY DEF OpToRel
<1> HIDE DEF R
<1>3. PICK x \in T : \A y \in T : ~ (<<y, x>> \in R)
  BY <1>1, WFMin
<1>4. ASSUME NEW y \in T PROVE x <= y
  <2>1. x \in Nat /\ y \in Nat /\ ~(<<y, x>> \in R)
    BY <1>3
  <2>2. ~(y < x)
    BY <2>1, <1>2, Zenon
  <2> QED
    BY <2>1, <2>2
<1> QED
  BY <1>4

LEMMA UpTo ==
  ASSUME NEW n \in Nat, NEW T,
         0 \in T,
         \A k \in 0..n - 1 : k \in T => k + 1 \in T
  PROVE  0..n \subseteq T
<1> DEFINE Missing == {k \in 0..n : k \notin T}
<1>1. SUFFICES ASSUME Missing # {} PROVE FALSE
  OBVIOUS
<1>2. Missing \in SUBSET Nat
  OBVIOUS
<1>3. PICK x \in Missing : \A y \in Missing : x <= y
  BY <1>1, <1>2, Least
<1>4. x \in 0..n /\ x \notin T /\ x # 0
  BY <1>3
<1>5. x - 1 \in 0..n - 1 /\ x - 1 \notin Missing
  BY <1>3, <1>4
<1>6. x - 1 \in T
  BY <1>5
<1> QED
  BY <1>4, <1>5, <1>6

(***************************************************************************)
(* FoldLeft goes through the sets of indexes, the greatest index last: the *)
(* function on these sets that it stands for exists.                       *)
(***************************************************************************)
LEMMA GreatestOf ==
  ASSUME NEW m \in Nat, NEW s \in SUBSET (1..m + 1), m + 1 \in s
  PROVE  Max(s) = m + 1
<1> DEFINE is(x) == x \in s /\ \A y \in s : x >= y
<1>0. \A y \in s : y \in Int /\ m + 1 >= y
  OBVIOUS
<1>1. is(m + 1) /\ \A x : is(x) => x = m + 1
  <2>1. ASSUME NEW x, is(x) PROVE x = m + 1
    <3>1. x \in Int /\ m + 1 >= x /\ x >= m + 1
      BY <2>1, <1>0
    <3> QED
      BY <3>1
  <2> QED
    BY <1>0, <2>1
<1>2. (CHOOSE x : is(x)) = m + 1
  <2>1. is(CHOOSE x : is(x))
    BY <1>1
  <2> QED
    BY <2>1, <1>1
<1> QED
  BY <1>2 DEF Max

LEMMA GreatestIn ==
  ASSUME NEW n \in Nat, NEW s \in SUBSET (1..n), s # {}
  PROVE  Max(s) \in s /\ \A y \in s : Max(s) >= y
<1> DEFINE T == {k \in 0..n : s \cap 1..k = {} \/ \E x \in s : \A y \in s \cap 1..k : x >= y}
<1>1. 0 \in T
  OBVIOUS
<1>2. ASSUME NEW k \in 0..n - 1, k \in T PROVE k + 1 \in T
  <2>1. CASE k + 1 \in s
    <3>1. \A y \in s \cap 1..k + 1 : k + 1 >= y
      OBVIOUS
    <3> QED
      BY <2>1, <3>1
  <2>2. CASE k + 1 \notin s
    <3>1. s \cap 1..k + 1 = s \cap 1..k
      BY <2>2
    <3> QED
      BY <3>1, <1>2
  <2> QED
    BY <2>1, <2>2
<1>3. n \in T
  <2> HIDE DEF T
  <2> QED
    BY <1>1, <1>2, UpTo
<1>4. \E x \in s : \A y \in s : x >= y
  <2>1. s \cap 1..n = s
    OBVIOUS
  <2> QED
    BY <1>3, <2>1
<1> QED
  BY <1>4, Zenon DEF Max

LEMMA FirstOf ==
  ASSUME NEW k \in Nat \ {0}
  PROVE  1..k # {} /\ Max(1..k) = k /\ (1..k) \ {k} = 1..k - 1
<1>1. k - 1 \in Nat /\ (k - 1) + 1 = k /\ 1..k \in SUBSET (1..(k - 1) + 1) /\ k \in 1..k
  OBVIOUS
<1>2. Max(1..k) = (k - 1) + 1
  BY <1>1, GreatestOf
<1>3. (1..k) \ {k} = 1..k - 1
  OBVIOUS
<1> QED
  BY <1>1, <1>2, <1>3

LEMMA EmptyInterval == 1..0 = {}
OBVIOUS

Folds(g, m, base, turn) ==
  \A s \in SUBSET (1..m) :
    g[s] = IF s = {} THEN base ELSE turn[Max(s)][g[s \ {Max(s)}]]

LEMMA FoldExists ==
  ASSUME NEW n \in Nat, NEW S, NEW base \in S, NEW turn \in [1..n -> [S -> S]]
  PROVE  \E g \in [SUBSET (1..n) -> S] : Folds(g, n, base, turn)
<1> USE DEF Folds
<1> DEFINE Is(m, g) == Folds(g, m, base, turn)
           T == {m \in 0..n : \E g \in [SUBSET (1..m) -> S] : Is(m, g)}
<1>1. 0 \in T
  <2>1. SUBSET (1..0) = {{}}
    OBVIOUS
  <2>2. [s \in {{}} |-> base] \in [{{}} -> S] /\ [s \in {{}} |-> base][{}] = base
    OBVIOUS
  <2>3. Is(0, [s \in {{}} |-> base])
    BY <2>1, <2>2
  <2> DEFINE g0 == [s \in {{}} |-> base]
  <2>4. g0 \in [SUBSET (1..0) -> S] /\ Is(0, g0)
    BY <2>1, <2>2, <2>3
  <2>5. 0 \in 0..n
    OBVIOUS
  <2> HIDE DEF g0
  <2> QED
    BY <2>4, <2>5
<1>2. ASSUME NEW m \in 0..n - 1, m \in T PROVE m + 1 \in T
  <2>1. PICK g \in [SUBSET (1..m) -> S] : Is(m, g)
    BY <1>2
  <2> DEFINE last == m + 1
             h == [s \in SUBSET (1..last) |->
                     IF last \in s THEN turn[last][g[s \ {last}]] ELSE g[s]]
  <2>2. last \in 1..n /\ m \in Nat /\ last \notin 1..m /\ last \in Nat
    OBVIOUS
  <2>3. \A s \in SUBSET (1..last) : /\ s \ {last} \in SUBSET (1..m)
                                     /\ last \notin s => s \in SUBSET (1..m)
    BY <2>2
  <2>4. turn[last] \in [S -> S]
    BY <2>2
  <2>5. h \in [SUBSET (1..last) -> S]
    BY <2>3, <2>4
  <2>6. ASSUME NEW s \in SUBSET (1..last)
        PROVE  h[s] = IF s = {} THEN base ELSE turn[Max(s)][h[s \ {Max(s)}]]
    <3>1. CASE last \in s
      <4>1. Max(s) = last
        BY <3>1, <2>2, GreatestOf
      <4>2. s \ {last} \in SUBSET (1..last) /\ h[s \ {last}] = g[s \ {last}]
        BY <2>3
      <4> QED
        BY <3>1, <4>1, <4>2
    <3>2. CASE last \notin s
      <4>1. s \in SUBSET (1..m) /\ h[s] = g[s]
        BY <2>3, <3>2
      <4>2. h[s \ {Max(s)}] = g[s \ {Max(s)}]
        BY <3>2, <2>3
      <4>3. g[s] = IF s = {} THEN base ELSE turn[Max(s)][g[s \ {Max(s)}]]
        BY <4>1, <2>1
      <4> QED
        BY <4>1, <4>2, <4>3
    <3> QED
      BY <3>1, <3>2
  <2>7. Is(last, h)
    BY <2>6
  <2>8. last \in 0..n
    BY <2>2
  <2> HIDE DEF h
  <2> QED
    BY <2>5, <2>7, <2>8
<1>3. 0..n \subseteq T
  <2> HIDE DEF T
  <2> QED
    BY <1>1, <1>2, UpTo
<1>4. n \in T
  <2> HIDE DEF T
  <2> QED
    BY <1>3
<1> QED
  BY <1>4

-------------------------------------------------------------------------------
(* The elements of a sequence. *)

LEMMA ElementsOfAppend ==
  ASSUME NEW S, NEW s \in Seq(S), NEW e
  PROVE  Elements(Append(s, e)) = Elements(s) \cup {e}
<1> DEFINE n == Len(s)
<1>1. n \in Nat /\ DOMAIN s = 1..n
  OBVIOUS
<1>2. /\ DOMAIN Append(s, e) = 1..n + 1
      /\ Append(s, e)[n + 1] = e
      /\ \A i \in 1..n : Append(s, e)[i] = s[i]
  OBVIOUS
<1>3. 1..n + 1 = 1..n \cup {n + 1}
  BY <1>1
<1> HIDE DEF n
<1> QED
  BY <1>1, <1>2, <1>3 DEF Elements

LEMMA ElementsOfConcat ==
  ASSUME NEW S, NEW s \in Seq(S), NEW t \in Seq(S)
  PROVE  Elements(s \o t) = Elements(s) \cup Elements(t)
<1>1. /\ s \o t \in Seq(S) /\ Len(s \o t) = Len(s) + Len(t)
      /\ \A i \in 1..Len(s) : (s \o t)[i] = s[i]
      /\ \A i \in 1..Len(t) : (s \o t)[Len(s) + i] = t[i]
  OBVIOUS
<1>2. /\ DOMAIN s = 1..Len(s) /\ DOMAIN t = 1..Len(t) /\ DOMAIN (s \o t) = 1..Len(s) + Len(t)
      /\ Len(s) \in Nat /\ Len(t) \in Nat
  BY <1>1
<1>3. /\ \A i \in 1..Len(s) : i \in 1..Len(s) + Len(t)
      /\ \A i \in 1..Len(t) : Len(s) + i \in 1..Len(s) + Len(t)
      /\ \A i \in 1..Len(s) + Len(t) : i \in 1..Len(s) \/ i - Len(s) \in 1..Len(t)
      /\ \A i \in 1..Len(s) + Len(t) : Len(s) + (i - Len(s)) = i
  BY <1>2
<1> HIDE DEF Elements
<1>4. ASSUME NEW x \in Elements(s \o t) PROVE x \in Elements(s) \cup Elements(t)
  <2>1. PICK i \in 1..Len(s) + Len(t) : x = (s \o t)[i]
    BY <1>2 DEF Elements
  <2>2. CASE i \in 1..Len(s)
    BY <1>1, <1>2, <2>1, <2>2 DEF Elements
  <2>3. CASE i - Len(s) \in 1..Len(t)
    <3>1. x = t[i - Len(s)]
      BY <1>1, <1>3, <2>1, <2>3
    <3> QED
      BY <1>2, <2>3, <3>1 DEF Elements
  <2> QED
    BY <1>3, <2>2, <2>3
<1>5. ASSUME NEW x \in Elements(s) \cup Elements(t) PROVE x \in Elements(s \o t)
  <2>1. CASE x \in Elements(s)
    <3>1. PICK i \in 1..Len(s) : x = s[i]
      BY <1>2, <2>1 DEF Elements
    <3> QED
      BY <1>1, <1>2, <1>3, <3>1 DEF Elements
  <2>2. CASE x \in Elements(t)
    <3>1. PICK i \in 1..Len(t) : x = t[i]
      BY <1>2, <2>2 DEF Elements
    <3> QED
      BY <1>1, <1>2, <1>3, <3>1 DEF Elements
  <2> QED
    BY <2>1, <2>2
<1> QED
  BY <1>4, <1>5

LEMMA ElementsOf ==
  ASSUME NEW S, NEW s \in Seq(S)
  PROVE  Elements(s) \subseteq S
BY DEF Elements

LEMMA SeqOfElements ==
  ASSUME NEW S, NEW s \in Seq(S), NEW T, Elements(s) \subseteq T
  PROVE  s \in Seq(T)
<1>1. \A i \in 1..Len(s) : s[i] \in T
  BY DEF Elements
<1> QED
  BY <1>1

-------------------------------------------------------------------------------
(* Values, and what the conversions make of them. *)

LEMMA TypesOfJson ==
  ASSUME NEW v \in Json
  PROVE  /\ v.type \in {"undefined", "null", "boolean", "number", "string", "array", "object"}
         /\ v.type = "boolean" => v.val \in BOOLEAN
         /\ v.type = "number"  => v.val \in Int
         /\ v.type = "string"  => v.val \in STRING
         /\ v.type = "array"   => v.val \in Seq(Json)
         /\ v.type = "object"  => v.val \in [DOMAIN v.val -> Json]
BY JsonAssumption DEF JUndefined, JNull

LEMMA ConversionTypes ==
  ASSUME NEW v \in Json
  PROVE  /\ ToText(v) \in STRING
         /\ ToBoolean(v) \in BOOLEAN
         /\ AsColumn(v) \in STRING \cup {Undefined, Null, IllTyped}
         /\ \A k : Prop(v, k) \in Json
         /\ \A k : Has(v, k) => v.val[k] \in Json
         /\ NonEmptyArray(v) => v.val[1] \in Json
<1>1. ToText(v) \in STRING
  <2>1. CASE v.type = "string"
    BY <2>1, TypesOfJson DEF ToText
  <2>2. CASE v.type = "boolean"
    BY <2>2, TextsAssumption DEF ToText
  <2>3. CASE v.type = "object"
    BY <2>3, TextsAssumption DEF ToText
  <2>4. CASE v.type \notin {"string", "boolean", "object"}
    <3>1. ToText(v) = v.type
      BY <2>4 DEF ToText
    <3>2. v.type \in STRING
      BY <2>4, TypesOfJson, TextsAssumption
    <3> QED
      BY <3>1, <3>2
  <2> QED
    BY <2>1, <2>2, <2>3, <2>4
<1>2. ToBoolean(v) \in BOOLEAN
  BY TypesOfJson DEF ToBoolean
<1>3. AsColumn(v) \in STRING \cup {Undefined, Null, IllTyped}
  <2>1. ASSUME NEW w \in Json, Settable(w) PROVE Contents(w) \in STRING \cup {Null}
    BY <2>1, TypesOfJson DEF Settable, Contents
  <2>2. Setting(v) => v.val["set"] \in Json /\ Settable(v.val["set"])
    BY TypesOfJson DEF Setting
  <2> QED
    BY <2>1, <2>2 DEF AsColumn
<1>4. \A k : Has(v, k) => v.val[k] \in Json
  BY TypesOfJson DEF Has
<1>5. \A k : Prop(v, k) \in Json
  BY <1>4, JsonAssumption DEF Prop
<1>6. NonEmptyArray(v) => v.val[1] \in Json
  <2>1. ASSUME NEW s \in Seq(Json), s # <<>> PROVE s[1] \in Json
    BY <2>1
  <2> QED
    BY <2>1, TypesOfJson DEF NonEmptyArray
<1> QED
  BY <1>1, <1>2, <1>3, <1>4, <1>5, <1>6

-------------------------------------------------------------------------------
(* One turn of applyUserPatch. *)

ColumnValues == STRING \cup {Undefined, Null, IllTyped}

LEMMA SetOptionalType ==
  ASSUME NEW fields \in UserPatchFields, NEW c, NEW x \in ColumnValues
  PROVE  SetOptional(fields, c, x) \in UserPatchFields
BY DEF SetOptional, UserPatchFields, ColumnValues

LEMMA EmailOfArrayType ==
  ASSUME NEW v \in Json, NonEmptyArray(v)
  PROVE  EmailOfArray(v) \in ColumnValues
<1>1. v.val[1] \in Json /\ Prop(v.val[1], "value") \in Json
  BY ConversionTypes
<1> QED
  BY <1>1, ConversionTypes DEF EmailOfArray, ColumnValues

LEMMA ApplyValueForPathType ==
  ASSUME NEW fields \in UserPatchFields, NEW path, NEW v \in Json
  PROVE  ApplyValueForPath(fields, path, v) \in UserPatchFields \cup {Thrown}
<1>1. ToText(v) \in ColumnValues /\ ToText(v) \in STRING /\ ToBoolean(v) \in BOOLEAN
  BY ConversionTypes DEF ColumnValues
<1>2. /\ [fields EXCEPT !.active = ToBoolean(v)] \in UserPatchFields
      /\ [fields EXCEPT !.userName = ToText(v)] \in UserPatchFields
  BY <1>1 DEF UserPatchFields
<1>3. \A c : SetOptional(fields, c, ToText(v)) \in UserPatchFields
  BY <1>1, SetOptionalType
<1>4. NonEmptyArray(v) => SetOptional(fields, "email", EmailOfArray(v)) \in UserPatchFields
  BY EmailOfArrayType, SetOptionalType
<1>5. v.type = "string" => SetOptional(fields, "email", v.val) \in UserPatchFields
  BY TypesOfJson, SetOptionalType DEF ColumnValues
<1> QED
  BY <1>2, <1>3, <1>4, <1>5 DEF ApplyValueForPath

LEMMA AssignFromObjectType ==
  ASSUME NEW fields \in UserPatchFields, NEW v \in Json
  PROVE  AssignFromObject(fields, v) \in UserPatchFields
<1> DEFINE name   == Prop(v, "name")
           emails == Prop(v, "emails")
           active   == IF Has(v, "active") THEN ToBoolean(v.val["active"]) ELSE fields.active
           userName == IF Has(v, "userName") THEN ToText(v.val["userName"]) ELSE fields.userName
           old      == fields.optional
           sub(k) == IF Prop(name, k) = JUndefined THEN old[k] ELSE AsColumn(Prop(name, k))
           column(c) == CASE c = "externalId" -> IF Has(v, c) THEN ToText(v.val[c]) ELSE old[c]
                          [] c \in {"givenName", "familyName"} -> sub(c)
                          [] c = "email" -> IF NonEmptyArray(emails)
                                            THEN AsColumn(Prop(emails.val[1], "value"))
                                            ELSE old[c]
           optional == [c \in OptionalColumns |-> column(c)]
<1>1. name \in Json /\ emails \in Json /\ \A k : Prop(name, k) \in Json
  BY ConversionTypes
<1>2. active \in BOOLEAN \cup {Undefined} /\ userName \in STRING \cup {Undefined}
  BY ConversionTypes DEF UserPatchFields
<1>3. ASSUME NEW c \in OptionalColumns PROVE column(c) \in ColumnValues
  <2>1. old[c] \in ColumnValues
    BY DEF UserPatchFields, ColumnValues
  <2>2. Has(v, c) => ToText(v.val[c]) \in ColumnValues
    BY ConversionTypes DEF ColumnValues
  <2>3. sub(c) \in ColumnValues
    BY <1>1, <2>1, ConversionTypes DEF ColumnValues
  <2>4. NonEmptyArray(emails) => AsColumn(Prop(emails.val[1], "value")) \in ColumnValues
    BY <1>1, ConversionTypes DEF ColumnValues
  <2> HIDE DEF sub, emails, old
  <2> QED
    BY <2>1, <2>2, <2>3, <2>4 DEF OptionalColumns
<1>4. optional \in [OptionalColumns -> ColumnValues]
  <2> HIDE DEF column
  <2> QED
    BY <1>3
<1>5. [active |-> active, userName |-> userName, optional |-> optional] \in UserPatchFields
  <2> HIDE DEF active, userName, optional
  <2> QED
    BY <1>2, <1>4 DEF UserPatchFields, ColumnValues
<1> QED
  BY <1>5 DEF AssignFromObject

LEMMA ApplyValueObjectType ==
  ASSUME NEW fields \in UserPatchFields, NEW v \in Json
  PROVE  ApplyValueObject(fields, v) \in UserPatchFields \cup {Thrown}
BY AssignFromObjectType DEF ApplyValueObject

LEMMA ApplyOperationType ==
  ASSUME NEW fields \in UserPatchFields \cup {Thrown}, NEW o \in OrNull(Operation)
  PROVE  ApplyOperation(fields, o) \in UserPatchFields \cup {Thrown}
<1>1. o = JNull \/ o.value \in Json
  BY DEF Operation, OrNull
<1> QED
  BY <1>1, ApplyValueForPathType, ApplyValueObjectType DEF ApplyOperation

-------------------------------------------------------------------------------
(* The runs of applyUserPatch. *)

LEMMA NoFieldsType == NoFields \in UserPatchFields
BY DEF NoFields, UserPatchFields

UserIter(ops) ==
  CHOOSE iter :
    iter = [s \in SUBSET DOMAIN ops |->
              IF s = {} THEN NoFields ELSE ApplyOperation(iter[s \ {Max(s)}], ops[Max(s)])]

LEMMA UserUnfolds ==
  ASSUME NEW ops
  PROVE  ApplyUserPatch(ops) = UserIter(ops)[DOMAIN ops]
BY ZenonT(20) DEF ApplyUserPatch, FoldLeft, MapThenFoldSet, UserIter

LEMMA UserIterIs ==
  ASSUME NEW ops \in Seq(OrNull(Operation))
  PROVE  UserIter(ops) =
           [s \in SUBSET DOMAIN ops |->
              IF s = {} THEN NoFields
              ELSE ApplyOperation(UserIter(ops)[s \ {Max(s)}], ops[Max(s)])]
<1> DEFINE n == Len(ops)
           S == UserPatchFields \cup {Thrown}
           turn == [k \in 1..n |-> [x \in S |-> ApplyOperation(x, ops[k])]]
<1>1. n \in Nat /\ DOMAIN ops = 1..n /\ \A k \in 1..n : ops[k] \in OrNull(Operation)
  OBVIOUS
<1>2. turn \in [1..n -> [S -> S]]
  BY <1>1, ApplyOperationType
<1>3. NoFields \in S
  BY NoFieldsType
<1>4. PICK g \in [SUBSET (1..n) -> S] :
        Folds(g, n, NoFields, turn)
  <2> HIDE DEF turn, S, n
  <2> QED
    BY <1>1, <1>2, <1>3, FoldExists
<1>5. ASSUME NEW s \in SUBSET (1..n)
      PROVE  g[s] = IF s = {} THEN NoFields ELSE ApplyOperation(g[s \ {Max(s)}], ops[Max(s)])
  <2>1. CASE s # {}
    <3>1. Max(s) \in 1..n /\ g[s \ {Max(s)}] \in S
      BY <1>1, <2>1, GreatestIn
    <3> QED
      BY <3>1, <2>1, <1>4 DEF Folds
  <2> QED
    BY <2>1, <1>4 DEF Folds
<1>6. g = [s \in SUBSET DOMAIN ops |->
             IF s = {} THEN NoFields ELSE ApplyOperation(g[s \ {Max(s)}], ops[Max(s)])]
  BY <1>1, <1>4, <1>5
<1> QED
  BY <1>6 DEF UserIter

(* The fields after each operation. *)
UserRun(ops) == [k \in 0..Len(ops) |-> UserIter(ops)[1..k]]

LEMMA UserRuns ==
  ASSUME NEW ops \in Seq(OrNull(Operation))
  PROVE  /\ UserRun(ops) \in [0..Len(ops) -> UserPatchFields \cup {Thrown}]
         /\ UserRun(ops)[0] = NoFields
         /\ \A k \in 1..Len(ops) : UserRun(ops)[k] = ApplyOperation(UserRun(ops)[k - 1], ops[k])
         /\ ApplyUserPatch(ops) = UserRun(ops)[Len(ops)]
<1> DEFINE n == Len(ops)
           h == UserRun(ops)
<1>1. n \in Nat /\ DOMAIN ops = 1..n /\ \A k \in 1..n : ops[k] \in OrNull(Operation)
  OBVIOUS
<1>2. \A k \in 0..n : h[k] = UserIter(ops)[1..k]
  BY DEF UserRun
<1> DEFINE f == UserIter(ops)
<1>0. \A s \in SUBSET (1..n) :
        f[s] = IF s = {} THEN NoFields ELSE ApplyOperation(f[s \ {Max(s)}], ops[Max(s)])
  <2>1. f = [s \in SUBSET DOMAIN ops |->
               IF s = {} THEN NoFields ELSE ApplyOperation(f[s \ {Max(s)}], ops[Max(s)])]
    BY UserIterIs
  <2> HIDE DEF f
  <2> QED
    BY <1>1, <2>1
<1>3. h[0] = NoFields
  <2>1. {} \in SUBSET (1..n) /\ 1..0 = {} /\ 0 \in 0..n
    BY <1>1, EmptyInterval
  <2> HIDE DEF f
  <2> QED
    BY <1>0, <1>2, <2>1 DEF f
<1>4. ASSUME NEW k \in 1..n PROVE h[k] = ApplyOperation(h[k - 1], ops[k])
  <2>1. /\ 1..k \in SUBSET (1..n) /\ 1..k # {} /\ Max(1..k) = k /\ (1..k) \ {k} = 1..k - 1
        /\ k - 1 \in 0..n /\ k \in 0..n
    BY <1>1, FirstOf
  <2>2. f[1..k] = ApplyOperation(f[1..k - 1], ops[k])
    BY <1>0, <2>1
  <2> QED
    BY <1>2, <2>1, <2>2
<1>5. h[n] = ApplyUserPatch(ops)
  BY <1>1, <1>2, UserUnfolds
<1> DEFINE T == {k \in 0..n : h[k] \in UserPatchFields \cup {Thrown}}
<1>6. 0..n \subseteq T
  <2>1. 0 \in T
    BY <1>1, <1>3, NoFieldsType
  <2>2. \A k \in 0..n - 1 : k \in T => k + 1 \in T
    <3> HIDE DEF h
    <3> TAKE k \in 0..n - 1
    <3> HAVE k \in T
    <3>1. k + 1 \in 1..n /\ (k + 1) - 1 = k /\ k + 1 \in 0..n
      BY <1>1
    <3> QED
      BY <3>1, <1>1, <1>4, ApplyOperationType
  <2> HIDE DEF T
  <2> QED
    BY <1>1, <2>1, <2>2, UpTo
<1>7. h \in [0..n -> UserPatchFields \cup {Thrown}]
  BY <1>6 DEF UserRun
<1> QED
  BY <1>3, <1>4, <1>5, <1>7

LEMMA UserPatchType ==
  ASSUME NEW ops \in Seq(OrNull(Operation))
  PROVE  ApplyUserPatch(ops) \in UserPatchFields \cup {Thrown}
<1>1. Len(ops) \in 0..Len(ops)
  OBVIOUS
<1> QED
  BY <1>1, UserRuns

-------------------------------------------------------------------------------
(* The ids in a list of members. *)

Ids == Seq(Json)

LEMMA NoIdsType == <<>> \in Ids
BY DEF Ids

LEMMA PushIdType ==
  ASSUME NEW ids \in Ids, NEW member \in Json
  PROVE  PushId(ids, member) \in Ids
<1>1. Prop(member, "value") \in Json
  BY ConversionTypes
<1> QED
  BY <1>1 DEF PushId, Ids

IdsIter(list) ==
  CHOOSE iter :
    iter = [s \in SUBSET DOMAIN list |->
              IF s = {} THEN <<>> ELSE PushId(iter[s \ {Max(s)}], list[Max(s)])]

LEMMA IdsUnfolds ==
  ASSUME NEW list
  PROVE  FoldLeft(PushId, <<>>, list) = IdsIter(list)[DOMAIN list]
BY ZenonT(20) DEF FoldLeft, MapThenFoldSet, IdsIter

LEMMA IdsIterIs ==
  ASSUME NEW list \in Seq(Json)
  PROVE  IdsIter(list) =
           [s \in SUBSET DOMAIN list |->
              IF s = {} THEN <<>>
              ELSE PushId(IdsIter(list)[s \ {Max(s)}], list[Max(s)])]
<1> DEFINE n == Len(list)
           S == Ids
           turn == [k \in 1..n |-> [x \in S |-> PushId(x, list[k])]]
<1>1. n \in Nat /\ DOMAIN list = 1..n /\ \A k \in 1..n : list[k] \in Json
  OBVIOUS
<1>2. turn \in [1..n -> [S -> S]]
  BY <1>1, PushIdType
<1>3. <<>> \in S
  BY NoIdsType
<1>4. PICK g \in [SUBSET (1..n) -> S] :
        Folds(g, n, <<>>, turn)
  <2> HIDE DEF turn, S, n
  <2> QED
    BY <1>1, <1>2, <1>3, FoldExists
<1>5. ASSUME NEW s \in SUBSET (1..n)
      PROVE  g[s] = IF s = {} THEN <<>> ELSE PushId(g[s \ {Max(s)}], list[Max(s)])
  <2>1. CASE s # {}
    <3>1. Max(s) \in 1..n /\ g[s \ {Max(s)}] \in S
      BY <1>1, <2>1, GreatestIn
    <3> QED
      BY <3>1, <2>1, <1>4 DEF Folds
  <2> QED
    BY <2>1, <1>4 DEF Folds
<1>6. g = [s \in SUBSET DOMAIN list |->
             IF s = {} THEN <<>> ELSE PushId(g[s \ {Max(s)}], list[Max(s)])]
  BY <1>1, <1>4, <1>5
<1> QED
  BY <1>6 DEF IdsIter

(* The ids after each member. *)
IdsRun(list) == [k \in 0..Len(list) |-> IdsIter(list)[1..k]]

LEMMA IdsRuns ==
  ASSUME NEW list \in Seq(Json)
  PROVE  /\ IdsRun(list) \in [0..Len(list) -> Ids]
         /\ IdsRun(list)[0] = <<>>
         /\ \A k \in 1..Len(list) : IdsRun(list)[k] = PushId(IdsRun(list)[k - 1], list[k])
         /\ FoldLeft(PushId, <<>>, list) = IdsRun(list)[Len(list)]
<1> DEFINE n == Len(list)
           h == IdsRun(list)
<1>1. n \in Nat /\ DOMAIN list = 1..n /\ \A k \in 1..n : list[k] \in Json
  OBVIOUS
<1>2. \A k \in 0..n : h[k] = IdsIter(list)[1..k]
  BY DEF IdsRun
<1> DEFINE f == IdsIter(list)
<1>0. \A s \in SUBSET (1..n) :
        f[s] = IF s = {} THEN <<>> ELSE PushId(f[s \ {Max(s)}], list[Max(s)])
  <2>1. f = [s \in SUBSET DOMAIN list |->
               IF s = {} THEN <<>> ELSE PushId(f[s \ {Max(s)}], list[Max(s)])]
    BY IdsIterIs
  <2> HIDE DEF f
  <2> QED
    BY <1>1, <2>1
<1>3. h[0] = <<>>
  <2>1. {} \in SUBSET (1..n) /\ 1..0 = {} /\ 0 \in 0..n
    BY <1>1, EmptyInterval
  <2> HIDE DEF f
  <2> QED
    BY <1>0, <1>2, <2>1 DEF f
<1>4. ASSUME NEW k \in 1..n PROVE h[k] = PushId(h[k - 1], list[k])
  <2>1. /\ 1..k \in SUBSET (1..n) /\ 1..k # {} /\ Max(1..k) = k /\ (1..k) \ {k} = 1..k - 1
        /\ k - 1 \in 0..n /\ k \in 0..n
    BY <1>1, FirstOf
  <2>2. f[1..k] = PushId(f[1..k - 1], list[k])
    BY <1>0, <2>1
  <2> QED
    BY <1>2, <2>1, <2>2
<1>5. h[n] = FoldLeft(PushId, <<>>, list)
  BY <1>1, <1>2, IdsUnfolds
<1> DEFINE T == {k \in 0..n : h[k] \in Ids}
<1>6. 0..n \subseteq T
  <2>1. 0 \in T
    BY <1>1, <1>3, NoIdsType
  <2>2. \A k \in 0..n - 1 : k \in T => k + 1 \in T
    <3> HIDE DEF h
    <3> TAKE k \in 0..n - 1
    <3> HAVE k \in T
    <3>1. k + 1 \in 1..n /\ (k + 1) - 1 = k /\ k + 1 \in 0..n
      BY <1>1
    <3> QED
      BY <3>1, <1>1, <1>4, PushIdType
  <2> HIDE DEF T
  <2> QED
    BY <1>1, <2>1, <2>2, UpTo
<1>7. h \in [0..n -> Ids]
  BY <1>6 DEF IdsRun
<1> QED
  BY <1>3, <1>4, <1>5, <1>7

(* Of the members that have an id, the ids. *)
LEMMA IdsOfMembers ==
  ASSUME NEW v \in Json
  PROVE  /\ IdsOf(v) \in Ids
         /\ Elements(IdsOf(v)) =
              IF v.type = "array"
              THEN {Prop(v.val[i], "value") : i \in {j \in DOMAIN v.val : ToBoolean(Prop(v.val[j], "value"))}}
              ELSE {}
<1> DEFINE list == v.val
           n == Len(list)
           h == IdsRun(list)
           Truthy(i) == ToBoolean(Prop(list[i], "value"))
           Upto(k) == {Prop(list[i], "value") : i \in {j \in 1..k : Truthy(j)}}
           T == {k \in 0..n : Elements(h[k]) = Upto(k)}
<1>1. CASE v.type # "array"
  BY <1>1, NoIdsType DEF IdsOf, Elements
<1>2. CASE v.type = "array"
  <2>1. list \in Seq(Json) /\ n \in Nat /\ DOMAIN list = 1..n
    BY <1>2, TypesOfJson
  <2>2. /\ h \in [0..n -> Ids] /\ h[0] = <<>> /\ IdsOf(v) = h[n]
        /\ \A k \in 1..n : h[k] = PushId(h[k - 1], list[k])
    BY <1>2, <2>1, IdsRuns DEF IdsOf
  <2>3. 0 \in T
    <3>1. 1..0 = {} /\ Elements(<<>>) = {}
      BY DEF Elements
    <3> QED
      BY <2>1, <2>2, <3>1
  <2>4. ASSUME NEW k \in 0..n - 1, k \in T PROVE k + 1 \in T
    <3>1. k + 1 \in 1..n /\ (k + 1) - 1 = k /\ k + 1 \in 0..n /\ k \in 0..n
      BY <2>1
    <3>2. h[k + 1] = PushId(h[k], list[k + 1]) /\ h[k] \in Ids
      BY <2>2, <3>1
    <3>3. Elements(h[k]) = Upto(k)
      BY <2>4
    <3>4. {j \in 1..k + 1 : Truthy(j)} =
            {j \in 1..k : Truthy(j)} \cup (IF Truthy(k + 1) THEN {k + 1} ELSE {})
      BY <3>1
    <3>5. Upto(k + 1) = Upto(k) \cup (IF Truthy(k + 1) THEN {Prop(list[k + 1], "value")} ELSE {})
      BY <3>4
    <3>6. Elements(PushId(h[k], list[k + 1])) =
            Elements(h[k]) \cup (IF Truthy(k + 1) THEN {Prop(list[k + 1], "value")} ELSE {})
      BY <3>2, ElementsOfAppend DEF PushId, Ids
    <3> QED
      BY <3>1, <3>2, <3>3, <3>5, <3>6
  <2>5. n \in T
    <3> HIDE DEF T
    <3>1. 0..n \subseteq T
      BY <2>1, <2>3, <2>4, UpTo
    <3> QED
      BY <2>1, <3>1
  <2> QED
    BY <1>2, <2>1, <2>2, <2>5
<1> QED
  BY <1>1, <1>2

-------------------------------------------------------------------------------
(* One turn of applyGroupPatch, and its runs. *)

LEMMA NoGroupChangeType == NoGroupChange \in GroupPatchResult
BY DEF NoGroupChange, GroupPatchResult

LEMMA WithIds ==
  ASSUME NEW result \in GroupPatchResult, NEW s \in Ids
  PROVE  /\ [result EXCEPT !.addMemberIds = s] \in GroupPatchResult
         /\ [result EXCEPT !.removeMemberIds = s] \in GroupPatchResult
BY DEF GroupPatchResult, Ids

LEMMA IdsOfResult ==
  ASSUME NEW result \in GroupPatchResult
  PROVE  result.addMemberIds \in Ids /\ result.removeMemberIds \in Ids
BY DEF GroupPatchResult, Ids

LEMMA TakeOperationType ==
  ASSUME NEW result \in GroupPatchResult, NEW o \in GroupOperation
  PROVE  TakeOperation(result, o) \in GroupPatchResult \cup {Thrown}
<1> DEFINE v == o.value
<1>1. v \in Json /\ IdsOf(v) \in Ids
  BY IdsOfMembers DEF GroupOperation, Operation
<1>2. AddMembers(result, v) \in GroupPatchResult \cup {Thrown}
  <2>1. result.addMemberIds \o IdsOf(v) \in Ids
    BY <1>1, IdsOfResult DEF Ids
  <2> QED
    BY <2>1, WithIds DEF AddMembers
<1>3. RemoveMembers(result, o.path, v) \in GroupPatchResult \cup {Thrown}
  <2>1. [result EXCEPT !.removeMemberIds = @ \o IdsOf(v)] \in GroupPatchResult
    <3>1. result.removeMemberIds \o IdsOf(v) \in Ids
      BY <1>1, IdsOfResult DEF Ids
    <3> QED
      BY <3>1, WithIds
  <2>2. ASSUME o.path \in DOMAIN PathIds
        PROVE  [result EXCEPT !.removeMemberIds = Append(@, JString(PathIds[o.path]))]
                 \in GroupPatchResult
    <3>1. JString(PathIds[o.path]) \in Json
      BY <2>2, PathIdsAssumption, MemberIdsAssumption
    <3>2. Append(result.removeMemberIds, JString(PathIds[o.path])) \in Ids
      BY <3>1, IdsOfResult DEF Ids
    <3> QED
      BY <3>2, WithIds
  <2> QED
    BY <2>1, <2>2 DEF RemoveMembers
<1>4. ReplaceAttributes(result, o.path, v) \in GroupPatchResult
  <2>1. /\ ToText(v) \in STRING
        /\ \A k : Has(v, k) => ToText(v.val[k]) \in STRING
    BY <1>1, ConversionTypes
  <2> QED
    BY <2>1 DEF ReplaceAttributes, GroupPatchResult
<1> QED
  BY <1>2, <1>3, <1>4 DEF TakeOperation

LEMMA ApplyGroupOperationType ==
  ASSUME NEW result \in GroupPatchResult \cup {Thrown}, NEW o \in OrNull(GroupOperation)
  PROVE  ApplyGroupOperation(result, o) \in GroupPatchResult \cup {Thrown}
BY TakeOperationType DEF ApplyGroupOperation, OrNull

GroupIter(ops) ==
  CHOOSE iter :
    iter = [s \in SUBSET DOMAIN ops |->
              IF s = {} THEN NoGroupChange ELSE ApplyGroupOperation(iter[s \ {Max(s)}], ops[Max(s)])]

LEMMA GroupUnfolds ==
  ASSUME NEW ops
  PROVE  ApplyGroupPatch(ops) = GroupIter(ops)[DOMAIN ops]
BY ZenonT(20) DEF ApplyGroupPatch, FoldLeft, MapThenFoldSet, GroupIter

LEMMA GroupIterIs ==
  ASSUME NEW ops \in Seq(OrNull(GroupOperation))
  PROVE  GroupIter(ops) =
           [s \in SUBSET DOMAIN ops |->
              IF s = {} THEN NoGroupChange
              ELSE ApplyGroupOperation(GroupIter(ops)[s \ {Max(s)}], ops[Max(s)])]
<1> DEFINE n == Len(ops)
           S == GroupPatchResult \cup {Thrown}
           turn == [k \in 1..n |-> [x \in S |-> ApplyGroupOperation(x, ops[k])]]
<1>1. n \in Nat /\ DOMAIN ops = 1..n /\ \A k \in 1..n : ops[k] \in OrNull(GroupOperation)
  OBVIOUS
<1>2. turn \in [1..n -> [S -> S]]
  BY <1>1, ApplyGroupOperationType
<1>3. NoGroupChange \in S
  BY NoGroupChangeType
<1>4. PICK g \in [SUBSET (1..n) -> S] :
        Folds(g, n, NoGroupChange, turn)
  <2> HIDE DEF turn, S, n
  <2> QED
    BY <1>1, <1>2, <1>3, FoldExists
<1>5. ASSUME NEW s \in SUBSET (1..n)
      PROVE  g[s] = IF s = {} THEN NoGroupChange ELSE ApplyGroupOperation(g[s \ {Max(s)}], ops[Max(s)])
  <2>1. CASE s # {}
    <3>1. Max(s) \in 1..n /\ g[s \ {Max(s)}] \in S
      BY <1>1, <2>1, GreatestIn
    <3> QED
      BY <3>1, <2>1, <1>4 DEF Folds
  <2> QED
    BY <2>1, <1>4 DEF Folds
<1>6. g = [s \in SUBSET DOMAIN ops |->
             IF s = {} THEN NoGroupChange ELSE ApplyGroupOperation(g[s \ {Max(s)}], ops[Max(s)])]
  BY <1>1, <1>4, <1>5
<1> QED
  BY <1>6 DEF GroupIter

(* The result after each operation. *)
GroupRun(ops) == [k \in 0..Len(ops) |-> GroupIter(ops)[1..k]]

LEMMA GroupRuns ==
  ASSUME NEW ops \in Seq(OrNull(GroupOperation))
  PROVE  /\ GroupRun(ops) \in [0..Len(ops) -> GroupPatchResult \cup {Thrown}]
         /\ GroupRun(ops)[0] = NoGroupChange
         /\ \A k \in 1..Len(ops) : GroupRun(ops)[k] = ApplyGroupOperation(GroupRun(ops)[k - 1], ops[k])
         /\ ApplyGroupPatch(ops) = GroupRun(ops)[Len(ops)]
<1> DEFINE n == Len(ops)
           h == GroupRun(ops)
<1>1. n \in Nat /\ DOMAIN ops = 1..n /\ \A k \in 1..n : ops[k] \in OrNull(GroupOperation)
  OBVIOUS
<1>2. \A k \in 0..n : h[k] = GroupIter(ops)[1..k]
  BY DEF GroupRun
<1> DEFINE f == GroupIter(ops)
<1>0. \A s \in SUBSET (1..n) :
        f[s] = IF s = {} THEN NoGroupChange ELSE ApplyGroupOperation(f[s \ {Max(s)}], ops[Max(s)])
  <2>1. f = [s \in SUBSET DOMAIN ops |->
               IF s = {} THEN NoGroupChange ELSE ApplyGroupOperation(f[s \ {Max(s)}], ops[Max(s)])]
    BY GroupIterIs
  <2> HIDE DEF f
  <2> QED
    BY <1>1, <2>1
<1>3. h[0] = NoGroupChange
  <2>1. {} \in SUBSET (1..n) /\ 1..0 = {} /\ 0 \in 0..n
    BY <1>1, EmptyInterval
  <2> HIDE DEF f
  <2> QED
    BY <1>0, <1>2, <2>1 DEF f
<1>4. ASSUME NEW k \in 1..n PROVE h[k] = ApplyGroupOperation(h[k - 1], ops[k])
  <2>1. /\ 1..k \in SUBSET (1..n) /\ 1..k # {} /\ Max(1..k) = k /\ (1..k) \ {k} = 1..k - 1
        /\ k - 1 \in 0..n /\ k \in 0..n
    BY <1>1, FirstOf
  <2>2. f[1..k] = ApplyGroupOperation(f[1..k - 1], ops[k])
    BY <1>0, <2>1
  <2> QED
    BY <1>2, <2>1, <2>2
<1>5. h[n] = ApplyGroupPatch(ops)
  BY <1>1, <1>2, GroupUnfolds
<1> DEFINE T == {k \in 0..n : h[k] \in GroupPatchResult \cup {Thrown}}
<1>6. 0..n \subseteq T
  <2>1. 0 \in T
    BY <1>1, <1>3, NoGroupChangeType
  <2>2. \A k \in 0..n - 1 : k \in T => k + 1 \in T
    <3> HIDE DEF h
    <3> TAKE k \in 0..n - 1
    <3> HAVE k \in T
    <3>1. k + 1 \in 1..n /\ (k + 1) - 1 = k /\ k + 1 \in 0..n
      BY <1>1
    <3> QED
      BY <3>1, <1>1, <1>4, ApplyGroupOperationType
  <2> HIDE DEF T
  <2> QED
    BY <1>1, <2>1, <2>2, UpTo
<1>7. h \in [0..n -> GroupPatchResult \cup {Thrown}]
  BY <1>6 DEF GroupRun
<1> QED
  BY <1>3, <1>4, <1>5, <1>7

LEMMA GroupPatchType ==
  ASSUME NEW ops \in Seq(OrNull(GroupOperation))
  PROVE  ApplyGroupPatch(ops) \in GroupPatchResult \cup {Thrown}
<1>1. Len(ops) \in 0..Len(ops)
  OBVIOUS
<1> QED
  BY <1>1, GroupRuns

(* A list with a null in it is not carried out. *)

LEMMA NullIsNoOperation == JNull \notin Operation
<1>1. DOMAIN JNull = {"type"}
  BY DEF JNull
<1>2. \A o \in Operation : DOMAIN o = {"op", "path", "value"}
  BY DEF Operation
<1>3. {"type"} # {"op", "path", "value"}
  OBVIOUS
<1> QED
  BY <1>1, <1>2, <1>3

LEMMA AlsoWithNulls ==
  ASSUME NEW Ops, NEW ops \in Seq(Ops)
  PROVE  ops \in Seq(OrNull(Ops))
<1>1. Ops \subseteq OrNull(Ops)
  BY DEF OrNull
<1> HIDE DEF OrNull
<1> QED
  BY <1>1

-------------------------------------------------------------------------------
(* What the runs of applyGroupPatch push. *)

TextsOf(ids)   == {v.val : v \in {w \in Elements(ids) : w.type = "string"}}
MatchedBy(ids) == UNION {Matching(v) : v \in Elements(ids)}

LEMMA IdsAreMemberValues ==
  ASSUME NEW o \in GroupOperation
  PROVE  /\ IdsOf(o.value) \in Ids
         /\ Elements(IdsOf(o.value)) = {w \in MemberValues(o) : ToBoolean(w)}
         /\ \A w \in Elements(IdsOf(o.value)) : w.type = "string" => w.val \in MemberIds
<1> DEFINE v == o.value
<1>1. v \in Json /\ \A w \in Elements(IdsOf(v)) : w.type = "string" => w.val \in MemberIds
  BY DEF GroupOperation, Operation
<1>2. /\ IdsOf(v) \in Ids
      /\ Elements(IdsOf(v)) =
           IF v.type = "array"
           THEN {Prop(v.val[i], "value") : i \in {j \in DOMAIN v.val : ToBoolean(Prop(v.val[j], "value"))}}
           ELSE {}
  BY <1>1, IdsOfMembers
<1>3. MemberValues(o) = IF v.type = "array"
                        THEN {Prop(v.val[i], "value") : i \in DOMAIN v.val} ELSE {}
  BY DEF MemberValues, Elements
<1> HIDE DEF v
<1>4. Elements(IdsOf(v)) = {w \in MemberValues(o) : ToBoolean(w)}
  BY <1>2, <1>3
<1> QED
  BY <1>1, <1>2, <1>4 DEF v

(* Whom an id matches, and that it is truthy when it matches anybody.      *)
LEMMA MatchingIs ==
  ASSUME NEW w
  PROVE  /\ w.type = "string" => Matching(w) = {w.val}
         /\ w.type # "string" => Matching(w) \subseteq MemberIds
         /\ Matching(w) \cap MemberIds # {} => ToBoolean(w)
<1>1. \A u \in MemberIds : u # ""
  BY MemberIdsAssumption
<1>2. w \in DOMAIN Filters => w.type = "object" /\ Filters[w] \subseteq MemberIds
  BY FiltersAssumption
<1>3. CASE w.type = "string"
  <2>1. Matching(w) = {w.val}
    BY <1>2, <1>3 DEF Matching
  <2>2. ToBoolean(w) <=> w.val # ""
    BY <1>3 DEF ToBoolean
  <2> QED
    BY <1>1, <1>3, <2>1, <2>2
<1>4. CASE w.type # "string" /\ w \in DOMAIN Filters
  <2>1. Matching(w) = Filters[w]
    BY <1>4 DEF Matching
  <2>2. ToBoolean(w)
    BY <1>2, <1>4 DEF ToBoolean
  <2> QED
    BY <1>2, <1>4, <2>1, <2>2
<1>5. CASE w.type # "string" /\ w \notin DOMAIN Filters
  BY <1>5 DEF Matching
<1> QED
  BY <1>3, <1>4, <1>5

(* The ids an operation pushes. *)
Added(o)   == IF o.op = "add" /\ o.path \in {"members", ""} THEN IdsOf(o.value) ELSE <<>>
Removed(o) ==
  IF o.op # "remove" THEN <<>>
  ELSE IF o.path = "members" THEN IdsOf(o.value)
  ELSE IF o.path \in DOMAIN PathIds
  THEN <<JString(PathIds[o.path])>>
  ELSE <<>>

LEMMA NoIds == <<>> \in Ids /\ TextsOf(<<>>) = {} /\ MatchedBy(<<>>) = {}
BY DEF Ids, TextsOf, MatchedBy, Elements

LEMMA PushedIsAsked ==
  ASSUME NEW o \in GroupOperation
  PROVE  /\ Added(o) \in Ids /\ Removed(o) \in Ids
         /\ TextsOf(Added(o)) = Adds(o)
         /\ MatchedBy(Removed(o)) = Removes(o)
<1> DEFINE ids == IdsOf(o.value)
<1>1. /\ ids \in Ids
      /\ Elements(ids) = {w \in MemberValues(o) : ToBoolean(w)}
      /\ \A w \in Elements(ids) : w.type = "string" => w.val \in MemberIds
  BY IdsAreMemberValues
<1> HIDE DEF ids
<1>2. TextsOf(ids) = {u \in MemberIds : \E w \in MemberValues(o) : w.type = "string" /\ w.val = u}
  <2>1. ASSUME NEW w \in MemberValues(o), w.type = "string", w.val \in MemberIds
        PROVE  ToBoolean(w)
    BY <2>1, MemberIdsAssumption DEF ToBoolean
  <2> QED
    BY <1>1, <2>1 DEF TextsOf
<1>3. MatchedBy(ids) = {u \in MemberIds : \E w \in MemberValues(o) : u \in Matching(w)}
  <2>1. \A w \in Elements(ids) : Matching(w) \subseteq MemberIds
    BY <1>1, MatchingIs
  <2>2. \A w \in MemberValues(o), u \in MemberIds : u \in Matching(w) => w \in Elements(ids)
    BY <1>1, MatchingIs
  <2> QED
    BY <1>1, <2>1, <2>2 DEF MatchedBy
<1>4. Added(o) \in Ids /\ TextsOf(Added(o)) = Adds(o)
  BY <1>1, <1>2, NoIds DEF Added, Adds, ids
<1>5. "members" \notin DOMAIN PathIds /\ \A p \in DOMAIN PathIds : PathIds[p] \in MemberIds
  BY PathIdsAssumption
<1>6. CASE o.op # "remove"
  BY <1>4, <1>6, NoIds DEF Removed, Removes
<1>7. CASE o.op = "remove" /\ o.path = "members"
  <2>1. Removed(o) = ids
    BY <1>7 DEF Removed, ids
  <2>2. Removes(o) = MatchedBy(ids)
    BY <1>3, <1>5, <1>7 DEF Removes
  <2> QED
    BY <1>1, <1>4, <2>1, <2>2
<1>8. CASE o.op = "remove" /\ o.path # "members" /\ o.path \in DOMAIN PathIds
  <2> DEFINE u0 == PathIds[o.path]
             w0 == JString(u0)
  <2>1. u0 \in MemberIds /\ w0 \in Json /\ w0.type = "string" /\ w0.val = u0
    BY <1>5, <1>8, MemberIdsAssumption DEF JString
  <2>2. Removed(o) = <<w0>> /\ Removes(o) = {u0}
    BY <1>5, <1>8 DEF Removed, Removes
  <2> HIDE DEF w0, u0
  <2>3. Elements(<<w0>>) = {w0}
    BY DEF Elements
  <2>4. MatchedBy(<<w0>>) = {u0}
    BY <2>1, <2>3, MatchingIs DEF MatchedBy
  <2> QED
    BY <1>4, <2>1, <2>2, <2>4 DEF Ids
<1>9. CASE o.op = "remove" /\ o.path # "members" /\ o.path \notin DOMAIN PathIds
  <2>1. Removed(o) = <<>> /\ Removes(o) = {}
    BY <1>9 DEF Removed, Removes
  <2> QED
    BY <1>4, <2>1, NoIds
<1> QED
  BY <1>6, <1>7, <1>8, <1>9

LEMMA TurnPushes ==
  ASSUME NEW r \in GroupPatchResult, NEW o \in GroupOperation, TakeOperation(r, o) # Thrown
  PROVE  /\ TakeOperation(r, o).addMemberIds = r.addMemberIds \o Added(o)
         /\ TakeOperation(r, o).removeMemberIds = r.removeMemberIds \o Removed(o)
<1> DEFINE new == TakeOperation(r, o)
           Says == /\ new.addMemberIds = r.addMemberIds \o Added(o)
                   /\ new.removeMemberIds = r.removeMemberIds \o Removed(o)
<1> SUFFICES Says
  OBVIOUS
<1>1. r.addMemberIds \o <<>> = r.addMemberIds /\ r.removeMemberIds \o <<>> = r.removeMemberIds
  BY IdsOfResult DEF Ids
<1>2. r \in [displayName : STRING \cup {Undefined}, externalId : STRING \cup {Undefined},
             addMemberIds : Seq(Json), removeMemberIds : Seq(Json)]
  BY DEF GroupPatchResult
<1>3. CASE o.op = "add" /\ o.path \in {"members", ""}
  <2>1. new = [r EXCEPT !.addMemberIds = @ \o IdsOf(o.value)]
    BY <1>3 DEF TakeOperation, AddMembers
  <2>2. Added(o) = IdsOf(o.value) /\ Removed(o) = <<>>
    BY <1>3 DEF Added, Removed
  <2> QED
    BY <1>1, <1>2, <2>1, <2>2
<1>4. CASE o.op = "remove" /\ o.path = "members"
  <2> DEFINE v == o.value
  <2>1. new = RemoveMembers(r, o.path, v)
    BY <1>4 DEF TakeOperation
  <2> HIDE DEF v
  <2>2. RemoveMembers(r, o.path, v) # Thrown
    BY <2>1
  <2>3. RemoveMembers(r, o.path, v) = [r EXCEPT !.removeMemberIds = @ \o IdsOf(v)]
    <3>1. "members" \notin DOMAIN PathIds
      BY PathIdsAssumption
    <3> QED
      BY <3>1, <2>2, <1>4 DEF RemoveMembers
  <2>4. new = [r EXCEPT !.removeMemberIds = @ \o IdsOf(o.value)]
    BY <2>1, <2>3 DEF v
  <2>5. Added(o) = <<>> /\ Removed(o) = IdsOf(o.value)
    BY <1>4 DEF Added, Removed
  <2> QED
    BY <1>1, <1>2, <2>4, <2>5
<1>5. CASE o.op = "remove" /\ o.path # "members" /\ o.path \in DOMAIN PathIds
  <2> DEFINE w0 == JString(PathIds[o.path])
  <2>1. new = [r EXCEPT !.removeMemberIds = Append(@, w0)]
    BY <1>5 DEF TakeOperation, RemoveMembers
  <2>2. Added(o) = <<>> /\ Removed(o) = <<w0>>
    BY <1>5 DEF Added, Removed
  <2>3. w0 \in Json
    BY <1>5, PathIdsAssumption, MemberIdsAssumption
  <2> HIDE DEF w0
  <2>4. Append(r.removeMemberIds, w0) = r.removeMemberIds \o <<w0>>
    BY <1>2, <2>3
  <2> QED
    BY <1>1, <1>2, <2>1, <2>2, <2>4
<1>6. CASE o.op = "remove" /\ o.path # "members" /\ o.path \notin DOMAIN PathIds
  <2>1. new = r
    BY <1>6 DEF TakeOperation, RemoveMembers
  <2>2. Added(o) = <<>> /\ Removed(o) = <<>>
    BY <1>6 DEF Added, Removed
  <2> QED
    BY <1>1, <2>1, <2>2
<1>7. CASE o.op = "replace"
  <2>1. new = ReplaceAttributes(r, o.path, o.value)
    BY <1>7 DEF TakeOperation
  <2>2. Added(o) = <<>> /\ Removed(o) = <<>>
    BY <1>7 DEF Added, Removed
  <2>3. new.addMemberIds = r.addMemberIds /\ new.removeMemberIds = r.removeMemberIds
    BY <1>2, <2>1 DEF ReplaceAttributes
  <2> QED
    BY <1>1, <2>2, <2>3
<1>8. CASE o.op \notin {"remove", "replace"} /\ ~(o.op = "add" /\ o.path \in {"members", ""})
  <2>1. new = r
    BY <1>8 DEF TakeOperation
  <2>2. Added(o) = <<>> /\ Removed(o) = <<>>
    BY <1>8 DEF Added, Removed
  <2> QED
    BY <1>1, <2>1, <2>2
<1> QED
  BY <1>3, <1>4, <1>5, <1>6, <1>7, <1>8

(* The users that one of the first k operations adds, or removes.          *)
AddedBy(ops, k)   == UNION {Adds(ops[i]) : i \in 1..k}
RemovedBy(ops, k) == UNION {Removes(ops[i]) : i \in 1..k}

LEMMA OneMore ==
  ASSUME NEW ops, NEW k \in Nat
  PROVE  /\ AddedBy(ops, k + 1) = AddedBy(ops, k) \cup Adds(ops[k + 1])
         /\ RemovedBy(ops, k + 1) = RemovedBy(ops, k) \cup Removes(ops[k + 1])
<1>1. 1..k + 1 = 1..k \cup {k + 1}
  OBVIOUS
<1> QED
  BY <1>1 DEF AddedBy, RemovedBy

LEMMA NoneYet == \A ops : AddedBy(ops, 0) = {} /\ RemovedBy(ops, 0) = {}
BY EmptyInterval DEF AddedBy, RemovedBy

LEMMA MorePushed ==
  ASSUME NEW s \in Ids, NEW t \in Ids
  PROVE  /\ TextsOf(s \o t) = TextsOf(s) \cup TextsOf(t)
         /\ MatchedBy(s \o t) = MatchedBy(s) \cup MatchedBy(t)
<1>1. Elements(s \o t) = Elements(s) \cup Elements(t)
  BY ElementsOfConcat DEF Ids
<1> QED
  BY <1>1 DEF TextsOf, MatchedBy

(* applyGroupPatch throws unless every operation is one, and the users its *)
(* result adds and removes are those its operations add and remove.        *)
LEMMA PatchAsks ==
  ASSUME NEW ops \in Seq(OrNull(GroupOperation)), ApplyGroupPatch(ops) # Thrown
  PROVE  /\ ops \in Seq(GroupOperation)
         /\ AddedIds(ApplyGroupPatch(ops)) = AddedBy(ops, Len(ops))
         /\ RemovedIds(ApplyGroupPatch(ops)) = RemovedBy(ops, Len(ops))
<1> DEFINE n == Len(ops)
           h == GroupRun(ops)
           Told(r, k) == /\ \A i \in 1..k : ops[i] \in GroupOperation
                         /\ TextsOf(r.addMemberIds) = AddedBy(ops, k)
                         /\ MatchedBy(r.removeMemberIds) = RemovedBy(ops, k)
           T == {k \in 0..n : h[k] # Thrown => Told(h[k], k)}
<1>1. n \in Nat /\ DOMAIN ops = 1..n /\ \A k \in 1..n : ops[k] \in OrNull(GroupOperation)
  OBVIOUS
<1>2. /\ h \in [0..n -> GroupPatchResult \cup {Thrown}]
      /\ h[0] = NoGroupChange
      /\ \A k \in 1..n : h[k] = ApplyGroupOperation(h[k - 1], ops[k])
      /\ ApplyGroupPatch(ops) = h[n]
  BY GroupRuns
<1> HIDE DEF h
<1>3. 0 \in T
  <2>1. NoGroupChange.addMemberIds = <<>> /\ NoGroupChange.removeMemberIds = <<>>
    BY DEF NoGroupChange
  <2>2. Told(NoGroupChange, 0)
    <3>1. AddedBy(ops, 0) = {} /\ RemovedBy(ops, 0) = {}
      BY NoneYet
    <3>2. /\ TextsOf(NoGroupChange.addMemberIds) = {}
          /\ MatchedBy(NoGroupChange.removeMemberIds) = {}
      BY <2>1, NoIds
    <3>3. \A i \in 1..0 : ops[i] \in GroupOperation
      BY EmptyInterval
    <3> QED
      BY <3>1, <3>2, <3>3
  <2> QED
    BY <1>1, <1>2, <2>2
<1>4. ASSUME NEW k \in 0..n - 1, k \in T PROVE k + 1 \in T
  <2>1. k + 1 \in 1..n /\ (k + 1) - 1 = k /\ k + 1 \in 0..n /\ k \in 0..n /\ k \in Nat
        /\ 1..k + 1 = 1..k \cup {k + 1}
    BY <1>1
  <2> DEFINE o   == ops[k + 1]
             old == h[k]
             new == h[k + 1]
  <2>2. new = ApplyGroupOperation(old, o) /\ o \in OrNull(GroupOperation)
        /\ old \in GroupPatchResult \cup {Thrown}
    BY <1>1, <1>2, <2>1
  <2> SUFFICES ASSUME new # Thrown PROVE Told(new, k + 1)
    BY <2>1
  <2>3. old # Thrown /\ old \in GroupPatchResult /\ o \in GroupOperation
        /\ new = TakeOperation(old, o)
    BY <2>2 DEF ApplyGroupOperation, OrNull
  <2>4. /\ new.addMemberIds = old.addMemberIds \o Added(o)
        /\ new.removeMemberIds = old.removeMemberIds \o Removed(o)
    BY <2>3, TurnPushes
  <2>5. Told(old, k)
    BY <1>4, <2>3
  <2> HIDE DEF new, old
  <2>6. /\ old.addMemberIds \in Ids /\ old.removeMemberIds \in Ids
        /\ Added(o) \in Ids /\ Removed(o) \in Ids
        /\ TextsOf(Added(o)) = Adds(o)
        /\ MatchedBy(Removed(o)) = Removes(o)
    BY <2>3, IdsOfResult, PushedIsAsked
  <2>7. /\ TextsOf(new.addMemberIds) = TextsOf(old.addMemberIds) \cup Adds(o)
        /\ MatchedBy(new.removeMemberIds) = MatchedBy(old.removeMemberIds) \cup Removes(o)
    BY <2>4, <2>6, MorePushed
  <2>8. /\ AddedBy(ops, k + 1) = AddedBy(ops, k) \cup Adds(o)
        /\ RemovedBy(ops, k + 1) = RemovedBy(ops, k) \cup Removes(o)
    BY <2>1, OneMore
  <2>9. \A i \in 1..k + 1 : ops[i] \in GroupOperation
    BY <2>1, <2>3, <2>5
  <2> QED
    BY <2>5, <2>7, <2>8, <2>9
<1>5. n \in T
  <2>1. 0..n \subseteq T
    <3> HIDE DEF T
    <3> QED
      BY <1>1, <1>3, <1>4, UpTo
  <2> QED
    BY <1>1, <2>1
<1>6. Told(ApplyGroupPatch(ops), n)
  BY <1>1, <1>2, <1>5
<1>7. ops \in Seq(GroupOperation)
  BY <1>1, <1>6
<1> QED
  BY <1>6, <1>7 DEF TextsOf, MatchedBy, AddedIds, RemovedIds
===============================================================================
