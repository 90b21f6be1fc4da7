------------------------------ MODULE JsonValues ------------------------------
(***************************************************************************)
(* JSON values, and the JavaScript conversions the patch handlers apply to *)
(* them (src/scim/users/apply-user-patch.ts, groups/apply-group-patch.ts). *)
(* A value is a record with its type.                                      *)
(***************************************************************************)
EXTENDS Integers, Sequences

CONSTANTS Undefined,  \* undefined
          Null,       \* null
          IllTyped,   \* a value Prisma refuses for a text column
          Thrown,     \* the outcome of code that throws a TypeError
          Json        \* the values that occur in bodies, as a whole or in part

JUndefined  == [type |-> "undefined"]
JNull       == [type |-> "null"]
JBoolean(b) == [type |-> "boolean", val |-> b]
JNumber(n)  == [type |-> "number",  val |-> n]
JString(s)  == [type |-> "string",  val |-> s]
JArray(s)   == [type |-> "array",   val |-> s]
JObject(f)  == [type |-> "object",  val |-> f]

(* What an array or an object is made of is a value, too. *)
ASSUME JsonAssumption ==
  /\ JUndefined \in Json
  /\ \A v \in Json :
       \/ v \in {JUndefined, JNull}
       \/ v.type = "boolean" /\ v.val \in BOOLEAN
       \/ v.type = "number"  /\ v.val \in Int
       \/ v.type = "string"  /\ v.val \in STRING
       \/ v.type = "array"   /\ v.val \in Seq(Json)
       \/ v.type = "object"  /\ v.val \in [DOMAIN v.val -> Json]

(* Of a PATCH: op is taken after toLowerCase(), path is "" when it has none. *)
Operation == [op : STRING, path : STRING, value : Json]

(* The ValidationPipe does not look into an element that is null.          *)
OrNull(Ops) == Ops \cup {JNull}

(* Boolean(v) *)
ToBoolean(v) ==
  CASE v.type \in {"undefined", "null"} -> FALSE
    [] v.type = "boolean"               -> v.val
    [] v.type = "number"                -> v.val # 0
    [] v.type = "string"                -> v.val # ""
    [] v.type \in {"array", "object"}   -> TRUE

(* String(v): a string is itself; anything else becomes some text nobody   *)
(* meant, told apart by its type only.                                     *)
ToTextIfText(v) == IF v.type = "string" THEN v.val ELSE IllTyped  \* variant: without String()
ToText(v) ==
  CASE v.type = "string"  -> v.val
    [] v.type = "boolean" -> IF v.val THEN "true" ELSE "false"
    [] v.type = "object"  -> "[object Object]"
    [] OTHER              -> v.type

(* True of all strings, but the provers take no literal for one. *)
ASSUME TextsAssumption ==
  {"true", "false", "[object Object]", "undefined", "null", "number", "array"} \subseteq STRING

Has(v, k)  == v.type = "object" /\ k \in DOMAIN v.val
Prop(v, k) == IF Has(v, k) THEN v.val[k] ELSE JUndefined

(* A value handed to Prisma's update as it is, without String(): a string  *)
(* or null, or an object { set: ... } with one of them.                    *)
Settable(v) == v.type \in {"string", "null"}
Setting(v)  == v.type = "object" /\ DOMAIN v.val = {"set"} /\ Settable(v.val["set"])
Contents(v) == IF v.type = "string" THEN v.val ELSE Null
AsColumn(v) ==
  CASE v.type = "undefined" -> Undefined
    [] Settable(v)          -> Contents(v)
    [] Setting(v)           -> Contents(v.val["set"])
    [] OTHER                -> IllTyped

NonEmptyArray(v) == v.type = "array" /\ v.val # <<>>

(* The values of a set, and what they are made of. *)
WithParts(S) ==
  S \cup UNION {{v.val[k] : k \in DOMAIN v.val} : v \in {w \in S : w.type \in {"array", "object"}}}
===============================================================================
