---------------------------- MODULE ScimGroupsProofs ----------------------------
(***************************************************************************)
(* Theorems about ScimGroups, for any sets of groups, users, requests and  *)
(* bodies.                                                                 *)
(***************************************************************************)
EXTENDS ScimGroups, PatchFacts

-------------------------------------------------------------------------------
(* Sequences of statements. *)

(* The rest of a sequence. *)
LEMMA TailOf ==
  ASSUME NEW S, NEW s \in Seq(S), s # <<>>
  PROVE  /\ Head(s) \in S /\ Head(s) = s[1]
         /\ Tail(s) \in Seq(S)
         /\ Len(s) \in Nat \ {0} /\ DOMAIN s = 1..Len(s)
         /\ Len(Tail(s)) = Len(s) - 1 /\ DOMAIN Tail(s) = 1..Len(s) - 1
         /\ \A i \in DOMAIN Tail(s) : i + 1 \in DOMAIN s /\ Tail(s)[i] = s[i + 1]
         /\ Tail(s) # <<>> => Head(Tail(s)) = s[2]
OBVIOUS

LEMMA SecondOf ==
  ASSUME NEW S, NEW s \in Seq(S), Len(s) > 1
  PROVE  Tail(s) # <<>> /\ Head(Tail(s)) = s[2]
<1> DEFINE t == Tail(s)
<1>1. s # <<>>
  OBVIOUS
<1>2. t \in Seq(S) /\ Len(t) = Len(s) - 1 /\ (t # <<>> => Head(t) = s[2])
  BY <1>1, TailOf
<1> HIDE DEF t
<1>3. Len(t) # 0
  BY <1>2
<1>4. t # <<>>
  BY <1>3
<1> QED
  BY <1>2, <1>4 DEF t

(* One element, or two, in the place of the first. *)
LEMMA HeadReplaced ==
  ASSUME NEW S, NEW s \in Seq(S), s # <<>>, NEW e \in S
  PROVE  /\ <<e>> \o Tail(s) \in Seq(S)
         /\ DOMAIN (<<e>> \o Tail(s)) = DOMAIN s
         /\ Len(<<e>> \o Tail(s)) = Len(s)
         /\ Head(<<e>> \o Tail(s)) = e
         /\ \A i \in DOMAIN s : (<<e>> \o Tail(s))[i] = IF i = 1 THEN e ELSE s[i]
OBVIOUS

LEMMA HeadReplacedByTwo ==
  ASSUME NEW S, NEW s \in Seq(S), s # <<>>, NEW e \in S, NEW f \in S
  PROVE  /\ <<e, f>> \o Tail(s) \in Seq(S)
         /\ DOMAIN (<<e, f>> \o Tail(s)) = 1..Len(s) + 1
         /\ Len(<<e, f>> \o Tail(s)) = Len(s) + 1
         /\ Head(<<e, f>> \o Tail(s)) = e
         /\ \A i \in 1..Len(s) + 1 :
              (<<e, f>> \o Tail(s))[i] = IF i = 1 THEN e ELSE IF i = 2 THEN f ELSE s[i - 1]
OBVIOUS

LEMMA ConcatOf ==
  ASSUME NEW S, NEW s \in Seq(S), NEW t \in Seq(S)
  PROVE  /\ s \o t \in Seq(S)
         /\ DOMAIN (s \o t) = 1..Len(s) + Len(t)
         /\ \A i \in DOMAIN (s \o t) :
              \/ i \in DOMAIN s /\ (s \o t)[i] = s[i]
              \/ i - Len(s) \in DOMAIN t /\ i > Len(s) /\ (s \o t)[i] = t[i - Len(s)]
OBVIOUS

LEMMA ConcatOne ==
  ASSUME NEW S, NEW s \in Seq(S), NEW e \in S
  PROVE  /\ s \o <<e>> \in Seq(S)
         /\ Len(s) \in Nat /\ DOMAIN s = 1..Len(s)
         /\ DOMAIN (s \o <<e>>) = 1..Len(s) + 1
         /\ \A i \in 1..Len(s) : (s \o <<e>>)[i] = s[i]
         /\ (s \o <<e>>)[Len(s) + 1] = e
OBVIOUS

LEMMA ConcatToTwo ==
  ASSUME NEW S, NEW d \in S, NEW u \in S, NEW t \in Seq(S)
  PROVE  /\ Len(t) \in Nat /\ DOMAIN t = 1..Len(t)
         /\ DOMAIN (<<d, u>> \o t) = 1..2 + Len(t)
         /\ (<<d, u>> \o t)[1] = d /\ (<<d, u>> \o t)[2] = u
         /\ \A i \in 1..Len(t) : (<<d, u>> \o t)[i + 2] = t[i]
OBVIOUS

LEMMA AlongSequence ==
  ASSUME NEW T, NEW s \in Seq(T), NEW S, NEW f \in [DOMAIN s -> S]
  PROVE  f \in Seq(S) /\ DOMAIN f = DOMAIN s
OBVIOUS

(* SetToSeqs has the orders a set can be put into. *)
LEMMA OrdersOf ==
  ASSUME NEW S, IsFiniteSet(S), NEW o \in SetToSeqs(S)
  PROVE  /\ o \in Seq(S)
         /\ \A x \in S : \E i \in DOMAIN o : o[i] = x
<1> DEFINE n == Cardinality(S)
<1>1. n \in Nat
  BY FS_CardinalityType
<1>2. o \in [1..n -> S] /\ \A i, j \in 1..n : i # j => o[i] # o[j]
  BY DEF SetToSeqs
<1>3. o \in Injection(1..n, S)
  BY <1>2, Zenon DEF Injection, IsInjective
<1>4. Cardinality(1..n) = n
  BY <1>1, FS_Interval
<1>5. o \in Surjection(1..n, S)
  BY <1>3, <1>4, FS_Injection
<1> QED
  BY <1>1, <1>2, <1>5 DEF Surjection

-------------------------------------------------------------------------------
(* The inductive invariant. *)

(* Where a request is tells what it asks for, and between its transactions *)
(* there is nothing to roll back.                                          *)
Idle(t) == /\ t.group = Absent /\ t.todo = <<>> /\ ~t.scanning /\ t.targets = {}
           /\ t.ins = {} /\ t.del = {} /\ t.refs = {} /\ t.lock = "none" /\ t.drops = {}

Writers  == {"create", "replace", "patch"}
Droppers == {"remove", "removeUser", "clearData"}

PhaseFits(r) ==
  /\ phase[r] = "parsing"  => req[r].kind = "patch"
  /\ phase[r] \in {"finding", "findingMembers", "findingUsers", "inTransaction"} =>
       (req[r].kind = "patch" => PatchResult[req[r].body] # Thrown)
  /\ phase[r] = "checking" => req[r].kind = "create"
  /\ phase[r] = "clearing" => req[r].kind = "clearData"
  /\ phase[r] = "finding"  => req[r].kind \in {"get", "replace", "patch", "remove", "removeUser"}
  /\ phase[r] \in {"findingMembers", "findingUsers"} =>
       /\ req[r].kind \in {"get", "replace", "patch", "remove"}
       /\ req[r].id \in issued
       /\ tx[r].row # NoRow
  /\ Running(r) => req[r].kind \in Writers \cup Droppers
  /\ ~Running(r) => Idle(tx[r])
  /\ ~Running(r) /\ phase[r] \notin {"findingMembers", "findingUsers"} => tx[r].row = NoRow

(* The group a transaction is about: one that was there, or one that only  *)
(* its own create knows.                                                   *)
GroupFits(r) ==
  /\ Running(r) /\ req[r].kind \in {"replace", "patch", "remove"} =>
       tx[r].group = req[r].id /\ req[r].id \in issued
  /\ Running(r) /\ req[r].kind \in {"removeUser", "clearData"} => tx[r].group = Absent
  /\ Running(r) /\ req[r].kind = "create" =>
       IF tx[r].row = NoRow
       THEN /\ tx[r].group = Absent
            /\ tx[r].ins = {} /\ tx[r].lock = "none"
            /\ tx[r].todo # <<>> /\ Head(tx[r].todo).do = "insertGroup"
       ELSE tx[r].group \in GroupIds \ issued

(* The statements left are of the kind of its request, and insertGroup is  *)
(* the first of a create.                                                  *)
MayDo(q) ==
  CASE q.kind = "create"  -> {"insertGroup", "insert", "referGroup", "referUser"}
    [] q.kind = "replace" -> {"delete", "update", "claimName", "insert", "referGroup", "referUser"}
    [] q.kind = "patch"   -> {"delete", "update", "claimName", "upsert", "insert", "referGroup",
                              "referUser"}
    [] OTHER -> {"drop", "delete"}

TodoFits(r) ==
  /\ Running(r) =>
       \A i \in DOMAIN tx[r].todo :
         /\ tx[r].todo[i].do \in MayDo(req[r])
         /\ tx[r].todo[i].do = "insertGroup" => i = 1 /\ tx[r].row = NoRow
  /\ tx[r].scanning => Doing(r, "delete")
  /\ tx[r].targets # {} => tx[r].scanning

(* What a transaction holds: a row it writes, it has locked and found      *)
(* there; the users it refers to are there; it writes or it drops.         *)
HoldsFit(r) ==
  /\ tx[r].refs \subseteq liveUsers
  /\ Running(r) /\ req[r].kind \in Droppers =>
       tx[r].ins = {} /\ tx[r].refs = {} /\ tx[r].lock = "none" /\ tx[r].row = NoRow
  /\ Running(r) /\ req[r].kind \in Writers => tx[r].drops = {}
  /\ Running(r) /\ req[r].kind \in {"replace", "patch"} =>
       /\ tx[r].row # NoRow => tx[r].lock \in {"noKey", "key"}
       /\ tx[r].lock # "none" => Exists(tx[r].group)

(* A membership that is written has been referred to, or is about to be.   *)
Referring(t, u) ==
  \/ t.todo # <<>> /\ Head(t.todo).do = "referUser" /\ Head(t.todo).user = u
  \/ /\ Len(t.todo) > 1
     /\ t.todo[1].do = "referGroup"
     /\ t.todo[2].do = "referUser" /\ t.todo[2].user = u

InsertsRefer(r) ==
  /\ tx[r].ins # {} => tx[r].lock # "none" \/ Doing(r, "referGroup")
  /\ \A p \in tx[r].ins : p[2] \in tx[r].refs \/ Referring(tx[r], p[2])

(* What goes with a group or a user is deleted after it.                   *)
Touching(id) == {p \in Memberships : p[1] = id \/ p[2] = id}

DropsCascade(r) ==
  \A i \in DOMAIN tx[r].todo : tx[r].todo[i].do = "drop" =>
    \E j \in DOMAIN tx[r].todo : /\ j > i
                                 /\ tx[r].todo[j].do = "delete"
                                 /\ Touching(tx[r].todo[i].id) \subseteq tx[r].todo[j].pairs

Covered(r, p) ==
  \/ p \in tx[r].del \cup tx[r].targets
  \/ \E j \in DOMAIN tx[r].todo : /\ tx[r].todo[j].do = "delete"
                                  /\ p \in tx[r].todo[j].pairs
                                  /\ j > 1 \/ ~tx[r].scanning

DropsCovered(r) ==
  \A p \in members : p[1] \in tx[r].drops \/ p[2] \in tx[r].drops => Covered(r, p)

(* A name that is put into the index is no other group's.                  *)
Claimed(r) == Running(r) /\ tx[r].row # NoRow /\ ~Doing(r, "claimName")

NameFree(r) ==
  Claimed(r) => \A g \in GroupIds \ {tx[r].group} :
                  Exists(g) => groups[g].displayName # tx[r].row.displayName

(* Two transactions do not hold what excludes each other.                  *)
Apart(r, s) ==
  /\ tx[r].lock \in {"noKey", "key"} /\ tx[s].lock \in {"noKey", "key"} => tx[r].group # tx[s].group
  /\ tx[r].lock # "none" => tx[r].group \notin tx[s].drops
  /\ tx[r].refs \cap tx[s].drops = {}
  /\ tx[r].del \cap tx[s].del = {}
  /\ Claimed(r) /\ Claimed(s) => tx[r].row.displayName # tx[s].row.displayName
  /\ Running(r) /\ req[r].kind = "create" /\ tx[r].row # NoRow => tx[s].group # tx[r].group

Fits(r) == /\ PhaseFits(r) /\ GroupFits(r) /\ TodoFits(r) /\ HoldsFit(r)
           /\ InsertsRefer(r) /\ DropsCascade(r) /\ DropsCovered(r) /\ NameFree(r)

IInv == /\ TypeOK /\ NoDanglingMembers /\ UniqueDisplayNames
        /\ \A r \in Requests : Fits(r)
        /\ \A r, s \in Requests : r # s => Apart(r, s)

-------------------------------------------------------------------------------
(* Types. *)

TablesOK ==
  /\ groups \in [GroupIds -> GroupRow \cup {Absent}]
  /\ issued \subseteq GroupIds
  /\ \A g \in GroupIds : Exists(g) => g \in issued
  /\ liveUsers \subseteq UserIds
  /\ members \subseteq Memberships

SlotTyped(r) ==
  /\ req[r] \in Request \cup {NoRequest}
  /\ phase[r] \in Phases
  /\ answer[r] \in Answers \cup {NoAnswer}
  /\ tx[r] \in Tx
  /\ SlotOK(r)
  /\ TxOK(r)

LEMMA TypesOfSlots ==
  TypeOK <=> /\ TablesOK
             /\ req = [r \in Requests |-> req[r]]
             /\ phase = [r \in Requests |-> phase[r]]
             /\ answer = [r \in Requests |-> answer[r]]
             /\ tx = [r \in Requests |-> tx[r]]
             /\ \A r \in Requests : SlotTyped(r)
BY DEF TypeOK, TablesOK, SlotTyped

-------------------------------------------------------------------------------
(* Steps of one request that leave the tables alone. *)

OnlySlot(r) ==
  /\ req'    = [s \in Requests |-> req'[s]]
  /\ phase'  = [s \in Requests |-> phase'[s]]
  /\ answer' = [s \in Requests |-> answer'[s]]
  /\ tx'     = [s \in Requests |-> tx'[s]]
  /\ \A s \in Requests \ {r} : /\ req'[s] = req[s] /\ phase'[s] = phase[s]
                               /\ answer'[s] = answer[s] /\ tx'[s] = tx[s]

(* What the others do not see of r.                                        *)
LEMMA OthersUntouched ==
  ASSUME UNCHANGED tables, NEW r \in Requests, OnlySlot(r), NEW s \in Requests \ {r}
  PROVE  /\ SlotTyped(s) => SlotTyped(s)'
         /\ Fits(s) => Fits(s)'
         /\ \A u \in Requests \ {r} : Apart(s, u) => Apart(s, u)'
<1> /\ req'[s] = req[s] /\ phase'[s] = phase[s] /\ answer'[s] = answer[s] /\ tx'[s] = tx[s]
    /\ groups' = groups /\ issued' = issued /\ liveUsers' = liveUsers /\ members' = members
  BY DEF OnlySlot, tables
<1>1. SlotTyped(s) => SlotTyped(s)'
  BY DEF SlotTyped, SlotOK, TxOK, Running
<1>2. PhaseFits(s) /\ GroupFits(s) => PhaseFits(s)' /\ GroupFits(s)'
  BY DEF PhaseFits, GroupFits, Running
<1>3. TodoFits(s) /\ HoldsFit(s) /\ InsertsRefer(s) => TodoFits(s)' /\ HoldsFit(s)' /\ InsertsRefer(s)'
  BY DEF TodoFits, HoldsFit, InsertsRefer, Running, Doing, Current, Exists
<1>4. DropsCascade(s) /\ DropsCovered(s) => DropsCascade(s)' /\ DropsCovered(s)'
  BY DEF DropsCascade, DropsCovered, Covered
<1>5. NameFree(s) => NameFree(s)'
  BY DEF NameFree, Claimed, Running, Doing, Current, Exists
<1>6. ASSUME NEW u \in Requests \ {r}, Apart(s, u) PROVE Apart(s, u)'
  <2> /\ req'[u] = req[u] /\ phase'[u] = phase[u] /\ tx'[u] = tx[u]
    BY DEF OnlySlot
  <2> QED
    BY <1>6 DEF Apart, Claimed, Running, Doing, Current
<1> QED
  BY <1>1, <1>2, <1>3, <1>4, <1>5, <1>6 DEF Fits

LEMMA Frame ==
  ASSUME IInv, UNCHANGED tables, NEW r \in Requests, OnlySlot(r),
         SlotTyped(r)', Fits(r)',
         \A s \in Requests \ {r} : Apart(r, s)' /\ Apart(s, r)'
  PROVE  IInv'
<1>1. \A s \in Requests : SlotTyped(s)' /\ Fits(s)'
  BY OthersUntouched, TypesOfSlots DEF IInv
<1>2. \A s, u \in Requests : s # u => Apart(s, u)'
  BY OthersUntouched DEF IInv
<1>3. TablesOK'
  BY TypesOfSlots DEF IInv, TablesOK, tables, Exists
<1>4. TypeOK'
  <2>1. /\ req' \in [Requests -> Request \cup {NoRequest}]
        /\ phase' \in [Requests -> Phases]
    BY <1>1 DEF OnlySlot, SlotTyped
  <2>2. /\ answer' \in [Requests -> Answers \cup {NoAnswer}]
        /\ tx' \in [Requests -> Tx]
    BY <1>1 DEF OnlySlot, SlotTyped
  <2> QED
    BY <1>1, <1>3, <2>1, <2>2 DEF TypeOK, TablesOK, SlotTyped
<1>5. NoDanglingMembers' /\ UniqueDisplayNames'
  BY DEF IInv, NoDanglingMembers, UniqueDisplayNames, tables, Exists
<1> QED
  BY <1>1, <1>2, <1>4, <1>5 DEF IInv

(* A step after which r is in no transaction.                              *)
LEMMA Outside ==
  ASSUME IInv, UNCHANGED tables, NEW r \in Requests, OnlySlot(r),
         ~Running(r)', Idle(tx'[r]), SlotTyped(r)', PhaseFits(r)'
  PROVE  IInv'
<1> /\ tx'[r].group = Absent /\ tx'[r].todo = <<>> /\ ~tx'[r].scanning /\ tx'[r].targets = {}
    /\ tx'[r].ins = {} /\ tx'[r].del = {} /\ tx'[r].refs = {} /\ tx'[r].lock = "none"
    /\ tx'[r].drops = {}
  BY DEF Idle
<1>1. Fits(r)'
  BY DEF Fits, GroupFits, TodoFits, HoldsFit, InsertsRefer, DropsCascade, DropsCovered, NameFree,
         Claimed
<1>2. ASSUME NEW s \in Requests \ {r} PROVE Apart(r, s)' /\ Apart(s, r)'
  <2>1. Running(s)' /\ req'[s].kind = "create" /\ tx'[s].row # NoRow => tx'[s].group # Absent
    BY SentinelsAssumption DEF OnlySlot, IInv, Fits, GroupFits, Running
  <2> QED
    BY <2>1 DEF Apart, Claimed
<1> QED
  BY <1>1, <1>2, Frame

LEMMA NoTxTyped == NoTx \in Tx /\ Idle(NoTx) /\ NoTx.row = NoRow
BY DEF NoTx, Tx, Idle

LEMMA FailureTyped ==
  ASSUME NEW e \in {"ConflictException", "NotFoundException", "TypeError", "P2002", "P2003",
                    "P2025", "P2034", "PrismaClientValidationError",
                    "PrismaClientUnknownRequestError"}
  PROVE  Failure(e) \in Answers
BY DEF Failure, Answers, ToScimError, HttpExceptions, PrismaErrors, InternalServerError

LEMMA SlotsAreFunctions ==
  IInv => /\ req = [s \in Requests |-> req[s]] /\ phase = [s \in Requests |-> phase[s]]
          /\ answer = [s \in Requests |-> answer[s]] /\ tx = [s \in Requests |-> tx[s]]
          /\ \A s \in Requests : SlotTyped(s) /\ Fits(s)
BY TypesOfSlots DEF IInv

(* An answer, which gives up whatever transaction there was.               *)
LEMMA Answered ==
  ASSUME IInv, UNCHANGED tables, NEW r \in Requests, phase[r] # "idle",
         NEW a \in Answers, Answer(r, a)
  PROVE  IInv'
<1>1. SlotTyped(r)
  BY SlotsAreFunctions
<1>2. OnlySlot(r)
  BY SlotsAreFunctions DEF Answer, OnlySlot
<1>3. /\ phase'[r] = "answered" /\ answer'[r] = a /\ tx'[r] = NoTx /\ req'[r] = req[r]
  BY SlotsAreFunctions DEF Answer
<1>4. SlotTyped(r)'
  <2>1. NoTx.ins = {} /\ NoTx.del = {} /\ NoTx.targets = {} /\ NoTx.drops = {} /\ NoTx.lock = "none"
    BY DEF NoTx
  <2> QED
    BY <1>1, <1>3, <2>1, NoTxTyped, SentinelsAssumption
       DEF SlotTyped, SlotOK, TxOK, Phases
<1>5. PhaseFits(r)'
  BY <1>3, NoTxTyped DEF PhaseFits, Running
<1> QED
  BY <1>2, <1>3, <1>4, <1>5, NoTxTyped, Outside DEF Running

(* A step to another read, or to another transaction of a wipe.            *)
LEMMA Awaited ==
  ASSUME IInv, UNCHANGED tables, NEW r \in Requests, phase[r] \notin {"idle", "answered"},
         NEW p \in {"finding", "findingMembers", "findingUsers"}, Await(r, p),
         NEW t \in Tx, tx' = [tx EXCEPT ![r] = t], Idle(t),
         /\ req[r].kind \in {"get", "replace", "patch", "remove"}
         /\ req[r].kind = "patch" => PatchResult[req[r].body] # Thrown
         /\ IF p = "finding" THEN t.row = NoRow ELSE t.row # NoRow /\ req[r].id \in issued
  PROVE  IInv'
<1>1. SlotTyped(r)
  BY SlotsAreFunctions
<1>2. OnlySlot(r)
  BY SlotsAreFunctions DEF Await, OnlySlot
<1>3. /\ phase'[r] = p /\ answer'[r] = answer[r] /\ tx'[r] = t /\ req'[r] = req[r]
  BY SlotsAreFunctions DEF Await
<1>4. SlotTyped(r)'
  BY <1>1, <1>3 DEF SlotTyped, SlotOK, TxOK, Phases, Idle
<1>5. PhaseFits(r)'
  BY <1>3 DEF PhaseFits, Running, tables
<1> QED
  BY <1>2, <1>3, <1>4, <1>5, Outside DEF Running

-------------------------------------------------------------------------------
(* How a transaction begins. *)

Cascading(todo) ==
  \A i \in DOMAIN todo : todo[i].do = "drop" =>
    \E j \in DOMAIN todo : /\ j > i
                           /\ todo[j].do = "delete"
                           /\ Touching(todo[i].id) \subseteq todo[j].pairs

StatementsFit(q, todo) ==
  /\ todo \in Seq(StatementOf)
  /\ \A i \in DOMAIN todo : /\ todo[i].do \in MayDo(q)
                            /\ todo[i].do = "insertGroup" => i = 1
  /\ q.kind = "create" => todo # <<>> /\ Head(todo).do = "insertGroup"
  /\ Cascading(todo)

(* A statement of each kind. *)
LEMMA StatementTypes ==
  /\ \A pairs \in SUBSET Memberships : Delete(pairs) \in StatementOf
  /\ \A u \in MemberIds : /\ Insert(u) \in StatementOf /\ Upsert(u) \in StatementOf
                          /\ [Insert(u) EXCEPT !.upsert = TRUE] \in StatementOf
                          /\ [do |-> "referUser", user |-> u] \in StatementOf
  /\ \A n \in STRING \cup {Undefined}, x \in STRING \cup {Undefined, Null} :
       Update(n, x) \in StatementOf
  /\ \A do \in {"insertGroup", "claimName", "referGroup"} : Statement(do) \in StatementOf
  /\ \A id \in GroupIds \cup UserIds : Drop(id) \in StatementOf
BY DEF Delete, Insert, Upsert, Update, Statement, Drop, StatementOf

LEMMA InsertsOf ==
  ASSUME NEW dto \in GroupDto, Null \notin Elements(dto.members)
  PROVE  /\ Inserts(dto) \in Seq(StatementOf)
         /\ DOMAIN Inserts(dto) = DOMAIN dto.members
         /\ \A i \in DOMAIN Inserts(dto) : Inserts(dto)[i] = Insert(dto.members[i])
<1>1. dto.members \in Seq(MemberIds \cup {Null})
  BY DEF GroupDto
<1>2. \A i \in DOMAIN dto.members : Insert(dto.members[i]) \in StatementOf
  <2>1. \A i \in DOMAIN dto.members : dto.members[i] \in MemberIds
    BY <1>1 DEF Elements
  <2> QED
    BY <2>1, StatementTypes
<1> QED
  BY <1>1, <1>2 DEF Inserts

(* The ids that a PATCH adds or removes are ids of members. *)
LEMMA PatchedIds ==
  ASSUME NEW b \in PatchBodies, PatchResult[b] # Thrown
  PROVE  /\ PatchResult[b] \in GroupPatchResult
         /\ AddedIds(PatchResult[b]) \subseteq MemberIds
         /\ RemovedIds(PatchResult[b]) \subseteq MemberIds
<1>1. b \in Seq(OrNull(GroupOperation)) /\ PatchResult[b] = ApplyGroupPatch(b)
  BY PatchBodiesAssumption DEF PatchResult
<1>2. ApplyGroupPatch(b) \in GroupPatchResult
  BY <1>1, GroupPatchType
<1>3. AddedBy(b, Len(b)) \subseteq MemberIds /\ RemovedBy(b, Len(b)) \subseteq MemberIds
  BY DEF AddedBy, RemovedBy, Adds, Removes
<1> QED
  BY <1>1, <1>2, <1>3, PatchAsks

(* What Statements makes of a request is a transaction of its kind. *)
LEMMA StatementsOf ==
  ASSUME NEW q \in Request, q.kind \in Writers \cup {"remove", "removeUser"},
         ~Malformed(q), q.kind = "patch" => PatchResult[q.body] # Thrown
  PROVE  StatementsFit(q, Statements(q))
<1>1. CASE q.kind = "create"
  <2>1. q.dto \in GroupDto /\ Null \notin Elements(q.dto.members)
    BY <1>1, GroupDtosAssumption DEF Request, Malformed
  <2> DEFINE t == Inserts(q.dto)
  <2>2. /\ <<Statement("insertGroup")>> \in Seq(StatementOf)
        /\ Len(<<Statement("insertGroup")>>) = 1
        /\ <<Statement("insertGroup")>>[1].do = "insertGroup"
        /\ DOMAIN <<Statement("insertGroup")>> = {1}
    BY StatementTypes DEF Statement
  <2>3. \A i \in DOMAIN t : t \in Seq(StatementOf) /\ t[i].do = "insert"
    BY <2>1, InsertsOf DEF Insert
  <2>4. t \in Seq(StatementOf)
    BY <2>1, InsertsOf
  <2>5. Statements(q) = <<Statement("insertGroup")>> \o t
    BY <1>1 DEF Statements
  <2> HIDE DEF t
  <2>6. Statements(q) \in Seq(StatementOf) /\ Statements(q) # <<>>
    BY <2>2, <2>4, <2>5
  <2>7. /\ Statements(q)[1].do = "insertGroup"
        /\ \A i \in DOMAIN Statements(q) : i # 1 => Statements(q)[i].do = "insert"
    BY <2>2, <2>3, <2>4, <2>5, ConcatOf
  <2> QED
    BY <1>1, <2>6, <2>7 DEF StatementsFit, MayDo, Cascading
<1>2. CASE q.kind = "replace"
  <2>1. q.dto \in GroupDto /\ q.id \in GroupIds /\ Null \notin Elements(q.dto.members)
    BY <1>2, GroupDtosAssumption DEF Request, Malformed
  <2> DEFINE t == Inserts(q.dto)
             h == <<Delete({q.id} \X MemberIds), Update(q.dto.displayName, q.dto.externalId)>>
  <2>2. h \in Seq(StatementOf) /\ h[1].do = "delete" /\ h[2].do = "update" /\ DOMAIN h = {1, 2}
    <3>1. Delete({q.id} \X MemberIds) \in StatementOf
      BY <2>1, StatementTypes DEF Memberships
    <3>2. Update(q.dto.displayName, q.dto.externalId) \in StatementOf
      BY <2>1, StatementTypes DEF GroupDto
    <3> QED
      BY <3>1, <3>2 DEF Delete, Update
  <2>3. t \in Seq(StatementOf) /\ \A i \in DOMAIN t : t[i].do = "insert"
    BY <2>1, InsertsOf DEF Insert
  <2>4. Statements(q) = h \o t
    BY <1>2 DEF Statements, ReplaceStatements
  <2> HIDE DEF h, t
  <2>5. Statements(q) \in Seq(StatementOf)
    BY <2>2, <2>3, <2>4
  <2>6. \A i \in DOMAIN Statements(q) : Statements(q)[i].do \in {"delete", "update", "insert"}
    BY <2>2, <2>3, <2>4, ConcatOf
  <2> QED
    BY <1>2, <2>5, <2>6 DEF StatementsFit, MayDo, Cascading
<1>3. CASE q.kind = "patch"
  <2> DEFINE p == PatchResult[q.body]
             a == IF p.displayName # Undefined \/ p.externalId # Undefined
                  THEN <<Update(p.displayName, p.externalId)>> ELSE <<>>
             b == [i \in DOMAIN p.removeMemberIds |-> Removal(q.id, Matching(p.removeMemberIds[i]))]
             c == [i \in DOMAIN p.addMemberIds |-> Upsert(Contents(p.addMemberIds[i]))]
  <2>1. /\ q.id \in GroupIds
        /\ q.body \in PatchBodies
    BY <1>3 DEF Request
  <2>2. /\ p \in GroupPatchResult
        /\ \A i \in DOMAIN p.addMemberIds : Contents(p.addMemberIds[i]) \in MemberIds
        /\ \A i \in DOMAIN p.removeMemberIds : Matching(p.removeMemberIds[i]) \subseteq MemberIds
    <3>1. /\ p \in GroupPatchResult
          /\ AddedIds(p) \subseteq MemberIds /\ RemovedIds(p) \subseteq MemberIds
      BY <1>3, <2>1, PatchedIds
    <3>2. PrismaAccepts(p)
      BY <1>3 DEF Malformed
    <3> HIDE DEF p
    <3> QED
      BY <3>1, <3>2 DEF PrismaAccepts, AddedIds, RemovedIds, Elements, Contents
  <2>3. a \in Seq(StatementOf) /\ \A i \in DOMAIN a : a[i].do = "update"
    <3>1. Update(p.displayName, p.externalId) \in StatementOf
      BY <2>2, StatementTypes DEF GroupPatchResult
    <3> QED
      BY <3>1 DEF Update
  <2>4. b \in Seq(StatementOf) /\ \A i \in DOMAIN b : b[i].do = "delete"
    <3>1. \A us \in SUBSET MemberIds : Removal(q.id, us) \in StatementOf
      BY <2>1, StatementTypes DEF Removal, Memberships
    <3>2. \A i \in DOMAIN p.removeMemberIds :
            Removal(q.id, Matching(p.removeMemberIds[i])) \in StatementOf
      BY <2>2, <3>1
    <3>3. p.removeMemberIds \in Seq(Json)
      BY <2>2 DEF GroupPatchResult
    <3>4. b \in [DOMAIN p.removeMemberIds -> StatementOf]
      BY <3>2
    <3>5. b \in Seq(StatementOf) /\ DOMAIN b = DOMAIN p.removeMemberIds
      BY <3>3, <3>4, AlongSequence
    <3> QED
      BY <3>5 DEF Removal, Delete
  <2>5. c \in Seq(StatementOf) /\ \A i \in DOMAIN c : c[i].do = "upsert"
    <3>2. \A i \in DOMAIN p.addMemberIds : Upsert(Contents(p.addMemberIds[i])) \in StatementOf
      BY <2>2, StatementTypes
    <3>3. p.addMemberIds \in Seq(Json)
      BY <2>2 DEF GroupPatchResult
    <3>4. c \in [DOMAIN p.addMemberIds -> StatementOf]
      BY <3>2
    <3>5. c \in Seq(StatementOf) /\ DOMAIN c = DOMAIN p.addMemberIds
      BY <3>3, <3>4, AlongSequence
    <3> QED
      BY <3>5 DEF Upsert
  <2>6. Statements(q) = a \o b \o c
    BY <1>3 DEF Statements, PatchStatements
  <2> HIDE DEF a, b, c
  <2>7. /\ a \o b \in Seq(StatementOf)
        /\ \A i \in DOMAIN (a \o b) : (a \o b)[i].do \in {"update", "delete"}
    BY <2>3, <2>4, ConcatOf
  <2>8. /\ Statements(q) \in Seq(StatementOf)
        /\ \A i \in DOMAIN Statements(q) : Statements(q)[i].do \in {"update", "delete", "upsert"}
    BY <2>5, <2>6, <2>7, ConcatOf
  <2> QED
    BY <1>3, <2>8 DEF StatementsFit, MayDo, Cascading
<1>4. CASE q.kind \in {"remove", "removeUser"}
  <2> DEFINE pairs == IF q.kind = "remove" THEN {q.id} \X MemberIds ELSE GroupIds \X {q.id}
  <2>1. q.id \in GroupIds \cup UserIds
    BY <1>4 DEF Request
  <2>2. pairs \in SUBSET Memberships /\ Touching(q.id) \subseteq pairs
    BY <1>4, IdsAssumption DEF Request, Memberships, Touching
  <2>3. Statements(q) = <<Drop(q.id)>> \o <<Delete(pairs)>>
    BY <1>4 DEF Statements, Cascade
  <2>4. Drop(q.id) \in StatementOf /\ Delete(pairs) \in StatementOf
    BY <2>1, <2>2, StatementTypes
  <2> HIDE DEF pairs
  <2>5. /\ Statements(q) \in Seq(StatementOf) /\ DOMAIN Statements(q) = {1, 2}
        /\ Statements(q)[1] = Drop(q.id) /\ Statements(q)[2] = Delete(pairs)
    BY <2>3, <2>4
  <2>6. Drop(q.id).do = "drop" /\ Drop(q.id).id = q.id
    BY DEF Drop
  <2>7. Delete(pairs).do = "delete" /\ Delete(pairs).pairs = pairs
    BY DEF Delete
  <2>8. Cascading(Statements(q))
    BY <2>2, <2>5, <2>6, <2>7 DEF Cascading
  <2> QED
    BY <1>4, <2>5, <2>6, <2>7, <2>8 DEF StatementsFit, MayDo
<1> QED
  BY <1>1, <1>2, <1>3, <1>4 DEF Writers

(* The first transaction of a request, or the next of a wipe.              *)
LEMMA Begun ==
  ASSUME IInv, UNCHANGED tables, NEW r \in Requests, phase[r] \notin {"idle", "answered"},
         Await(r, "inTransaction"), NEW t \in Tx, tx' = [tx EXCEPT ![r] = t],
         req[r].kind \in Writers \cup Droppers,
         Idle([t EXCEPT !.todo = <<>>, !.group = Absent]), t.row = NoRow,
         StatementsFit(req[r], t.todo),
         req[r].kind = "patch" => PatchResult[req[r].body] # Thrown,
         IF req[r].kind \in {"replace", "patch", "remove"}
         THEN t.group = req[r].id /\ req[r].id \in issued
         ELSE t.group = Absent
  PROVE  IInv'
<1> /\ ~t.scanning /\ t.targets = {} /\ t.ins = {} /\ t.del = {} /\ t.refs = {}
    /\ t.lock = "none" /\ t.drops = {}
  BY DEF Idle, Tx
<1> SlotTyped(r) /\ TablesOK
  BY TypesOfSlots DEF IInv
<1>1. OnlySlot(r)
  BY SlotsAreFunctions DEF Await, OnlySlot
<1>2. /\ phase'[r] = "inTransaction" /\ answer'[r] = answer[r] /\ tx'[r] = t /\ req'[r] = req[r]
      /\ Running(r)'
  BY SlotsAreFunctions DEF Await, Running
<1>3. SlotTyped(r)'
  BY <1>2 DEF SlotTyped, SlotOK, TxOK, Phases
<1>4. PhaseFits(r)' /\ GroupFits(r)'
  BY <1>2 DEF PhaseFits, GroupFits, StatementsFit, tables, Writers, Droppers
<1>5. TodoFits(r)' /\ HoldsFit(r)' /\ InsertsRefer(r)' /\ NameFree(r)'
  BY <1>2 DEF TodoFits, HoldsFit, InsertsRefer, StatementsFit, NameFree, Claimed
<1>6. DropsCascade(r)' /\ DropsCovered(r)'
  BY <1>2 DEF DropsCascade, DropsCovered, StatementsFit, Cascading
<1>7. ASSUME NEW s \in Requests \ {r} PROVE Apart(r, s)' /\ Apart(s, r)'
  <2>1. req'[s] = req[s] /\ phase'[s] = phase[s] /\ tx'[s] = tx[s]
    BY <1>1 DEF OnlySlot
  <2>2. /\ Running(s) /\ req[s].kind = "create" /\ tx[s].row # NoRow =>
             tx[s].group \in GroupIds \ issued
    BY DEF IInv, Fits, GroupFits
  <2>3. t.group \in issued \cup {Absent}
    OBVIOUS
  <2> QED
    BY <1>2, <2>1, <2>2, <2>3, SentinelsAssumption DEF Apart, Claimed, Running
<1> QED
  BY <1>1, <1>3, <1>4, <1>5, <1>6, <1>7, Frame DEF Fits

-------------------------------------------------------------------------------
(* Requests that arrive, are parsed and read. *)

LEMMA ReceiveKeeps ==
  ASSUME IInv, NEW r \in Requests, NEW q \in Request, Receive(r, q)
  PROVE  IInv'
<1> SlotTyped(r) /\ PhaseFits(r)
  BY SlotsAreFunctions DEF Fits
<1>1. OnlySlot(r) /\ UNCHANGED tables
  BY SlotsAreFunctions DEF Receive, OnlySlot
<1>2. /\ phase[r] = "idle" /\ req'[r] = q /\ answer'[r] = answer[r] /\ tx'[r] = tx[r]
      /\ phase'[r] = CASE q.kind = "create"    -> "checking"
                       [] q.kind = "patch"     -> "parsing"
                       [] q.kind = "clearData" -> "clearing"
                       [] OTHER                -> "finding"
  BY SlotsAreFunctions DEF Receive
<1>3. Idle(tx'[r]) /\ tx'[r].row = NoRow
  BY <1>2 DEF PhaseFits, Running
<1>4. SlotTyped(r)'
  BY <1>1, <1>2, <1>3, SentinelsAssumption DEF SlotTyped, SlotOK, TxOK, Phases, Idle
<1>5. PhaseFits(r)'
  <2>1. q.kind \in {"create", "replace", "patch", "get", "remove", "removeUser", "clearData"}
    BY DEF Request
  <2> QED
    BY <1>2, <1>3, <2>1 DEF PhaseFits, Running
<1> QED
  BY <1>1, <1>2, <1>3, <1>4, <1>5, Outside DEF Running

LEMMA BusyRequest ==
  ASSUME IInv, NEW r \in Requests, phase[r] # "idle"
  PROVE  req[r] \in Request
BY SlotsAreFunctions DEF SlotTyped, SlotOK

LEMMA ParseKeeps ==
  ASSUME IInv, NEW r \in Requests, Parse(r)
  PROVE  IInv'
<1>1. phase[r] = "parsing" /\ UNCHANGED tables
  BY DEF Parse
<1>2. CASE Answer(r, Failure("TypeError"))
  BY <1>1, <1>2, FailureTyped, Answered
<1>3. CASE PatchResult[req[r].body] # Thrown /\ Await(r, "finding") /\ UNCHANGED tx
  <2>1. PhaseFits(r) /\ tx[r] \in Tx
    BY SlotsAreFunctions DEF Fits, SlotTyped
  <2>2. /\ tx' = [tx EXCEPT ![r] = tx[r]]
        /\ Idle(tx[r]) /\ tx[r].row = NoRow /\ req[r].kind = "patch"
    BY <1>1, <1>3, <2>1, SlotsAreFunctions DEF PhaseFits, Running
  <2> QED
    BY <1>1, <1>3, <2>1, <2>2, Awaited
<1> QED
  BY <1>2, <1>3 DEF Parse

LEMMA CheckDisplayNameKeeps ==
  ASSUME IInv, NEW r \in Requests, CheckDisplayName(r)
  PROVE  IInv'
<1>1. phase[r] = "checking" /\ UNCHANGED tables
  BY DEF CheckDisplayName
<1>2. CASE Answer(r, Failure("ConflictException"))
  BY <1>1, <1>2, FailureTyped, Answered
<1>3. CASE RefuseMalformed(r)
  BY <1>1, <1>3, FailureTyped, Answered DEF RefuseMalformed
<1>4. CASE /\ ~Malformed(req[r])
           /\ Await(r, "inTransaction")
           /\ tx' = [tx EXCEPT ![r].todo = Statements(req[r])]
  <2>1. PhaseFits(r) /\ tx[r] \in Tx
    BY SlotsAreFunctions DEF Fits, SlotTyped
  <2>2. Idle(tx[r]) /\ tx[r].row = NoRow /\ req[r].kind = "create"
    BY <1>1, <2>1 DEF PhaseFits, Running
  <2>3. StatementsFit(req[r], Statements(req[r]))
    BY <1>1, <1>4, <2>2, BusyRequest, StatementsOf DEF Writers
  <2> DEFINE t == [tx[r] EXCEPT !.todo = Statements(req[r])]
  <2>4. tx' = [tx EXCEPT ![r] = t] /\ t \in Tx
    BY <1>4, <2>1, <2>3 DEF StatementsFit, Tx
  <2>5. /\ Idle([t EXCEPT !.todo = <<>>, !.group = Absent]) /\ t.row = NoRow
        /\ t.group = Absent /\ t.todo = Statements(req[r])
    BY <2>1, <2>2 DEF Idle, Tx
  <2> HIDE DEF t
  <2> QED
    BY <1>1, <1>4, <2>2, <2>3, <2>4, <2>5, Begun DEF Writers
<1> QED
  BY <1>2, <1>3, <1>4 DEF CheckDisplayName

LEMMA FindUserKeeps ==
  ASSUME IInv, NEW r \in Requests, FindUser(r)
  PROVE  IInv'
<1>1. phase[r] = "finding" /\ req[r].kind = "removeUser" /\ UNCHANGED tables
  BY DEF FindUser
<1>2. CASE Answer(r, Failure("NotFoundException"))
  BY <1>1, <1>2, FailureTyped, Answered
<1>3. CASE Await(r, "inTransaction") /\ tx' = [tx EXCEPT ![r].todo = Statements(req[r])]
  <2>1. PhaseFits(r) /\ tx[r] \in Tx
    BY SlotsAreFunctions DEF Fits, SlotTyped
  <2>2. Idle(tx[r]) /\ tx[r].row = NoRow
    BY <1>1, <2>1 DEF PhaseFits, Running
  <2>3. StatementsFit(req[r], Statements(req[r]))
    BY <1>1, BusyRequest, StatementsOf DEF Malformed
  <2> DEFINE t == [tx[r] EXCEPT !.todo = Statements(req[r])]
  <2>4. tx' = [tx EXCEPT ![r] = t] /\ t \in Tx
    BY <1>3, <2>1, <2>3 DEF StatementsFit, Tx
  <2>5. /\ Idle([t EXCEPT !.todo = <<>>, !.group = Absent]) /\ t.row = NoRow
        /\ t.group = Absent /\ t.todo = Statements(req[r])
    BY <2>1, <2>2 DEF Idle, Tx
  <2> HIDE DEF t
  <2> QED
    BY <1>1, <1>3, <2>3, <2>4, <2>5, Begun DEF Droppers
<1> QED
  BY <1>2, <1>3 DEF FindUser

LEMMA FindGroupKeeps ==
  ASSUME IInv, NEW r \in Requests, FindGroup(r)
  PROVE  IInv'
<1> DEFINE g == req[r].id
<1>1. phase[r] = "finding" /\ req[r].kind # "removeUser" /\ UNCHANGED tables
  BY DEF FindGroup
<1>2. CASE Answer(r, Failure("NotFoundException"))
  BY <1>1, <1>2, FailureTyped, Answered
<1>3. CASE Exists(g) /\ Await(r, "findingMembers") /\ tx' = [tx EXCEPT ![r].row = groups[g]]
  <2>1. PhaseFits(r) /\ tx[r] \in Tx
    BY SlotsAreFunctions DEF Fits, SlotTyped
  <2>2. /\ Idle(tx[r]) /\ req[r].kind \in {"get", "replace", "patch", "remove"}
        /\ req[r].kind = "patch" => PatchResult[req[r].body] # Thrown
    BY <1>1, <2>1 DEF PhaseFits, Running
  <2>3. g \in GroupIds
    BY <1>1, <2>2, BusyRequest DEF Request
  <2>4. groups[g] \in GroupRow /\ g \in issued
    BY <1>3, <2>3, TypesOfSlots DEF IInv, TablesOK, Exists
  <2> DEFINE t == [tx[r] EXCEPT !.row = groups[g]]
  <2>5. tx' = [tx EXCEPT ![r] = t] /\ t \in Tx /\ t.row # NoRow /\ Idle(t)
    BY <1>3, <2>1, <2>2, <2>4, SentinelsAssumption DEF Tx, Idle
  <2> HIDE DEF t
  <2> QED
    BY <1>1, <1>3, <2>2, <2>4, <2>5, Awaited
<1> QED
  BY <1>2, <1>3 DEF FindGroup

LEMMA SuccessTyped ==
  /\ Success(204, NoBody) \in Answers
  /\ \A g \in GroupIds, row \in GroupRow, users \in SUBSET UserIds, status \in {200, 201} :
       Success(status, ToScimGroup(g, row, users)) \in Answers
BY SentinelsAssumption DEF Success, Answers, ToScimGroup, GroupRow

LEMMA FoundKeeps ==
  ASSUME IInv, NEW r \in Requests, UNCHANGED tables,
         phase[r] \in {"findingMembers", "findingUsers"},
         NEW users \in SUBSET UserIds, Found(r, users)
  PROVE  IInv'
<1>1. /\ PhaseFits(r) /\ tx[r] \in Tx /\ req[r] \in Request
      /\ req[r].kind \in {"get", "replace", "patch", "remove"}
      /\ req[r].kind = "patch" => PatchResult[req[r].body] # Thrown
      /\ req[r].id \in issued
      /\ tx[r].row # NoRow
  BY SlotsAreFunctions, BusyRequest DEF Fits, SlotTyped, PhaseFits
<1>2. req[r].id \in GroupIds
  BY <1>1, TypesOfSlots DEF IInv, TablesOK
<1>3. CASE Answer(r, Success(200, ToScimGroup(req[r].id, tx[r].row, users)))
  <2>1. tx[r].row \in GroupRow
    BY <1>1 DEF Tx
  <2> QED
    BY <1>2, <1>3, <2>1, SuccessTyped, Answered
<1>4. CASE RefuseMalformed(r)
  BY <1>4, FailureTyped, Answered DEF RefuseMalformed
<1>5. CASE /\ ~Malformed(req[r])
           /\ Await(r, "inTransaction")
           /\ req[r].kind # "get"
           /\ tx' = [tx EXCEPT ![r] = [NoTx EXCEPT !.group = req[r].id, !.todo = Statements(req[r])]]
  <2>1. StatementsFit(req[r], Statements(req[r]))
    BY <1>1, <1>5, StatementsOf DEF Writers
  <2> DEFINE t == [NoTx EXCEPT !.group = req[r].id, !.todo = Statements(req[r])]
  <2>2. t \in Tx
    BY <1>2, <2>1, NoTxTyped DEF Tx, StatementsFit
  <2>3. /\ Idle([t EXCEPT !.todo = <<>>, !.group = Absent]) /\ t.row = NoRow
        /\ t.todo = Statements(req[r]) /\ t.group = req[r].id
    BY NoTxTyped DEF Idle, NoTx
  <2>4. tx' = [tx EXCEPT ![r] = t]
    BY <1>5
  <2> HIDE DEF t
  <2> QED
    BY <1>1, <1>5, <2>1, <2>2, <2>3, <2>4, Begun DEF Writers, Droppers
<1>6. CASE /\ Await(r, "finding")
           /\ tx' = [tx EXCEPT ![r] = [NoTx EXCEPT !.committed = TRUE]]
  <2> DEFINE t == [NoTx EXCEPT !.committed = TRUE]
  <2>1. t \in Tx /\ Idle(t) /\ t.row = NoRow
    BY NoTxTyped DEF NoTx, Tx, Idle
  <2> HIDE DEF t
  <2>2. tx' = [tx EXCEPT ![r] = t]
    BY <1>6 DEF t
  <2> QED
    BY <1>1, <1>6, <2>1, <2>2, Awaited
<1> QED
  BY <1>3, <1>4, <1>5, <1>6 DEF Found

LEMMA FindMembersKeeps ==
  ASSUME IInv, NEW r \in Requests, FindMembers(r)
  PROVE  IInv'
<1> DEFINE found == {u \in liveUsers : <<req[r].id, u>> \in members}
<1>1. phase[r] = "findingMembers" /\ UNCHANGED tables
  BY DEF FindMembers
<1>2. CASE Found(r, {})
  BY <1>1, <1>2, FoundKeeps
<1>3. CASE Await(r, "findingUsers") /\ tx' = [tx EXCEPT ![r].seen = found]
  <2>1. PhaseFits(r) /\ tx[r] \in Tx /\ found \subseteq UserIds
    BY SlotsAreFunctions, TypesOfSlots DEF IInv, Fits, SlotTyped, TablesOK
  <2>2. /\ Idle(tx[r]) /\ req[r].kind \in {"get", "replace", "patch", "remove"}
        /\ req[r].kind = "patch" => PatchResult[req[r].body] # Thrown
        /\ req[r].id \in issued /\ tx[r].row # NoRow
    BY <1>1, <2>1 DEF PhaseFits, Running
  <2> DEFINE t == [tx[r] EXCEPT !.seen = found]
  <2>3. tx' = [tx EXCEPT ![r] = t] /\ t \in Tx /\ t.row # NoRow /\ Idle(t)
    BY <1>3, <2>1, <2>2 DEF Tx, Idle
  <2> HIDE DEF t
  <2> QED
    BY <1>1, <1>3, <2>2, <2>3, Awaited
<1> QED
  BY <1>2, <1>3 DEF FindMembers

LEMMA FindUsersKeeps ==
  ASSUME IInv, NEW r \in Requests, FindUsers(r)
  PROVE  IInv'
<1>1. phase[r] = "findingUsers" /\ UNCHANGED tables
  BY DEF FindUsers
<1>2. CASE Found(r, tx[r].seen)
  <2>1. tx[r].seen \in SUBSET UserIds
    BY SlotsAreFunctions DEF SlotTyped, Tx
  <2> QED
    BY <1>1, <1>2, <2>1, FoundKeeps
<1>3. CASE Answer(r, Failure("PrismaClientUnknownRequestError"))
  BY <1>1, <1>3, FailureTyped, Answered
<1> QED
  BY <1>2, <1>3 DEF FindUsers

-------------------------------------------------------------------------------
(* A wipe. *)

(* The statements of a wipe of one table. *)
LEMMA DropAllOf ==
  ASSUME NEW S \in SUBSET (GroupIds \cup UserIds), IsFiniteSet(S), NEW o \in SetToSeqs(S),
         NEW pairs \in SUBSET Memberships, \A id \in S : Touching(id) \subseteq pairs,
         NEW q \in Request, q.kind = "clearData"
  PROVE  /\ StatementsFit(q, DropAll(o) \o Cascade(pairs))
         /\ \A id \in S : \E i \in DOMAIN (DropAll(o) \o Cascade(pairs)) :
              /\ (DropAll(o) \o Cascade(pairs))[i].do = "drop"
              /\ (DropAll(o) \o Cascade(pairs))[i].id = id
<1> DEFINE h == DropAll(o)
           t == <<Delete(pairs)>>
           s == h \o t
<1>1. o \in Seq(S) /\ \A x \in S : \E i \in DOMAIN o : o[i] = x
  BY OrdersOf
<1>2. \A i \in DOMAIN o : o[i] \in S
  BY <1>1
<1>3. h \in [DOMAIN o -> StatementOf]
  BY <1>2 DEF DropAll, StatementOf
<1>4. h \in Seq(StatementOf) /\ DOMAIN h = DOMAIN o
  BY <1>1, <1>3, AlongSequence
<1>5. \A i \in DOMAIN h : h[i].do = "drop" /\ h[i].id = o[i]
  BY <1>4 DEF DropAll
<1>6. /\ Delete(pairs) \in StatementOf /\ t = <<Delete(pairs)>>
      /\ Delete(pairs).do = "delete" /\ Delete(pairs).pairs = pairs
  BY StatementTypes DEF Delete
<1>7. Cascade(pairs) = t
  BY DEF Cascade
<1> HIDE DEF h, t
<1>8. /\ s \in Seq(StatementOf) /\ DOMAIN s = 1..Len(h) + 1 /\ Len(h) \in Nat
      /\ DOMAIN h = 1..Len(h)
      /\ \A i \in 1..Len(h) : s[i] = h[i]
      /\ s[Len(h) + 1] = Delete(pairs)
  BY <1>4, <1>6, ConcatOne
<1> HIDE DEF s
<1>9. \A i \in DOMAIN s : \/ i \in DOMAIN h /\ s[i].do = "drop" /\ s[i].id \in S
                          \/ i = Len(h) + 1 /\ s[i].do = "delete" /\ s[i].pairs = pairs
  BY <1>2, <1>4, <1>5, <1>6, <1>8
<1>10. Cascading(s)
  BY <1>8, <1>9 DEF Cascading
<1>11. StatementsFit(q, s)
  BY <1>8, <1>9, <1>10 DEF StatementsFit, MayDo
<1>12. \A id \in S : \E i \in DOMAIN s : s[i].do = "drop" /\ s[i].id = id
  BY <1>1, <1>4, <1>5, <1>8
<1> QED
  BY <1>7, <1>11, <1>12 DEF s, h

(* The rows of the table a wipe is at. *)
Rows(table) == CASE table = "members" -> {}
                 [] table = "users"   -> liveUsers
                 [] table = "groups"  -> {g \in GroupIds : Exists(g)}

LEMMA ClearTableFits ==
  ASSUME IInv, NEW r \in Requests, ClearTable(r)
  PROVE  /\ req[r].kind = "clearData"
         /\ phase[r] = "clearing"
         /\ \E todo : /\ tx' = [tx EXCEPT ![r].todo = todo]
                      /\ StatementsFit(req[r], todo)
                      /\ \A id \in Rows(tx[r].table) :
                           \E i \in DOMAIN todo : todo[i].do = "drop" /\ todo[i].id = id
<1> DEFINE present == {g \in GroupIds : Exists(g)}
<1>1. /\ PhaseFits(r) /\ tx[r] \in Tx /\ TablesOK
      /\ phase[r] = "clearing" /\ UNCHANGED tables
  BY SlotsAreFunctions, TypesOfSlots DEF IInv, Fits, SlotTyped, ClearTable
<1>2. req[r].kind = "clearData" /\ req[r] \in Request
  BY <1>1, BusyRequest DEF PhaseFits
<1>3. CASE tx[r].table = "members"
  <2>1. GroupIds \X MemberIds \in SUBSET Memberships
    BY DEF Memberships
  <2> DEFINE todo == <<Delete(GroupIds \X MemberIds)>>
  <2>2. tx' = [tx EXCEPT ![r].todo = todo]
    BY <1>3 DEF ClearTable
  <2>3. todo \in Seq(StatementOf) /\ DOMAIN todo = {1} /\ todo[1].do = "delete"
    BY <2>1, StatementTypes DEF Delete
  <2> HIDE DEF todo
  <2>4. StatementsFit(req[r], todo)
    BY <1>2, <2>3 DEF StatementsFit, Cascading, MayDo
  <2> QED
    BY <1>1, <1>2, <1>3, <2>2, <2>4 DEF Rows
<1>4. CASE tx[r].table = "users"
  <2>1. /\ liveUsers \in SUBSET (GroupIds \cup UserIds) /\ IsFiniteSet(liveUsers)
    BY <1>1, IdsAssumption, FS_Subset DEF TablesOK
  <2>2. GroupIds \X liveUsers \in SUBSET Memberships
    BY <1>1, IdsAssumption DEF TablesOK, Memberships
  <2>3. \A id \in liveUsers : Touching(id) \subseteq GroupIds \X liveUsers
    BY <1>1, IdsAssumption DEF TablesOK, Touching, Memberships
  <2>4. PICK o \in SetToSeqs(liveUsers) :
          tx' = [tx EXCEPT ![r].todo = DropAll(o) \o Cascade(GroupIds \X liveUsers)]
    <3>1. \E todo \in {DropAll(o) \o Cascade(GroupIds \X liveUsers) : o \in SetToSeqs(liveUsers)} :
            tx' = [tx EXCEPT ![r].todo = todo]
      BY <1>4 DEF ClearTable
    <3> QED
      BY <3>1
  <2> DEFINE todo == DropAll(o) \o Cascade(GroupIds \X liveUsers)
  <2>5. StatementsFit(req[r], todo)
    BY <1>2, <2>1, <2>2, <2>3, DropAllOf
  <2>6. \A id \in liveUsers : \E i \in DOMAIN todo : todo[i].do = "drop" /\ todo[i].id = id
    BY <1>2, <2>1, <2>2, <2>3, DropAllOf
  <2> HIDE DEF todo
  <2>7. tx' = [tx EXCEPT ![r].todo = todo]
    BY <2>4 DEF todo
  <2> QED
    <3>1. Rows(tx[r].table) = liveUsers
      BY <1>4 DEF Rows
    <3> QED
      BY <1>1, <1>2, <2>5, <2>6, <2>7, <3>1
<1>5. CASE tx[r].table = "groups"
  <2>1. /\ present \in SUBSET (GroupIds \cup UserIds) /\ IsFiniteSet(present)
    BY <1>1, IdsAssumption, FS_Subset DEF TablesOK
  <2>2. present \X MemberIds \in SUBSET Memberships
    BY DEF Memberships
  <2>3. \A id \in present : Touching(id) \subseteq present \X MemberIds
    BY IdsAssumption DEF Touching, Memberships
  <2>4. PICK o \in SetToSeqs(present) :
          tx' = [tx EXCEPT ![r].todo = DropAll(o) \o Cascade(present \X MemberIds)]
    <3>1. \E todo \in {DropAll(o) \o Cascade(present \X MemberIds) : o \in SetToSeqs(present)} :
            tx' = [tx EXCEPT ![r].todo = todo]
      BY <1>5 DEF ClearTable
    <3> QED
      BY <3>1
  <2> DEFINE todo == DropAll(o) \o Cascade(present \X MemberIds)
  <2>5. StatementsFit(req[r], todo)
    BY <1>2, <2>1, <2>2, <2>3, DropAllOf
  <2>6. \A id \in present : \E i \in DOMAIN todo : todo[i].do = "drop" /\ todo[i].id = id
    BY <1>2, <2>1, <2>2, <2>3, DropAllOf
  <2> HIDE DEF todo
  <2>7. tx' = [tx EXCEPT ![r].todo = todo]
    BY <2>4 DEF todo
  <2> QED
    <3>1. Rows(tx[r].table) = present
      BY <1>5 DEF Rows
    <3> QED
      BY <1>1, <1>2, <2>5, <2>6, <2>7, <3>1
<1> QED
  BY <1>1, <1>3, <1>4, <1>5 DEF Tx

LEMMA ClearTableKeeps ==
  ASSUME IInv, NEW r \in Requests, ClearTable(r)
  PROVE  IInv'
<1>1. PICK todo : /\ tx' = [tx EXCEPT ![r].todo = todo]
                  /\ StatementsFit(req[r], todo)
  BY ClearTableFits
<1>2. /\ PhaseFits(r) /\ tx[r] \in Tx /\ phase[r] = "clearing" /\ req[r].kind = "clearData"
  BY SlotsAreFunctions, ClearTableFits DEF Fits, SlotTyped
<1>3. Idle(tx[r]) /\ tx[r].row = NoRow
  BY <1>2 DEF PhaseFits, Running
<1> DEFINE t == [tx[r] EXCEPT !.todo = todo]
<1>4. tx' = [tx EXCEPT ![r] = t] /\ t \in Tx
  BY <1>1, <1>2 DEF StatementsFit, Tx
<1>5. /\ Idle([t EXCEPT !.todo = <<>>, !.group = Absent]) /\ t.row = NoRow
      /\ t.group = Absent /\ t.todo = todo
  BY <1>2, <1>3 DEF Idle, Tx
<1> HIDE DEF t
<1>6. UNCHANGED tables /\ Await(r, "inTransaction")
  BY DEF ClearTable
<1> QED
  BY <1>1, <1>2, <1>4, <1>5, <1>6, Begun DEF Droppers

-------------------------------------------------------------------------------
(* The statements of a transaction. *)

(* What is known of a transaction that executes its next statement.        *)
LEMMA Executing ==
  ASSUME IInv, NEW r \in Requests, Running(r), tx[r].todo # <<>>
  PROVE  /\ tx[r] \in Tx /\ TxOK(r) /\ TablesOK
         /\ req[r] \in Request /\ req[r].kind \in Writers \cup Droppers
         /\ GroupFits(r) /\ TodoFits(r) /\ HoldsFit(r) /\ InsertsRefer(r)
         /\ DropsCascade(r) /\ DropsCovered(r) /\ NameFree(r)
         /\ tx[r].todo \in Seq(StatementOf)
         /\ Current(r) = tx[r].todo[1] /\ Head(tx[r].todo) = tx[r].todo[1]
         /\ Current(r) \in StatementOf /\ Current(r).do \in MayDo(req[r])
<1>1. SlotTyped(r) /\ TablesOK /\ Fits(r)
  BY TypesOfSlots DEF IInv
<1>2. tx[r] \in Tx /\ tx[r].todo \in Seq(StatementOf)
  BY <1>1 DEF SlotTyped, Tx
<1>3. /\ Current(r) = tx[r].todo[1] /\ Head(tx[r].todo) = tx[r].todo[1]
      /\ Current(r) \in StatementOf /\ 1 \in DOMAIN tx[r].todo
  BY <1>2 DEF Current
<1>4. PhaseFits(r) /\ TodoFits(r)
  BY <1>1 DEF Fits
<1> QED
  BY <1>1, <1>2, <1>3, <1>4, BusyRequest DEF SlotTyped, Fits, PhaseFits, TodoFits, Running

LEMMA Stepped ==
  ASSUME IInv, NEW r \in Requests, Running(r), UNCHANGED <<tables, req, phase, answer>>,
         NEW n \in Tx, tx' = [tx EXCEPT ![r] = n],
         n.ins \subseteq {n.group} \X MemberIds, n.del \subseteq members,
         n.targets \subseteq members \cup n.ins,
         GroupFits(r)', TodoFits(r)', HoldsFit(r)', InsertsRefer(r)', DropsCascade(r)',
         DropsCovered(r)', NameFree(r)',
         \A s \in Requests \ {r} : Apart(r, s)' /\ Apart(s, r)'
  PROVE  IInv'
<1>1. SlotTyped(r) /\ PhaseFits(r)
  BY SlotsAreFunctions DEF Fits
<1>2. OnlySlot(r)
  BY SlotsAreFunctions DEF OnlySlot
<1>3. /\ tx'[r] = n /\ req'[r] = req[r] /\ phase'[r] = phase[r] /\ answer'[r] = answer[r]
      /\ Running(r)'
  BY SlotsAreFunctions DEF Running
<1>4. SlotTyped(r)'
  BY <1>1, <1>3 DEF SlotTyped, SlotOK, TxOK, tables, Running
<1>5. PhaseFits(r)'
  BY <1>1, <1>3 DEF PhaseFits, Running
<1> QED
  BY <1>2, <1>4, <1>5, Frame DEF Fits

(* A step that writes and locks nothing: it goes on in its DELETE, or in   *)
(* its statements.                                                         *)
Quiet(t, n) == /\ n.group = t.group /\ n.ins = t.ins /\ n.del = t.del /\ n.refs = t.refs
               /\ n.lock = t.lock /\ n.drops = t.drops /\ n.row = t.row

LEMMA QuietStep ==
  ASSUME IInv, NEW r \in Requests, Running(r), tx[r].todo # <<>>,
         UNCHANGED <<tables, req, phase, answer>>,
         NEW n \in Tx, tx' = [tx EXCEPT ![r] = n], Quiet(tx[r], n),
         n.targets \subseteq members \cup n.ins,
         Current(r).do # "insertGroup", Claimed(r)' => Claimed(r),
         TodoFits(r)', InsertsRefer(r)', DropsCascade(r)', DropsCovered(r)'
  PROVE  IInv'
<1>1. /\ tx[r] \in Tx /\ TxOK(r) /\ GroupFits(r) /\ HoldsFit(r) /\ NameFree(r)
      /\ Head(tx[r].todo) = Current(r)
  BY Executing
<1>2. /\ tx'[r] = n /\ req'[r] = req[r] /\ phase'[r] = phase[r] /\ Running(r)'
      /\ groups' = groups /\ issued' = issued /\ liveUsers' = liveUsers
  BY SlotsAreFunctions DEF Running, tables
<1>3. /\ n.group = tx[r].group /\ n.ins = tx[r].ins /\ n.del = tx[r].del /\ n.refs = tx[r].refs
      /\ n.lock = tx[r].lock /\ n.drops = tx[r].drops /\ n.row = tx[r].row
  BY DEF Quiet
<1>4. GroupFits(r)'
  BY <1>1, <1>2, <1>3 DEF GroupFits
<1>5. HoldsFit(r)'
  BY <1>1, <1>2, <1>3 DEF HoldsFit, Exists
<1>6. NameFree(r)'
  BY <1>1, <1>2, <1>3 DEF NameFree, Exists
<1>7. ASSUME NEW s \in Requests \ {r} PROVE Apart(r, s)' /\ Apart(s, r)'
  <2>1. Apart(r, s) /\ Apart(s, r)
    BY DEF IInv
  <2>2. tx'[s] = tx[s] /\ req'[s] = req[s] /\ phase'[s] = phase[s] /\ (Claimed(s)' <=> Claimed(s))
    BY SlotsAreFunctions DEF Claimed, Running, Doing, Current
  <2>3. Running(s)' = Running(s)
    BY <2>2 DEF Running
  <2> QED
    BY <1>2, <1>3, <2>1, <2>2, <2>3 DEF Apart
<1> QED
  BY <1>1, <1>3, <1>4, <1>5, <1>6, <1>7, Stepped DEF TxOK

(* The first statement is done, or gives way to k + 1 others that neither  *)
(* delete nor drop.                                                        *)
Continues(q, old, new, k) ==
  /\ new \in Seq(StatementOf)
  /\ \A j \in DOMAIN old : j > 1 => j + k \in DOMAIN new /\ new[j + k] = old[j]
  /\ \A i \in DOMAIN new :
       \/ i <= k + 1 /\ new[i].do \in MayDo(q) \ {"insertGroup", "drop", "delete"}
       \/ i > k + 1 /\ i - k \in DOMAIN old /\ new[i] = old[i - k]

LEMMA DoneContinues ==
  ASSUME NEW q, NEW old \in Seq(StatementOf), old # <<>>
  PROVE  Continues(q, old, Tail(old), -1)
<1> DEFINE new == Tail(old)
<1>1. new \in Seq(StatementOf)
  BY TailOf
<1>2. \A j \in DOMAIN old : j > 1 => j - 1 \in DOMAIN new /\ new[j - 1] = old[j]
  BY TailOf
<1>3. \A i \in DOMAIN new : i > 0 /\ i + 1 \in DOMAIN old /\ new[i] = old[i + 1]
  BY TailOf
<1> QED
  BY <1>1, <1>2, <1>3, TailOf DEF Continues

LEMMA ReplacedContinues ==
  ASSUME NEW q, NEW old \in Seq(StatementOf), old # <<>>, NEW e \in StatementOf,
         e.do \in MayDo(q) \ {"insertGroup", "drop", "delete"}
  PROVE  Continues(q, old, <<e>> \o Tail(old), 0)
BY HeadReplaced DEF Continues

LEMMA ReplacedByTwoContinues ==
  ASSUME NEW q, NEW old \in Seq(StatementOf), old # <<>>, NEW e \in StatementOf, NEW f \in StatementOf,
         e.do \in MayDo(q) \ {"insertGroup", "drop", "delete"},
         f.do \in MayDo(q) \ {"insertGroup", "drop", "delete"}
  PROVE  Continues(q, old, <<e, f>> \o Tail(old), 1)
BY HeadReplacedByTwo DEF Continues

LEMMA ContinuesKeeps ==
  ASSUME NEW r \in Requests, TodoFits(r), DropsCascade(r), Running(r),
         req'[r] = req[r], tx[r].todo \in Seq(StatementOf), tx[r].todo # <<>>,
         NEW k \in {-1, 0, 1}, Continues(req[r], tx[r].todo, tx'[r].todo, k)
  PROVE  /\ DropsCascade(r)'
         /\ \A i \in DOMAIN tx'[r].todo : /\ tx'[r].todo[i].do \in MayDo(req'[r])
                                          /\ tx'[r].todo[i].do # "insertGroup"
         /\ \A j \in DOMAIN tx[r].todo : j > 1 =>
              /\ j + k \in DOMAIN tx'[r].todo
              /\ tx'[r].todo[j + k] = tx[r].todo[j]
<1> DEFINE old == tx[r].todo
           new == tx'[r].todo
<1>1. DOMAIN old = 1..Len(old) /\ DOMAIN new = 1..Len(new) /\ Len(old) \in Nat /\ Len(new) \in Nat
  BY DEF Continues
<1>2. /\ \A j \in DOMAIN old : j > 1 => j + k \in DOMAIN new /\ new[j + k] = old[j]
      /\ \A i \in DOMAIN new :
           \/ i <= k + 1 /\ new[i].do \in MayDo(req[r]) \ {"insertGroup", "drop", "delete"}
           \/ i > k + 1 /\ i - k \in DOMAIN old /\ new[i] = old[i - k]
  BY DEF Continues
<1>3. \A i \in DOMAIN old : /\ old[i].do \in MayDo(req[r])
                            /\ i > 1 => old[i].do # "insertGroup"
  BY DEF TodoFits
<1> HIDE DEF old, new
<1>4. \A i \in DOMAIN new : new[i].do \in MayDo(req[r]) /\ new[i].do # "insertGroup"
  BY <1>1, <1>2, <1>3
<1>5. ASSUME NEW i \in DOMAIN new, new[i].do = "drop"
      PROVE  \E j \in DOMAIN new : /\ j > i
                                   /\ new[j].do = "delete"
                                   /\ Touching(new[i].id) \subseteq new[j].pairs
  <2>1. i > k + 1 /\ i - k \in DOMAIN old /\ new[i] = old[i - k]
    BY <1>2, <1>5
  <2>2. PICK j \in DOMAIN old : /\ j > i - k
                                /\ old[j].do = "delete"
                                /\ Touching(old[i - k].id) \subseteq old[j].pairs
    BY <1>5, <2>1 DEF DropsCascade, old
  <2>3. j > 1 /\ j + k > i
    BY <1>1, <2>1, <2>2
  <2>4. j + k \in DOMAIN new /\ new[j + k] = old[j]
    BY <1>2, <2>3
  <2> QED
    BY <2>1, <2>2, <2>3, <2>4
<1>6. DropsCascade(r)'
  BY <1>5 DEF DropsCascade, new
<1> QED
  BY <1>2, <1>4, <1>6 DEF old, new

(* A DELETE takes its snapshot.                                            *)
LEMMA ScanMembersKeeps ==
  ASSUME IInv, NEW r \in Requests, ScanMembers(r)
  PROVE  IInv'
<1> DEFINE n == [tx[r] EXCEPT !.scanning = TRUE, !.targets = Visible(r) \cap Current(r).pairs]
<1>1. /\ Running(r) /\ tx[r].todo # <<>> /\ Current(r).do = "delete" /\ ~tx[r].scanning
      /\ UNCHANGED <<tables, req, phase, answer>>
  BY DEF ScanMembers, Doing
<1>2. /\ tx[r] \in Tx /\ TxOK(r) /\ TablesOK
      /\ TodoFits(r) /\ InsertsRefer(r) /\ DropsCascade(r) /\ DropsCovered(r)
      /\ Current(r) = tx[r].todo[1]
  BY <1>1, Executing
<1>3. Visible(r) \subseteq members \cup tx[r].ins /\ Visible(r) \subseteq Memberships
  BY <1>2 DEF Visible, TablesOK, Tx
<1>4. tx' = [tx EXCEPT ![r] = n] /\ n \in Tx
  BY <1>2, <1>3 DEF ScanMembers, Tx
<1>5. /\ Quiet(tx[r], n) /\ n.todo = tx[r].todo /\ n.scanning
      /\ n.targets = Visible(r) \cap Current(r).pairs
      /\ n.del = tx[r].del /\ n.ins = tx[r].ins /\ n.lock = tx[r].lock
      /\ n.refs = tx[r].refs /\ n.drops = tx[r].drops /\ n.row = tx[r].row
  BY <1>2 DEF Quiet, Tx
<1> HIDE DEF n
<1>6. tx'[r] = n /\ req'[r] = req[r] /\ Running(r)' /\ members' = members
  BY <1>1, <1>4, SlotsAreFunctions DEF Running, tables
<1>7. TodoFits(r)' /\ InsertsRefer(r)'
  BY <1>1, <1>2, <1>5, <1>6 DEF TodoFits, InsertsRefer, Doing, Current, Referring
<1>8. DropsCascade(r)'
  BY <1>2, <1>5, <1>6 DEF DropsCascade
<1>9. DropsCovered(r)'
  <2> SUFFICES ASSUME NEW p \in members, p[1] \in tx[r].drops \/ p[2] \in tx[r].drops
               PROVE  Covered(r, p)'
    BY <1>5, <1>6 DEF DropsCovered
  <2>1. Covered(r, p)
    BY <1>2 DEF DropsCovered
  <2>2. p \in tx[r].del \/ p \in Visible(r)
    BY DEF Visible
  <2>3. CASE p \in tx[r].del \cup tx[r].targets
    BY <1>1, <1>2, <1>5, <1>6, <2>3 DEF Covered, TodoFits
  <2>4. ASSUME NEW j \in DOMAIN tx[r].todo, tx[r].todo[j].do = "delete", p \in tx[r].todo[j].pairs
        PROVE  Covered(r, p)'
    <3>1. CASE j = 1
      BY <1>2, <1>5, <1>6, <2>2, <2>4, <3>1 DEF Covered
    <3>2. CASE j # 1
      <4>1. j > 1
        BY <1>1, <3>2, Executing
      <4> QED
        BY <1>5, <1>6, <2>4, <4>1 DEF Covered
    <3> QED
      BY <3>1, <3>2
  <2> QED
    BY <2>1, <2>3, <2>4 DEF Covered
<1> QED
  BY <1>1, <1>3, <1>4, <1>5, <1>6, <1>7, <1>8, <1>9, QuietStep DEF Claimed, Doing, Current

(* What is covered stays covered when another statement than a DELETE, or  *)
(* a DELETE that has no row left, is done.                                 *)
LEMMA CoverContinues ==
  ASSUME IInv, NEW r \in Requests, Running(r), tx[r].todo # <<>>,
         NEW k \in {-1, 0, 1}, Continues(req[r], tx[r].todo, tx'[r].todo, k),
         req'[r] = req[r],
         tx[r].todo[1].do # "delete" \/ tx[r].scanning, ~tx'[r].scanning,
         tx'[r].del = tx[r].del, tx'[r].targets = tx[r].targets,
         NEW p, Covered(r, p)
  PROVE  Covered(r, p)'
<1>1. CASE p \in tx[r].del \cup tx[r].targets
  BY <1>1 DEF Covered
<1>2. ASSUME NEW j \in DOMAIN tx[r].todo, tx[r].todo[j].do = "delete", p \in tx[r].todo[j].pairs,
             j > 1 \/ ~tx[r].scanning
      PROVE  Covered(r, p)'
  <2>1. j > 1
    BY <1>2, Executing
  <2>2. j + k \in DOMAIN tx'[r].todo /\ tx'[r].todo[j + k] = tx[r].todo[j]
    BY <2>1, Executing, ContinuesKeeps
  <2> QED
    BY <1>2, <2>2 DEF Covered
<1> QED
  BY <1>1, <1>2 DEF Covered

(* A DELETE is done. *)
LEMMA EndDeleteKeeps ==
  ASSUME IInv, NEW r \in Requests, EndDelete(r)
  PROVE  IInv'
<1> DEFINE n == [tx[r] EXCEPT !.scanning = FALSE, !.todo = Tail(tx[r].todo)]
<1>1. /\ Running(r) /\ tx[r].todo # <<>> /\ Current(r).do = "delete"
      /\ tx[r].scanning /\ tx[r].targets = {}
      /\ UNCHANGED <<tables, req, phase, answer>>
  BY DEF EndDelete, Doing, Proceed
<1>2. /\ tx[r] \in Tx /\ TxOK(r) /\ tx[r].todo \in Seq(StatementOf)
      /\ TodoFits(r) /\ InsertsRefer(r) /\ DropsCascade(r) /\ DropsCovered(r)
      /\ Current(r) = tx[r].todo[1] /\ Head(tx[r].todo) = tx[r].todo[1]
  BY <1>1, Executing
<1>3. tx' = [tx EXCEPT ![r] = n] /\ n \in Tx
  BY <1>1, <1>2, TailOf DEF EndDelete, Proceed, Tx
<1>4. /\ Quiet(tx[r], n) /\ n.todo = Tail(tx[r].todo) /\ ~n.scanning /\ n.targets = {}
      /\ n.del = tx[r].del /\ n.ins = tx[r].ins /\ n.lock = tx[r].lock
      /\ n.refs = tx[r].refs /\ n.drops = tx[r].drops /\ n.row = tx[r].row
  BY <1>1, <1>2 DEF Quiet, Tx
<1> HIDE DEF n
<1>5. tx'[r] = n /\ req'[r] = req[r] /\ Running(r)' /\ members' = members
  BY <1>1, <1>3, SlotsAreFunctions DEF Running, tables
<1>6. Continues(req[r], tx[r].todo, tx'[r].todo, -1)
  BY <1>1, <1>2, <1>4, <1>5, DoneContinues
<1>7. TodoFits(r)'
  BY <1>1, <1>2, <1>4, <1>5, <1>6, ContinuesKeeps DEF TodoFits
<1>8. InsertsRefer(r)'
  <2>1. \A p \in tx[r].ins : p[2] \in tx[r].refs
    BY <1>1, <1>2 DEF InsertsRefer, Referring
  <2>2. tx[r].ins # {} => tx[r].lock # "none"
    BY <1>1, <1>2 DEF InsertsRefer, Doing
  <2> QED
    BY <1>4, <1>5, <2>1, <2>2 DEF InsertsRefer
<1>9. DropsCascade(r)'
  BY <1>1, <1>2, <1>5, <1>6, ContinuesKeeps
<1>10. DropsCovered(r)'
  BY <1>1, <1>2, <1>4, <1>5, <1>6, CoverContinues DEF DropsCovered
<1>11. Claimed(r)' => Claimed(r)
  BY <1>1, <1>4, <1>5 DEF Claimed, Doing
<1> QED
  BY <1>1, <1>3, <1>4, <1>7, <1>8, <1>9, <1>10, <1>11, QuietStep

(* An upsert finds the membership, or goes on to insert it.                *)
LEMMA UpsertMemberKeeps ==
  ASSUME IInv, NEW r \in Requests, UpsertMember(r)
  PROVE  IInv'
<1> DEFINE u == Current(r).user
           i == [Insert(u) EXCEPT !.upsert = TRUE]
<1>1. /\ Running(r) /\ tx[r].todo # <<>> /\ Current(r).do = "upsert"
      /\ UNCHANGED <<tables, req, phase, answer>>
  BY DEF UpsertMember, Doing, Proceed
<1>2. /\ tx[r] \in Tx /\ TxOK(r) /\ tx[r].todo \in Seq(StatementOf)
      /\ TodoFits(r) /\ InsertsRefer(r) /\ DropsCascade(r) /\ DropsCovered(r)
      /\ Current(r) = tx[r].todo[1] /\ Head(tx[r].todo) = tx[r].todo[1]
      /\ Current(r) \in StatementOf /\ Current(r).do \in MayDo(req[r])
  BY <1>1, Executing
<1>3. i \in StatementOf /\ i.do = "insert" /\ "insert" \in MayDo(req[r])
  <2>1. u \in MemberIds
    BY <1>1, <1>2 DEF StatementOf
  <2>2. i.do = "insert"
    BY DEF Insert
  <2> QED
    BY <1>1, <1>2, <2>1, <2>2, StatementTypes DEF MayDo
<1> DEFINE todo == tx'[r].todo
<1>4. /\ tx' = [tx EXCEPT ![r] = [tx[r] EXCEPT !.todo = todo]]
      /\ Continues(req[r], tx[r].todo, todo, -1) \/ Continues(req[r], tx[r].todo, todo, 0)
  <2>1. CASE Proceed(r, tx[r])
    <3>1. /\ tx' = [tx EXCEPT ![r] = [tx[r] EXCEPT !.todo = Tail(tx[r].todo)]]
          /\ todo = Tail(tx[r].todo)
      BY <1>2, <2>1, SlotsAreFunctions DEF Proceed, Tx
    <3>2. Continues(req[r], tx[r].todo, Tail(tx[r].todo), -1)
      BY <1>1, <1>2, DoneContinues
    <3> QED
      BY <3>1, <3>2
  <2>2. CASE tx' = [tx EXCEPT ![r].todo = <<i>> \o Tail(tx[r].todo)]
    <3>1. /\ tx' = [tx EXCEPT ![r] = [tx[r] EXCEPT !.todo = <<i>> \o Tail(tx[r].todo)]]
          /\ todo = <<i>> \o Tail(tx[r].todo)
      BY <1>2, <2>2, SlotsAreFunctions DEF Tx
    <3>2. Continues(req[r], tx[r].todo, <<i>> \o Tail(tx[r].todo), 0)
      BY <1>1, <1>2, <1>3, ReplacedContinues
    <3> QED
      BY <3>1, <3>2
  <2> QED
    BY <2>1, <2>2 DEF UpsertMember
<1>5. PICK k \in {-1, 0} : Continues(req[r], tx[r].todo, todo, k)
  BY <1>4
<1> DEFINE n == [tx[r] EXCEPT !.todo = todo]
<1>6. tx' = [tx EXCEPT ![r] = n] /\ n \in Tx
  <2>1. todo \in Seq(StatementOf)
    BY <1>5 DEF Continues
  <2>2. n \in Tx
    BY <1>2, <2>1 DEF Tx
  <2> QED
    BY <1>4, <2>2
<1>7. /\ Quiet(tx[r], n) /\ n.todo = todo /\ n.scanning = tx[r].scanning /\ n.targets = tx[r].targets
      /\ n.del = tx[r].del /\ n.ins = tx[r].ins /\ n.lock = tx[r].lock
      /\ n.refs = tx[r].refs /\ n.drops = tx[r].drops /\ n.row = tx[r].row
  BY <1>2 DEF Quiet, Tx
<1> HIDE DEF n
<1>8. tx'[r] = n /\ req'[r] = req[r] /\ Running(r)' /\ members' = members
  BY <1>1, <1>6, SlotsAreFunctions DEF Running, tables
<1>9. ~tx[r].scanning /\ tx[r].targets = {}
  BY <1>1, <1>2 DEF TodoFits, Doing
<1>10. TodoFits(r)'
  BY <1>1, <1>2, <1>5, <1>7, <1>8, <1>9, ContinuesKeeps DEF TodoFits
<1>11. InsertsRefer(r)'
  <2>1. \A p \in tx[r].ins : p[2] \in tx[r].refs
    BY <1>1, <1>2 DEF InsertsRefer, Referring
  <2>2. tx[r].ins # {} => tx[r].lock # "none"
    BY <1>1, <1>2 DEF InsertsRefer, Doing
  <2> QED
    BY <1>7, <1>8, <2>1, <2>2 DEF InsertsRefer
<1>12. DropsCascade(r)'
  BY <1>1, <1>2, <1>5, <1>7, <1>8, ContinuesKeeps
<1>13. DropsCovered(r)'
  <2>1. Continues(req[r], tx[r].todo, tx'[r].todo, k)
    BY <1>5, <1>7, <1>8
  <2> QED
    BY <1>1, <1>2, <1>7, <1>8, <1>9, <2>1, CoverContinues DEF DropsCovered
<1>14. Claimed(r)' => Claimed(r)
  BY <1>1, <1>7, <1>8 DEF Claimed, Doing
<1> QED
  BY <1>1, <1>2, <1>6, <1>7, <1>9, <1>10, <1>11, <1>12, <1>13, <1>14, QuietStep

(* What the others hold does not change. *)
LEMMA OthersHold ==
  ASSUME IInv, NEW r \in Requests, NEW s \in Requests \ {r},
         UNCHANGED <<tables, req, phase, answer>>, NEW n, tx' = [tx EXCEPT ![r] = n]
  PROVE  /\ tx'[s] = tx[s] /\ req'[s] = req[s] /\ phase'[s] = phase[s]
         /\ Running(s)' = Running(s) /\ Claimed(s)' = Claimed(s)
         /\ Apart(r, s) /\ Apart(s, r) /\ tx[s] \in Tx
         /\ GroupFits(s) /\ HoldsFit(s) /\ NameFree(s) /\ TxOK(s) /\ PhaseFits(s)
<1>1. /\ tx'[s] = tx[s] /\ req'[s] = req[s] /\ phase'[s] = phase[s]
  BY SlotsAreFunctions
<1>2. Running(s)' = Running(s)
  BY <1>1 DEF Running
<1>3. Claimed(s)' = Claimed(s)
  BY <1>1, <1>2 DEF Claimed, Doing, Current
<1>4. Apart(r, s) /\ Apart(s, r) /\ Fits(s) /\ SlotTyped(s)
  BY TypesOfSlots DEF IInv
<1> QED
  BY <1>1, <1>2, <1>3, <1>4 DEF Fits, SlotTyped

(* A DELETE deletes a row. *)
LEMMA DeleteMemberKeeps ==
  ASSUME IInv, NEW r \in Requests, DeleteMember(r)
  PROVE  IInv'
<1>1. /\ Running(r) /\ tx[r].todo # <<>> /\ Current(r).do = "delete" /\ tx[r].scanning
      /\ UNCHANGED <<tables, req, phase, answer>>
  BY DEF DeleteMember, Doing
<1>2. /\ tx[r] \in Tx /\ TxOK(r) /\ TablesOK
      /\ GroupFits(r) /\ TodoFits(r) /\ HoldsFit(r) /\ InsertsRefer(r)
      /\ DropsCascade(r) /\ DropsCovered(r) /\ NameFree(r)
      /\ Current(r) = tx[r].todo[1] /\ Current(r).do \in MayDo(req[r])
      /\ req[r].kind \in Writers \cup Droppers
  BY <1>1, Executing
<1>3. PICK p \in tx[r].targets :
        /\ \A s \in Others(r) : p \notin tx[s].del
        /\ tx' = [tx EXCEPT ![r].targets = @ \ {p},
                            ![r].ins     = @ \ {p},
                            ![r].del     = @ \cup ({p} \cap members)]
  BY DEF DeleteMember
<1> DEFINE n == [tx[r] EXCEPT !.targets = @ \ {p}, !.ins = @ \ {p}, !.del = @ \cup ({p} \cap members)]
<1>4. tx' = [tx EXCEPT ![r] = n] /\ n \in Tx
  BY <1>2, <1>3 DEF Tx
<1>5. /\ n.targets = tx[r].targets \ {p} /\ n.ins = tx[r].ins \ {p}
      /\ n.del = tx[r].del \cup ({p} \cap members)
      /\ n.group = tx[r].group /\ n.todo = tx[r].todo /\ n.scanning = tx[r].scanning
      /\ n.lock = tx[r].lock /\ n.refs = tx[r].refs /\ n.drops = tx[r].drops /\ n.row = tx[r].row
  BY <1>2 DEF Tx
<1> HIDE DEF n
<1>6. /\ tx'[r] = n /\ req'[r] = req[r] /\ Running(r)' /\ members' = members
      /\ groups' = groups /\ issued' = issued /\ liveUsers' = liveUsers
  BY <1>1, <1>4, SlotsAreFunctions DEF Running, tables
<1>7. n.ins \subseteq {n.group} \X MemberIds /\ n.del \subseteq members
      /\ n.targets \subseteq members \cup n.ins
  BY <1>2, <1>5 DEF TxOK
<1>8. req[r].kind # "create"
  BY <1>1, <1>2 DEF MayDo
<1>9. GroupFits(r)'
  <2>1. GroupFits(r) /\ Running(r)
    BY <1>1, <1>2
  <2> QED
    BY <2>1, <1>5, <1>6, <1>8 DEF GroupFits
<1>10. TodoFits(r)'
  BY <1>1, <1>2, <1>5, <1>6 DEF TodoFits, Doing, Current
<1>11. HoldsFit(r)'
  <2>1. HoldsFit(r) /\ Running(r)
    BY <1>1, <1>2
  <2> QED
    BY <2>1, <1>5, <1>6 DEF HoldsFit, Exists
<1>12. InsertsRefer(r)'
  BY <1>1, <1>2, <1>5, <1>6 DEF InsertsRefer, Doing, Current, Referring
<1>13. DropsCascade(r)'
  BY <1>2, <1>5, <1>6 DEF DropsCascade
<1>14. DropsCovered(r)'
  BY <1>2, <1>5, <1>6 DEF DropsCovered, Covered
<1>15. Claimed(r)' = Claimed(r)
  BY <1>1, <1>5, <1>6 DEF Claimed, Doing, Current
<1>16. NameFree(r)'
  BY <1>2, <1>5, <1>6, <1>15 DEF NameFree, Exists
<1>17. ASSUME NEW s \in Requests \ {r} PROVE Apart(r, s)' /\ Apart(s, r)'
  <2>1. p \notin tx[s].del
    <3>1. TxOK(s)
      BY <1>1, <1>4, OthersHold
    <3> QED
      BY <1>3, <3>1 DEF TxOK, Others
  <2>2. /\ tx'[s] = tx[s] /\ req'[s] = req[s] /\ Running(s)' = Running(s)
        /\ Claimed(s)' = Claimed(s) /\ Apart(r, s) /\ Apart(s, r)
    BY <1>1, <1>4, OthersHold
  <2> QED
    BY <1>1, <1>5, <1>6, <1>15, <2>1, <2>2 DEF Apart
<1> QED
  BY <1>1, <1>4, <1>7, <1>9, <1>10, <1>11, <1>12, <1>13, <1>14, <1>16, <1>17, Stepped

(* A statement that is no DELETE of memberships is done, or gives way to   *)
(* others.                                                                 *)
LEMMA StatementDone ==
  ASSUME IInv, NEW r \in Requests, Running(r), tx[r].todo # <<>>, Current(r).do # "delete",
         UNCHANGED <<tables, req, phase, answer>>,
         NEW n, tx' = [tx EXCEPT ![r] = n],
         n.scanning = tx[r].scanning, n.targets = tx[r].targets, n.del = tx[r].del,
         NEW k \in {-1, 0, 1}, Continues(req[r], tx[r].todo, n.todo, k)
  PROVE  /\ tx'[r] = n /\ req'[r] = req[r] /\ phase'[r] = phase[r] /\ Running(r)'
         /\ groups' = groups /\ issued' = issued /\ liveUsers' = liveUsers /\ members' = members
         /\ n.targets = {} /\ n.del \subseteq members
         /\ TodoFits(r)' /\ DropsCascade(r)'
         /\ \A p : Covered(r, p) => Covered(r, p)'
<1>1. /\ tx[r] \in Tx /\ TxOK(r) /\ tx[r].todo \in Seq(StatementOf)
      /\ TodoFits(r) /\ DropsCascade(r) /\ Current(r) = tx[r].todo[1]
  BY Executing
<1>2. /\ tx'[r] = n /\ req'[r] = req[r] /\ phase'[r] = phase[r] /\ Running(r)'
      /\ groups' = groups /\ issued' = issued /\ liveUsers' = liveUsers /\ members' = members
  BY SlotsAreFunctions DEF Running, tables
<1>3. ~tx[r].scanning /\ tx[r].targets = {}
  BY <1>1 DEF TodoFits, Doing
<1>4. TodoFits(r)'
  BY <1>1, <1>2, <1>3, ContinuesKeeps DEF TodoFits
<1>5. DropsCascade(r)'
  BY <1>1, <1>2, ContinuesKeeps
<1>6. \A p : Covered(r, p) => Covered(r, p)'
  BY <1>1, <1>2, <1>3, CoverContinues
<1> QED
  BY <1>1, <1>2, <1>3, <1>4, <1>5, <1>6 DEF TxOK

LEMMA Referred ==
  ASSUME IInv, NEW r \in Requests, Running(r), tx[r].todo # <<>>,
         Current(r).do \notin {"referGroup", "referUser"}
  PROVE  /\ \A p \in tx[r].ins : p[2] \in tx[r].refs
         /\ tx[r].ins # {} => tx[r].lock # "none"
BY Executing DEF InsertsRefer, Referring, Doing

(* The group that is referred to is kept. *)
LEMMA ReferGroupKeeps ==
  ASSUME IInv, NEW r \in Requests, ReferGroup(r)
  PROVE  IInv'
<1>1. /\ Running(r) /\ tx[r].todo # <<>> /\ Current(r).do = "referGroup" /\ ~Blocked(r)
      /\ UNCHANGED tables
  BY DEF ReferGroup, Doing, RollBack, Proceed
<1>2. CASE RollBack(r, "P2003")
  BY <1>1, <1>2, FailureTyped, Answered DEF RollBack, Running
<1>3. CASE /\ Exists(tx[r].group) \/ req[r].kind = "create"
           /\ Proceed(r, [tx[r] EXCEPT !.lock = IF @ = "none" THEN "keyShare" ELSE @])
  <2> DEFINE n == [tx[r] EXCEPT !.lock = IF @ = "none" THEN "keyShare" ELSE @,
                                !.todo = Tail(tx[r].todo)]
  <2>1. /\ tx[r] \in Tx /\ TxOK(r) /\ tx[r].todo \in Seq(StatementOf)
        /\ GroupFits(r) /\ HoldsFit(r) /\ InsertsRefer(r) /\ DropsCovered(r) /\ NameFree(r)
        /\ Head(tx[r].todo) = tx[r].todo[1] /\ Current(r) = tx[r].todo[1]
        /\ Current(r).do \in MayDo(req[r]) /\ req[r].kind \in Writers \cup Droppers
    BY <1>1, Executing
  <2>2. tx' = [tx EXCEPT ![r] = n] /\ n \in Tx /\ UNCHANGED <<tables, req, phase, answer>>
    BY <1>1, <1>3, <2>1, TailOf DEF Proceed, Tx
  <2>3. /\ n.lock = IF tx[r].lock = "none" THEN "keyShare" ELSE tx[r].lock
        /\ n.todo = Tail(tx[r].todo)
        /\ n.group = tx[r].group /\ n.scanning = tx[r].scanning /\ n.targets = tx[r].targets
        /\ n.ins = tx[r].ins /\ n.del = tx[r].del /\ n.refs = tx[r].refs
        /\ n.drops = tx[r].drops /\ n.row = tx[r].row
    BY <2>1 DEF Tx
  <2> HIDE DEF n
  <2>4. Continues(req[r], tx[r].todo, n.todo, -1)
    BY <1>1, <2>1, <2>3, DoneContinues
  <2>5. /\ tx'[r] = n /\ req'[r] = req[r] /\ Running(r)' /\ phase'[r] = phase[r]
        /\ groups' = groups /\ issued' = issued /\ liveUsers' = liveUsers /\ members' = members
        /\ n.targets = {} /\ n.del \subseteq members
        /\ TodoFits(r)' /\ DropsCascade(r)'
        /\ \A p : Covered(r, p) => Covered(r, p)'
    BY <1>1, <2>2, <2>3, <2>4, StatementDone
  <2>6. req[r].kind \in Writers /\ n.lock # "none"
    BY <1>1, <2>1, <2>3 DEF MayDo, Writers, Droppers
  <2>7. GroupFits(r)'
    BY <1>1, <2>1, <2>3, <2>5 DEF GroupFits
  <2>8. HoldsFit(r)'
    BY <1>1, <1>3, <2>1, <2>3, <2>5, <2>6 DEF HoldsFit, Exists, Writers, Droppers
  <2>9. InsertsRefer(r)'
    <3> SUFFICES ASSUME NEW p \in tx[r].ins, p[2] \notin tx[r].refs
                 PROVE  Referring(n, p[2])
      BY <2>3, <2>5, <2>6 DEF InsertsRefer
    <3>1. Referring(tx[r], p[2])
      BY <2>1 DEF InsertsRefer
    <3>2. /\ Len(tx[r].todo) > 1
          /\ tx[r].todo[2].do = "referUser" /\ tx[r].todo[2].user = p[2]
      BY <1>1, <2>1, <3>1 DEF Referring
    <3>3. Tail(tx[r].todo) # <<>> /\ Head(Tail(tx[r].todo)) = tx[r].todo[2]
      BY <2>1, <3>2, SecondOf
    <3> QED
      BY <2>3, <3>2, <3>3 DEF Referring
  <2>10. DropsCovered(r)'
    BY <2>1, <2>3, <2>5 DEF DropsCovered
  <2>11. Claimed(r)' => Claimed(r)
    BY <1>1, <2>3, <2>5 DEF Claimed, Doing
  <2>12. NameFree(r)'
    BY <2>1, <2>3, <2>5, <2>11 DEF NameFree, Exists
  <2>13. ASSUME NEW s \in Requests \ {r} PROVE Apart(r, s)' /\ Apart(s, r)'
    <3>1. /\ tx'[s] = tx[s] /\ req'[s] = req[s] /\ Running(s)' = Running(s)
          /\ Claimed(s)' = Claimed(s) /\ Apart(r, s) /\ Apart(s, r) /\ TxOK(s)
      BY <2>2, OthersHold
    <3>2. tx[r].group \notin tx[s].drops
      <4>1. CASE Running(s)
        <5>1. ~LocksGroup(s, tx[r].group, {"key"})
          BY <1>1, <4>1 DEF Blocked, WaitsFor, Others
        <5> QED
          BY <5>1 DEF LocksGroup
      <4> QED
        BY <3>1, <4>1 DEF TxOK
    <3>3. n.lock \in {"noKey", "key"} => tx[r].lock \in {"noKey", "key"}
      BY <2>3
    <3>4. Apart(r, s)'
      BY <1>1, <2>3, <2>5, <2>11, <3>1, <3>2, <3>3 DEF Apart
    <3>5. Apart(s, r)'
      BY <2>3, <2>5, <2>11, <3>1, <3>3 DEF Apart
    <3> QED
      BY <3>4, <3>5
  <2>14. n.ins \subseteq {n.group} \X MemberIds
    BY <2>1, <2>3 DEF TxOK
  <2> QED
    BY <1>1, <2>2, <2>5, <2>7, <2>8, <2>9, <2>10, <2>12, <2>13, <2>14, Stepped
<1> QED
  BY <1>2, <1>3 DEF ReferGroup

(* So is the user. *)
LEMMA ReferUserKeeps ==
  ASSUME IInv, NEW r \in Requests, ReferUser(r)
  PROVE  IInv'
<1> DEFINE u == Current(r).user
<1>1. /\ Running(r) /\ tx[r].todo # <<>> /\ Current(r).do = "referUser" /\ ~Blocked(r)
      /\ UNCHANGED tables
  BY DEF ReferUser, Doing, RollBack, Proceed
<1>2. CASE RollBack(r, "P2003")
  BY <1>1, <1>2, FailureTyped, Answered DEF RollBack, Running
<1>3. CASE u \in liveUsers /\ Proceed(r, [tx[r] EXCEPT !.refs = @ \cup {u}])
  <2> DEFINE n == [tx[r] EXCEPT !.refs = @ \cup {u}, !.todo = Tail(tx[r].todo)]
  <2>1. /\ tx[r] \in Tx /\ TxOK(r) /\ tx[r].todo \in Seq(StatementOf) /\ TablesOK
        /\ GroupFits(r) /\ HoldsFit(r) /\ InsertsRefer(r) /\ DropsCovered(r) /\ NameFree(r)
        /\ Head(tx[r].todo) = tx[r].todo[1] /\ Current(r) = tx[r].todo[1]
        /\ Current(r).do \in MayDo(req[r]) /\ req[r].kind \in Writers \cup Droppers
    BY <1>1, Executing
  <2>2. tx' = [tx EXCEPT ![r] = n] /\ n \in Tx /\ UNCHANGED <<tables, req, phase, answer>>
    BY <1>1, <1>3, <2>1, TailOf DEF Proceed, Tx, TablesOK
  <2>3. /\ n.refs = tx[r].refs \cup {u} /\ n.todo = Tail(tx[r].todo)
        /\ n.lock = tx[r].lock
        /\ n.group = tx[r].group /\ n.scanning = tx[r].scanning /\ n.targets = tx[r].targets
        /\ n.ins = tx[r].ins /\ n.del = tx[r].del
        /\ n.drops = tx[r].drops /\ n.row = tx[r].row
    BY <2>1 DEF Tx
  <2> HIDE DEF n
  <2>4. Continues(req[r], tx[r].todo, n.todo, -1)
    BY <1>1, <2>1, <2>3, DoneContinues
  <2>5. /\ tx'[r] = n /\ req'[r] = req[r] /\ Running(r)' /\ phase'[r] = phase[r]
        /\ groups' = groups /\ issued' = issued /\ liveUsers' = liveUsers /\ members' = members
        /\ n.targets = {} /\ n.del \subseteq members
        /\ TodoFits(r)' /\ DropsCascade(r)'
        /\ \A p : Covered(r, p) => Covered(r, p)'
    BY <1>1, <2>2, <2>3, <2>4, StatementDone
  <2>6. req[r].kind \in Writers
    BY <1>1, <2>1 DEF MayDo, Writers, Droppers
  <2>7. GroupFits(r)'
    BY <1>1, <2>1, <2>3, <2>5 DEF GroupFits
  <2>8. HoldsFit(r)'
    BY <1>1, <1>3, <2>1, <2>3, <2>5, <2>6 DEF HoldsFit, Exists, Writers, Droppers
  <2>9. InsertsRefer(r)'
    BY <1>1, <2>1, <2>3, <2>5 DEF InsertsRefer, Referring, Doing
  <2>10. DropsCovered(r)'
    BY <2>1, <2>3, <2>5 DEF DropsCovered
  <2>11. Claimed(r)' => Claimed(r)
    BY <1>1, <2>3, <2>5 DEF Claimed, Doing
  <2>12. NameFree(r)'
    BY <2>1, <2>3, <2>5, <2>11 DEF NameFree, Exists
  <2>13. ASSUME NEW s \in Requests \ {r} PROVE Apart(r, s)' /\ Apart(s, r)'
    <3>1. /\ tx'[s] = tx[s] /\ req'[s] = req[s] /\ Running(s)' = Running(s)
          /\ Claimed(s)' = Claimed(s) /\ Apart(r, s) /\ Apart(s, r) /\ TxOK(s)
      BY <2>2, OthersHold
    <3>2. u \notin tx[s].drops
      <4>1. CASE Running(s)
        BY <1>1, <4>1 DEF Blocked, WaitsFor, Others
      <4> QED
        BY <3>1, <4>1 DEF TxOK
    <3> QED
      BY <1>1, <2>3, <2>5, <2>11, <3>1, <3>2 DEF Apart
  <2>14. n.ins \subseteq {n.group} \X MemberIds
    BY <2>1, <2>3 DEF TxOK
  <2> QED
    BY <1>1, <2>2, <2>5, <2>7, <2>8, <2>9, <2>10, <2>12, <2>13, <2>14, Stepped
<1> QED
  BY <1>2, <1>3 DEF ReferUser

(* A statement that does nothing. *)
LEMMA PassedOver ==
  ASSUME IInv, NEW r \in Requests, Running(r), tx[r].todo # <<>>,
         Current(r).do \in {"drop", "insert"}, Proceed(r, tx[r])
  PROVE  IInv'
<1> DEFINE n == [tx[r] EXCEPT !.todo = Tail(tx[r].todo)]
<1>1. /\ tx[r] \in Tx /\ TxOK(r) /\ tx[r].todo \in Seq(StatementOf) /\ DropsCovered(r)
  BY Executing
<1>2. tx' = [tx EXCEPT ![r] = n] /\ n \in Tx /\ UNCHANGED <<tables, req, phase, answer>>
  BY <1>1, TailOf DEF Proceed, Tx
<1>3. /\ Quiet(tx[r], n) /\ n.todo = Tail(tx[r].todo)
      /\ n.scanning = tx[r].scanning /\ n.targets = tx[r].targets
      /\ n.del = tx[r].del /\ n.ins = tx[r].ins /\ n.lock = tx[r].lock
      /\ n.refs = tx[r].refs /\ n.drops = tx[r].drops /\ n.row = tx[r].row
  BY <1>1 DEF Quiet, Tx
<1> HIDE DEF n
<1>4. Continues(req[r], tx[r].todo, n.todo, -1)
  BY <1>1, <1>3, DoneContinues
<1>5. /\ tx'[r] = n /\ members' = members /\ n.targets = {}
      /\ TodoFits(r)' /\ DropsCascade(r)'
      /\ \A p : Covered(r, p) => Covered(r, p)'
  BY <1>2, <1>3, <1>4, StatementDone
<1>6. InsertsRefer(r)'
  BY <1>3, <1>5, Referred DEF InsertsRefer
<1>7. DropsCovered(r)'
  BY <1>1, <1>3, <1>5 DEF DropsCovered
<1>8. Claimed(r)' => Claimed(r)
  BY <1>3, <1>5 DEF Claimed, Doing
<1> QED
  BY <1>2, <1>3, <1>5, <1>6, <1>7, <1>8, QuietStep

(* A group or a user is deleted. *)
LEMMA DropRowKeeps ==
  ASSUME IInv, NEW r \in Requests, DropRow(r)
  PROVE  IInv'
<1> DEFINE id == Current(r).id
<1>1. /\ Running(r) /\ tx[r].todo # <<>> /\ Current(r).do = "drop" /\ ~Blocked(r)
      /\ UNCHANGED tables
  BY DEF DropRow, Doing, RollBack, Proceed
<1>2. CASE RollBack(r, "P2025")
  BY <1>1, <1>2, FailureTyped, Answered DEF RollBack, Running
<1>3. CASE Proceed(r, tx[r])
  BY <1>1, <1>3, PassedOver
<1>4. CASE Proceed(r, [tx[r] EXCEPT !.drops = @ \cup {id}])
  <2> DEFINE n == [tx[r] EXCEPT !.drops = @ \cup {id}, !.todo = Tail(tx[r].todo)]
  <2>1. /\ tx[r] \in Tx /\ TxOK(r) /\ tx[r].todo \in Seq(StatementOf) /\ TablesOK
        /\ GroupFits(r) /\ HoldsFit(r) /\ NameFree(r)
        /\ DropsCascade(r) /\ DropsCovered(r)
        /\ Head(tx[r].todo) = tx[r].todo[1] /\ Current(r) = tx[r].todo[1]
        /\ Current(r) \in StatementOf
        /\ Current(r).do \in MayDo(req[r]) /\ req[r].kind \in Writers \cup Droppers
    BY <1>1, Executing
  <2>2. id \in GroupIds \cup UserIds
    BY <1>1, <2>1 DEF StatementOf
  <2>3. tx' = [tx EXCEPT ![r] = n] /\ n \in Tx /\ UNCHANGED <<tables, req, phase, answer>>
    BY <1>1, <1>4, <2>1, <2>2, TailOf DEF Proceed, Tx
  <2>4. /\ n.drops = tx[r].drops \cup {id} /\ n.todo = Tail(tx[r].todo)
        /\ n.lock = tx[r].lock
        /\ n.group = tx[r].group /\ n.scanning = tx[r].scanning /\ n.targets = tx[r].targets
        /\ n.ins = tx[r].ins /\ n.del = tx[r].del
        /\ n.refs = tx[r].refs /\ n.row = tx[r].row
    BY <2>1 DEF Tx
  <2> HIDE DEF n
  <2>5. Continues(req[r], tx[r].todo, n.todo, -1)
    BY <1>1, <2>1, <2>4, DoneContinues
  <2>6. /\ tx'[r] = n /\ req'[r] = req[r] /\ Running(r)' /\ phase'[r] = phase[r]
        /\ groups' = groups /\ issued' = issued /\ liveUsers' = liveUsers /\ members' = members
        /\ n.targets = {} /\ n.del \subseteq members
        /\ TodoFits(r)' /\ DropsCascade(r)'
        /\ \A p : Covered(r, p) => Covered(r, p)'
    BY <1>1, <2>3, <2>4, <2>5, StatementDone
  <2>7. req[r].kind \in Droppers /\ req[r].kind \notin Writers
    BY <1>1, <2>1 DEF MayDo, Writers, Droppers
  <2>8. GroupFits(r)'
    BY <1>1, <2>1, <2>4, <2>6 DEF GroupFits
  <2>9. HoldsFit(r)'
    BY <1>1, <2>1, <2>4, <2>6, <2>7 DEF HoldsFit, Exists, Writers, Droppers
  <2>10. InsertsRefer(r)'
    BY <1>1, <2>4, <2>6, Referred DEF InsertsRefer
  <2>11. DropsCovered(r)'
    <3> SUFFICES ASSUME NEW p \in members, p[1] \in n.drops \/ p[2] \in n.drops
                 PROVE  Covered(r, p)'
      BY <2>6 DEF DropsCovered
    <3>1. CASE p[1] \in tx[r].drops \/ p[2] \in tx[r].drops
      BY <2>1, <2>6, <3>1 DEF DropsCovered
    <3>2. CASE p[1] = id \/ p[2] = id
      <4>1. p \in Touching(id)
        BY <2>1, <3>2 DEF Touching, TablesOK
      <4>2. 1 \in DOMAIN tx[r].todo
        BY <1>1, <2>1, TailOf
      <4>3. PICK j \in DOMAIN tx[r].todo : /\ j > 1
                                           /\ tx[r].todo[j].do = "delete"
                                           /\ Touching(id) \subseteq tx[r].todo[j].pairs
        BY <1>1, <2>1, <4>2 DEF DropsCascade
      <4>4. Covered(r, p)
        BY <4>1, <4>3 DEF Covered
      <4> QED
        BY <2>6, <4>4
    <3> QED
      BY <2>4, <3>1, <3>2
  <2>12. Claimed(r)' => Claimed(r)
    BY <1>1, <2>4, <2>6 DEF Claimed, Doing
  <2>13. NameFree(r)'
    BY <2>1, <2>4, <2>6, <2>12 DEF NameFree, Exists
  <2>14. ASSUME NEW s \in Requests \ {r} PROVE Apart(r, s)' /\ Apart(s, r)'
    <3>1. /\ tx'[s] = tx[s] /\ req'[s] = req[s] /\ Running(s)' = Running(s)
          /\ Claimed(s)' = Claimed(s) /\ Apart(r, s) /\ Apart(s, r) /\ tx[s] \in Tx
          /\ PhaseFits(s)
      BY <2>3, OthersHold
    <3>2. /\ id \notin tx[s].refs
          /\ tx[s].lock # "none" => tx[s].group # id
      <4>1. CASE Running(s)
        <5>1. id \notin tx[s].refs /\ ~LocksGroup(s, id, {"keyShare", "noKey", "key"})
          BY <1>1, <4>1 DEF Blocked, WaitsFor, Others
        <5> QED
          BY <3>1, <5>1 DEF LocksGroup, Tx
      <4>2. CASE ~Running(s)
        BY <3>1, <4>2 DEF PhaseFits, Idle
      <4> QED
        BY <4>1, <4>2
    <3>3. Apart(r, s)'
      BY <1>1, <2>4, <2>6, <2>12, <3>1 DEF Apart
    <3>4. Apart(s, r)'
      BY <1>1, <2>4, <2>6, <2>12, <3>1, <3>2 DEF Apart
    <3> QED
      BY <3>3, <3>4
  <2>15. n.ins \subseteq {n.group} \X MemberIds
    BY <2>1, <2>4 DEF TxOK
  <2> QED
    BY <1>1, <2>3, <2>6, <2>8, <2>9, <2>10, <2>11, <2>13, <2>14, <2>15, Stepped
<1> QED
  BY <1>2, <1>3, <1>4 DEF DropRow

(* A membership is inserted. *)
LEMMA InsertMemberKeeps ==
  ASSUME IInv, NEW r \in Requests, InsertMember(r)
  PROVE  IInv'
<1> DEFINE u == Current(r).user
           p == <<tx[r].group, u>>
           e == Statement("referGroup")
           f == [do |-> "referUser", user |-> u]
<1>1. /\ Running(r) /\ tx[r].todo # <<>> /\ Current(r).do = "insert"
      /\ UNCHANGED tables
  BY DEF InsertMember, Doing, RollBack, Proceed
<1>2. CASE RollBack(r, "P2002")
  BY <1>1, <1>2, FailureTyped, Answered DEF RollBack, Running
<1>3. CASE Proceed(r, tx[r])
  BY <1>1, <1>3, PassedOver
<1>4. CASE /\ tx' = [tx EXCEPT ![r].ins = @ \cup {p}, ![r].todo = <<e, f>> \o Tail(@)]
           /\ UNCHANGED <<req, phase, answer>>
  <2> DEFINE n == [tx[r] EXCEPT !.ins = @ \cup {p}, !.todo = <<e, f>> \o Tail(tx[r].todo)]
  <2>1. /\ tx[r] \in Tx /\ TxOK(r) /\ tx[r].todo \in Seq(StatementOf) /\ TablesOK
        /\ GroupFits(r) /\ HoldsFit(r) /\ DropsCovered(r) /\ NameFree(r)
        /\ Head(tx[r].todo) = tx[r].todo[1] /\ Current(r) = tx[r].todo[1]
        /\ Current(r) \in StatementOf
        /\ Current(r).do \in MayDo(req[r]) /\ req[r].kind \in Writers \cup Droppers
        /\ req[r] \in Request
    BY <1>1, Executing
  <2>2. /\ req[r].kind \in Writers /\ req[r].kind \notin Droppers
        /\ {"referGroup", "referUser"} \subseteq MayDo(req[r])
    BY <1>1, <2>1 DEF MayDo, Writers, Droppers
  <2>3. /\ req[r].kind = "create" => tx[r].row # NoRow
        /\ tx[r].group \in GroupIds
    BY <1>1, <2>1, <2>2 DEF GroupFits, Writers, TablesOK
  <2>4. u \in MemberIds /\ p \in Memberships
    BY <1>1, <2>1, <2>3 DEF StatementOf, Memberships
  <2>5. e \in StatementOf /\ f \in StatementOf /\ e.do = "referGroup"
        /\ f.do = "referUser" /\ f.user = u
    BY <2>4, StatementTypes DEF Statement
  <2> HIDE DEF e, f, u
  <2>6. /\ Continues(req[r], tx[r].todo, <<e, f>> \o Tail(tx[r].todo), 1)
        /\ <<e, f>> \o Tail(tx[r].todo) \in Seq(StatementOf)
        /\ Len(<<e, f>> \o Tail(tx[r].todo)) > 1
        /\ (<<e, f>> \o Tail(tx[r].todo))[1] = e
        /\ (<<e, f>> \o Tail(tx[r].todo))[2] = f
        /\ Head(<<e, f>> \o Tail(tx[r].todo)) = e
        /\ <<e, f>> \o Tail(tx[r].todo) # <<>>
    <3>1. Continues(req[r], tx[r].todo, <<e, f>> \o Tail(tx[r].todo), 1)
      BY <1>1, <2>1, <2>2, <2>5, ReplacedByTwoContinues
    <3>2. Len(tx[r].todo) \in Nat \ {0}
      BY <1>1, <2>1, TailOf
    <3> DEFINE new == <<e, f>> \o Tail(tx[r].todo)
    <3>3. /\ new \in Seq(StatementOf) /\ Len(new) = Len(tx[r].todo) + 1 /\ Head(new) = e
          /\ \A i \in 1..Len(tx[r].todo) + 1 :
               new[i] = IF i = 1 THEN e ELSE IF i = 2 THEN f ELSE tx[r].todo[i - 1]
      BY <1>1, <2>1, <2>5, HeadReplacedByTwo
    <3> HIDE DEF new
    <3>4. Len(new) > 1 /\ new[1] = e /\ new[2] = f
      BY <3>2, <3>3
    <3>5. new # <<>>
      BY <3>4, <3>3
    <3> QED
      BY <3>1, <3>3, <3>4, <3>5 DEF new
  <2>7. tx' = [tx EXCEPT ![r] = n] /\ n \in Tx /\ UNCHANGED <<tables, req, phase, answer>>
    BY <1>1, <1>4, <2>1, <2>4, <2>6 DEF Tx
  <2>8. /\ n.ins = tx[r].ins \cup {p} /\ n.todo = <<e, f>> \o Tail(tx[r].todo)
        /\ n.lock = tx[r].lock
        /\ n.group = tx[r].group /\ n.scanning = tx[r].scanning /\ n.targets = tx[r].targets
        /\ n.drops = tx[r].drops /\ n.del = tx[r].del
        /\ n.refs = tx[r].refs /\ n.row = tx[r].row
    BY <2>1 DEF Tx
  <2>9. p[2] = u
    OBVIOUS
  <2> HIDE DEF n
  <2>10. /\ tx'[r] = n /\ req'[r] = req[r] /\ Running(r)' /\ phase'[r] = phase[r]
         /\ groups' = groups /\ issued' = issued /\ liveUsers' = liveUsers /\ members' = members
         /\ n.targets = {} /\ n.del \subseteq members
         /\ TodoFits(r)' /\ DropsCascade(r)'
         /\ \A q : Covered(r, q) => Covered(r, q)'
    <3>1. Continues(req[r], tx[r].todo, n.todo, 1)
      BY <2>6, <2>8
    <3> QED
      BY <1>1, <2>7, <2>8, <3>1, StatementDone
  <2>11. GroupFits(r)'
    BY <1>1, <2>1, <2>2, <2>3, <2>8, <2>10 DEF GroupFits, Droppers
  <2>12. HoldsFit(r)'
    BY <1>1, <2>1, <2>2, <2>8, <2>10 DEF HoldsFit, Exists
  <2>13. InsertsRefer(r)'
    <3>1. \A q \in tx[r].ins : q[2] \in tx[r].refs
      BY <1>1, Referred
    <3>2. Doing(r, "referGroup")'
      BY <2>5, <2>6, <2>8, <2>10 DEF Doing, Current
    <3>3. Referring(tx'[r], u)
      BY <2>5, <2>6, <2>8, <2>10 DEF Referring
    <3> QED
      BY <2>8, <2>9, <2>10, <3>1, <3>2, <3>3 DEF InsertsRefer
  <2>14. DropsCovered(r)'
    BY <2>1, <2>8, <2>10 DEF DropsCovered
  <2>15. Claimed(r)' => Claimed(r)
    BY <1>1, <2>8, <2>10 DEF Claimed, Doing
  <2>16. NameFree(r)'
    BY <2>1, <2>8, <2>10, <2>15 DEF NameFree, Exists
  <2>17. ASSUME NEW s \in Requests \ {r} PROVE Apart(r, s)' /\ Apart(s, r)'
    <3>1. /\ tx'[s] = tx[s] /\ req'[s] = req[s] /\ Running(s)' = Running(s)
          /\ Claimed(s)' = Claimed(s) /\ Apart(r, s) /\ Apart(s, r)
      BY <2>7, OthersHold
    <3> QED
      BY <1>1, <2>8, <2>10, <2>15, <3>1 DEF Apart
  <2>18. n.ins \subseteq {n.group} \X MemberIds
    BY <2>1, <2>4, <2>8 DEF TxOK
  <2> QED
    BY <1>1, <2>7, <2>10, <2>11, <2>12, <2>13, <2>14, <2>16, <2>17, <2>18, Stepped
<1> QED
  BY <1>2, <1>3, <1>4 DEF InsertMember, References

(* A name that no group and no other transaction has is claimed.           *)
LEMMA ClaimNameKeeps ==
  ASSUME IInv, NEW r \in Requests, ClaimName(r)
  PROVE  IInv'
<1>1. /\ Running(r) /\ tx[r].todo # <<>> /\ Current(r).do = "claimName" /\ ~Blocked(r)
      /\ UNCHANGED tables
  BY DEF ClaimName, Doing, RollBack, Proceed
<1>2. CASE RollBack(r, "P2002")
  BY <1>1, <1>2, FailureTyped, Answered DEF RollBack, Running
<1>3. CASE ~NameTaken(tx[r].row.displayName, tx[r].group) /\ Proceed(r, tx[r])
  <2> DEFINE n == [tx[r] EXCEPT !.todo = Tail(tx[r].todo)]
  <2>1. /\ tx[r] \in Tx /\ TxOK(r) /\ tx[r].todo \in Seq(StatementOf)
        /\ GroupFits(r) /\ HoldsFit(r) /\ DropsCovered(r)
        /\ Head(tx[r].todo) = tx[r].todo[1] /\ Current(r) = tx[r].todo[1]
        /\ Current(r).do \in MayDo(req[r])
    BY <1>1, Executing
  <2>2. tx' = [tx EXCEPT ![r] = n] /\ n \in Tx /\ UNCHANGED <<tables, req, phase, answer>>
    BY <1>1, <1>3, <2>1, TailOf DEF Proceed, Tx
  <2>3. /\ n.todo = Tail(tx[r].todo) /\ n.lock = tx[r].lock
        /\ n.group = tx[r].group /\ n.scanning = tx[r].scanning /\ n.targets = tx[r].targets
        /\ n.drops = tx[r].drops /\ n.del = tx[r].del /\ n.ins = tx[r].ins
        /\ n.refs = tx[r].refs /\ n.row = tx[r].row
    BY <2>1 DEF Tx
  <2> HIDE DEF n
  <2>4. Continues(req[r], tx[r].todo, n.todo, -1)
    BY <1>1, <2>1, <2>3, DoneContinues
  <2>5. /\ tx'[r] = n /\ req'[r] = req[r] /\ Running(r)' /\ phase'[r] = phase[r]
        /\ groups' = groups /\ issued' = issued /\ liveUsers' = liveUsers /\ members' = members
        /\ n.targets = {} /\ n.del \subseteq members
        /\ TodoFits(r)' /\ DropsCascade(r)'
        /\ \A q : Covered(r, q) => Covered(r, q)'
    BY <1>1, <2>2, <2>3, <2>4, StatementDone
  <2>6. GroupFits(r)'
    BY <1>1, <2>1, <2>3, <2>5 DEF GroupFits
  <2>7. HoldsFit(r)'
    BY <1>1, <2>1, <2>3, <2>5 DEF HoldsFit, Exists
  <2>8. InsertsRefer(r)'
    BY <1>1, <2>3, <2>5, Referred DEF InsertsRefer
  <2>9. DropsCovered(r)'
    BY <2>1, <2>3, <2>5 DEF DropsCovered
  <2>10. NameFree(r)'
    BY <1>3, <2>3, <2>5 DEF NameFree, NameTaken, Exists
  <2>11. ASSUME NEW s \in Requests \ {r} PROVE Apart(r, s)' /\ Apart(s, r)'
    <3>1. /\ tx'[s] = tx[s] /\ req'[s] = req[s] /\ Running(s)' = Running(s)
          /\ Claimed(s)' = Claimed(s) /\ Apart(r, s) /\ Apart(s, r)
      BY <2>2, OthersHold
    <3>2. Claimed(s) => tx[s].row.displayName # tx[r].row.displayName
      BY <1>1 DEF Claimed, Blocked, WaitsFor, Others, ChangesName
    <3> QED
      BY <1>1, <2>3, <2>5, <3>1, <3>2 DEF Apart
  <2>12. n.ins \subseteq {n.group} \X MemberIds
    BY <2>1, <2>3 DEF TxOK
  <2> QED
    BY <1>1, <2>2, <2>5, <2>6, <2>7, <2>8, <2>9, <2>10, <2>11, <2>12, Stepped
<1> QED
  BY <1>2, <1>3 DEF ClaimName

(* The row of a group is written: its name waits for its place in the      *)
(* index, or is the one the group has.                                     *)
NewRow(r, n) ==
  /\ n.row \in GroupRow /\ n.lock \in {"noKey", "key"}
  /\ n.group = tx[r].group /\ n.ins = tx[r].ins /\ n.refs = tx[r].refs /\ n.drops = tx[r].drops
  /\ \/ n.todo # <<>> /\ Head(n.todo).do = "claimName"
     \/ n.row.displayName = groups[n.group].displayName

LEMMA RowWritten ==
  ASSUME IInv, NEW r \in Requests, Running(r), tx[r].todo # <<>>, Current(r).do = "update",
         ~Blocked(r), Exists(tx[r].group), UNCHANGED <<tables, req, phase, answer>>,
         NEW n \in Tx, tx' = [tx EXCEPT ![r] = n],
         n.targets = tx[r].targets, n.del = tx[r].del,
         TodoFits(r)', DropsCascade(r)', \A p : Covered(r, p) => Covered(r, p)', NewRow(r, n)
  PROVE  IInv'
<1>1. /\ tx[r] \in Tx /\ TxOK(r) /\ TablesOK /\ GroupFits(r) /\ HoldsFit(r) /\ DropsCovered(r)
      /\ Current(r).do \in MayDo(req[r]) /\ req[r].kind \in Writers \cup Droppers
  BY Executing
<1>2. /\ tx'[r] = n /\ req'[r] = req[r] /\ Running(r)' /\ phase'[r] = phase[r]
      /\ groups' = groups /\ issued' = issued /\ liveUsers' = liveUsers /\ members' = members
  BY SlotsAreFunctions DEF Running, tables
<1> /\ n.row \in GroupRow /\ n.lock \in {"noKey", "key"}
    /\ n.group = tx[r].group /\ n.ins = tx[r].ins /\ n.refs = tx[r].refs /\ n.drops = tx[r].drops
    /\ \/ n.todo # <<>> /\ Head(n.todo).do = "claimName"
       \/ n.row.displayName = groups[n.group].displayName
  BY DEF NewRow
<1>3. /\ req[r].kind \in {"replace", "patch"} /\ req[r].kind \in Writers
      /\ req[r].kind \notin Droppers /\ req[r].kind # "create"
  BY <1>1 DEF MayDo, Writers, Droppers
<1>4. tx[r].group \in issued /\ tx[r].group \in GroupIds
  BY <1>1, <1>3 DEF GroupFits, TablesOK
<1>5. GroupFits(r)'
  BY <1>1, <1>2, <1>3 DEF GroupFits
<1>6. HoldsFit(r)'
  BY <1>1, <1>2, <1>3 DEF HoldsFit, Exists
<1>7. InsertsRefer(r)'
  BY <1>2, Referred DEF InsertsRefer
<1>8. DropsCovered(r)'
  BY <1>1, <1>2 DEF DropsCovered
<1>9. Claimed(r)' => n.row.displayName = groups[tx[r].group].displayName
  BY <1>2 DEF Claimed, Doing, Current
<1>10. NameFree(r)'
  BY <1>2, <1>4, <1>9 DEF NameFree, IInv, UniqueDisplayNames, Exists
<1>11. ASSUME NEW s \in Requests \ {r} PROVE Apart(r, s)' /\ Apart(s, r)'
  <2>1. /\ tx'[s] = tx[s] /\ req'[s] = req[s] /\ Running(s)' = Running(s)
        /\ Claimed(s)' = Claimed(s) /\ Apart(r, s) /\ Apart(s, r) /\ tx[s] \in Tx
        /\ GroupFits(s) /\ HoldsFit(s) /\ NameFree(s) /\ TxOK(s) /\ PhaseFits(s)
    BY OthersHold
  <2>2. /\ tx[s].lock \in {"noKey", "key"} => tx[s].group # tx[r].group
        /\ tx[r].group \notin tx[s].drops
    <3>1. CASE Running(s)
      <4>1. ~LocksGroup(s, tx[r].group, {"noKey", "key"})
        BY <3>1 DEF Blocked, WaitsFor, Others
      <4> QED
        BY <4>1 DEF LocksGroup
    <3>2. CASE ~Running(s)
      BY <2>1, <3>2 DEF TxOK
    <3> QED
      BY <3>1, <3>2
  <2>3. Claimed(s) => tx[s].row.displayName # groups[tx[r].group].displayName
    <3> SUFFICES ASSUME Claimed(s)
                 PROVE  tx[s].row.displayName # groups[tx[r].group].displayName
      OBVIOUS
    <3>1. Running(s) /\ tx[s].row # NoRow /\ req[s].kind \in Writers
      BY <2>1 DEF Claimed, PhaseFits, HoldsFit
    <3>2. tx[s].group # tx[r].group
      <4>1. CASE req[s].kind = "create"
        BY <1>4, <2>1, <3>1, <4>1 DEF GroupFits
      <4>2. CASE req[s].kind # "create"
        BY <2>1, <2>2, <3>1, <4>2 DEF HoldsFit, Writers
      <4> QED
        BY <4>1, <4>2
    <3> QED
      BY <1>4, <2>1, <3>2 DEF NameFree
  <2>4. Apart(r, s)'
    BY <1>2, <1>3, <1>9, <2>1, <2>2, <2>3 DEF Apart
  <2>5. Apart(s, r)'
    BY <1>2, <1>3, <1>9, <2>1, <2>2, <2>3 DEF Apart
  <2> QED
    BY <2>4, <2>5
<1>12. /\ n.ins \subseteq {n.group} \X MemberIds /\ n.del \subseteq members
       /\ n.targets \subseteq members \cup n.ins
  BY <1>1 DEF TxOK
<1> QED
  BY <1>2, <1>5, <1>6, <1>7, <1>8, <1>10, <1>11, <1>12, Stepped

LEMMA UpdateGroupKeeps ==
  ASSUME IInv, NEW r \in Requests, UpdateGroup(r)
  PROVE  IInv'
<1> DEFINE g == tx[r].group
           c == Current(r)
           new == [displayName |-> Written(c.displayName, groups[g].displayName),
                   externalId  |-> Written(c.externalId, groups[g].externalId)]
           e == Statement("claimName")
<1>1. /\ Running(r) /\ tx[r].todo # <<>> /\ c.do = "update" /\ ~Blocked(r)
  BY DEF UpdateGroup, Doing
<1>2. CASE RollBack(r, "P2025")
  BY <1>1, <1>2, FailureTyped, Answered DEF RollBack, Running
<1>3. ASSUME Exists(g)
      PROVE  /\ g \in GroupIds /\ new \in GroupRow
             /\ ~Renames(r, c.displayName) => new.displayName = groups[g].displayName
  <2>1. /\ GroupFits(r) /\ TablesOK /\ c \in StatementOf /\ c.do \in MayDo(req[r])
        /\ req[r].kind \in Writers \cup Droppers
    BY <1>1, Executing
  <2>2. req[r].kind \in {"replace", "patch"}
    BY <1>1, <2>1 DEF MayDo, Writers, Droppers
  <2>3. g \in GroupIds /\ groups[g] \in GroupRow
    BY <1>1, <1>3, <2>1, <2>2 DEF GroupFits, TablesOK, Exists
  <2>4. /\ c.displayName \in STRING \cup {Undefined}
        /\ c.externalId \in STRING \cup {Undefined, Null}
    BY <1>1, <2>1 DEF StatementOf
  <2> QED
    BY <2>3, <2>4 DEF GroupRow, Written, Renames
<1>4. CASE /\ Exists(g)
           /\ tx' = [tx EXCEPT ![r].row = new, ![r].lock = "key", ![r].todo = <<e>> \o Tail(@)]
           /\ UNCHANGED <<tables, req, phase, answer>>
  <2> DEFINE t == <<e>> \o Tail(tx[r].todo)
             n == [tx[r] EXCEPT !.row = new, !.lock = "key", !.todo = t]
  <2>1. /\ tx[r] \in Tx /\ tx[r].todo \in Seq(StatementOf) /\ c.do \in MayDo(req[r])
        /\ req[r].kind \in Writers \cup Droppers
    BY <1>1, Executing
  <2>2. e \in StatementOf /\ e.do = "claimName" /\ "claimName" \in MayDo(req[r])
    BY <1>1, <2>1, StatementTypes DEF Statement, MayDo, Writers, Droppers
  <2>3. Continues(req[r], tx[r].todo, t, 0)
    BY <1>1, <2>1, <2>2, ReplacedContinues
  <2>4. t \in Seq(StatementOf) /\ t # <<>> /\ Head(t) = e
    <3>1. /\ t \in Seq(StatementOf) /\ Len(t) = Len(tx[r].todo) /\ Head(t) = e
      BY <1>1, <2>1, <2>2, HeadReplaced
    <3>2. Len(tx[r].todo) # 0
      BY <1>1, <2>1
    <3> HIDE DEF t
    <3> QED
      BY <3>1, <3>2
  <2>5. new \in GroupRow
    BY <1>3, <1>4
  <2> HIDE DEF t, new, e
  <2>6. tx' = [tx EXCEPT ![r] = n] /\ n \in Tx
    BY <1>4, <2>1, <2>4, <2>5 DEF Tx, t
  <2>7. /\ n.row = new /\ n.lock = "key" /\ n.todo = t
        /\ n.group = tx[r].group /\ n.scanning = tx[r].scanning /\ n.targets = tx[r].targets
        /\ n.ins = tx[r].ins /\ n.del = tx[r].del /\ n.refs = tx[r].refs
        /\ n.drops = tx[r].drops
    BY <2>1 DEF Tx
  <2> HIDE DEF n
  <2> QED
    <3>1. Continues(req[r], tx[r].todo, n.todo, 0)
      BY <2>3, <2>7
    <3>2. TodoFits(r)' /\ DropsCascade(r)' /\ \A p : Covered(r, p) => Covered(r, p)'
      BY <1>1, <1>4, <2>6, <2>7, <3>1, StatementDone
    <3>3. NewRow(r, n)
      BY <2>2, <2>4, <2>5, <2>7 DEF NewRow
    <3> QED
      BY <1>1, <1>4, <2>6, <2>7, <3>2, <3>3, RowWritten
<1>5. CASE /\ Exists(g)
           /\ ~Renames(r, c.displayName)
           /\ Proceed(r, [tx[r] EXCEPT !.row = new, !.lock = "noKey"])
  <2> DEFINE n == [tx[r] EXCEPT !.row = new, !.lock = "noKey", !.todo = Tail(tx[r].todo)]
  <2>1. tx[r] \in Tx /\ tx[r].todo \in Seq(StatementOf)
    BY <1>1, Executing
  <2>2. new \in GroupRow /\ new.displayName = groups[g].displayName
    BY <1>3, <1>5
  <2> HIDE DEF new
  <2>3. tx' = [tx EXCEPT ![r] = n] /\ n \in Tx /\ UNCHANGED <<tables, req, phase, answer>>
    BY <1>1, <1>5, <2>1, <2>2, TailOf DEF Proceed, Tx
  <2>4. /\ n.row = new /\ n.lock = "noKey" /\ n.todo = Tail(tx[r].todo)
        /\ n.group = tx[r].group /\ n.scanning = tx[r].scanning /\ n.targets = tx[r].targets
        /\ n.ins = tx[r].ins /\ n.del = tx[r].del /\ n.refs = tx[r].refs
        /\ n.drops = tx[r].drops
    BY <2>1 DEF Tx
  <2> HIDE DEF n
  <2>5. Continues(req[r], tx[r].todo, n.todo, -1)
    BY <1>1, <2>1, <2>4, DoneContinues
  <2> QED
    <3>1. TodoFits(r)' /\ DropsCascade(r)' /\ \A p : Covered(r, p) => Covered(r, p)'
      BY <1>1, <2>3, <2>4, <2>5, StatementDone
    <3>2. NewRow(r, n)
      BY <2>2, <2>4 DEF NewRow
    <3> QED
      BY <1>1, <1>5, <2>3, <2>4, <3>1, <3>2, RowWritten
<1> QED
  BY <1>2, <1>4, <1>5 DEF UpdateGroup

(* A new group gets an id that no one knows, and a name that no one has.   *)
LEMMA InsertGroupKeeps ==
  ASSUME IInv, NEW r \in Requests, InsertGroup(r)
  PROVE  IInv'
<1> DEFINE dto == req[r].dto
           new == [displayName |-> dto.displayName, externalId |-> Written(dto.externalId, Null)]
<1>1. /\ Running(r) /\ tx[r].todo # <<>> /\ Current(r).do = "insertGroup" /\ ~Blocked(r)
  BY DEF InsertGroup, Doing
<1>2. CASE RollBack(r, "P2002")
  BY <1>1, <1>2, FailureTyped, Answered DEF RollBack, Running
<1>3. CASE /\ ~NameTaken(dto.displayName, Absent)
           /\ \E g \in FreshIds : Proceed(r, [tx[r] EXCEPT !.group = g, !.row = new])
  <2>1. /\ tx[r] \in Tx /\ TxOK(r) /\ tx[r].todo \in Seq(StatementOf) /\ TablesOK
        /\ GroupFits(r) /\ HoldsFit(r) /\ DropsCovered(r) /\ TodoFits(r)
        /\ Current(r) = tx[r].todo[1] /\ Current(r).do \in MayDo(req[r])
        /\ req[r] \in Request /\ req[r].kind \in Writers \cup Droppers
    BY <1>1, Executing
  <2>2. /\ req[r].kind = "create" /\ req[r].kind \in Writers /\ req[r].kind \notin Droppers
        /\ req[r].kind \notin {"replace", "patch", "remove"}
    BY <1>1, <2>1 DEF MayDo, Writers, Droppers
  <2>3. tx[r].row = NoRow
    <3>1. 1 \in DOMAIN tx[r].todo
      BY <1>1, <2>1, TailOf
    <3> QED
      BY <1>1, <2>1, <3>1 DEF TodoFits
  <2>4. tx[r].ins = {} /\ tx[r].lock = "none"
    BY <1>1, <2>1, <2>2, <2>3 DEF GroupFits
  <2>5. new \in GroupRow /\ new.displayName = dto.displayName
    <3>1. dto \in GroupDto
      BY <2>1, <2>2, GroupDtosAssumption DEF Request
    <3> QED
      BY <3>1 DEF GroupDto, GroupRow, Written
  <2> HIDE DEF new, dto
  <2>6. PICK g \in FreshIds : Proceed(r, [tx[r] EXCEPT !.group = g, !.row = new])
    BY <1>3
  <2>7. g \in GroupIds \ issued /\ \A s \in Requests : g # tx[s].group
    BY DEF FreshIds
  <2> DEFINE n == [tx[r] EXCEPT !.group = g, !.row = new, !.todo = Tail(tx[r].todo)]
  <2>8. tx' = [tx EXCEPT ![r] = n] /\ n \in Tx /\ UNCHANGED <<tables, req, phase, answer>>
    BY <1>1, <2>1, <2>5, <2>6, <2>7, TailOf DEF Proceed, Tx
  <2>9. /\ n.row = new /\ n.group = g /\ n.todo = Tail(tx[r].todo)
        /\ n.lock = tx[r].lock /\ n.scanning = tx[r].scanning /\ n.targets = tx[r].targets
        /\ n.ins = tx[r].ins /\ n.del = tx[r].del /\ n.refs = tx[r].refs
        /\ n.drops = tx[r].drops
    BY <2>1 DEF Tx
  <2> HIDE DEF n
  <2>10. Continues(req[r], tx[r].todo, n.todo, -1)
    BY <1>1, <2>1, <2>9, DoneContinues
  <2>11. /\ tx'[r] = n /\ req'[r] = req[r] /\ Running(r)' /\ phase'[r] = phase[r]
         /\ groups' = groups /\ issued' = issued /\ liveUsers' = liveUsers /\ members' = members
         /\ n.targets = {} /\ n.del \subseteq members
         /\ DropsCascade(r)' /\ TodoFits(r)'
         /\ \A p : Covered(r, p) => Covered(r, p)'
    BY <1>1, <2>8, <2>9, <2>10, StatementDone
  <2>12. n.row # NoRow
    BY <2>5, <2>9, SentinelsAssumption
  <2>13. GroupFits(r)'
    BY <2>2, <2>7, <2>9, <2>11, <2>12 DEF GroupFits
  <2>14. HoldsFit(r)'
    BY <1>1, <2>1, <2>2, <2>9, <2>11 DEF HoldsFit
  <2>15. InsertsRefer(r)'
    BY <2>4, <2>9, <2>11 DEF InsertsRefer
  <2>16. DropsCovered(r)'
    BY <2>1, <2>9, <2>11 DEF DropsCovered
  <2>17. NameFree(r)'
    BY <1>3, <2>5, <2>9, <2>11, SentinelsAssumption DEF NameFree, NameTaken, Exists
  <2>18. ASSUME NEW s \in Requests \ {r} PROVE Apart(r, s)' /\ Apart(s, r)'
    <3>1. /\ tx'[s] = tx[s] /\ req'[s] = req[s] /\ Running(s)' = Running(s)
          /\ Claimed(s)' = Claimed(s) /\ Apart(r, s) /\ Apart(s, r)
      BY <2>8, OthersHold
    <3>2. Claimed(s) => tx[s].row.displayName # dto.displayName
      BY <1>1 DEF Claimed, Blocked, WaitsFor, Others, ChangesName, dto
    <3>3. tx[r].drops = {}
      BY <1>1, <2>1, <2>2 DEF HoldsFit
    <3>4. Apart(r, s)'
      BY <2>4, <2>5, <2>7, <2>9, <2>11, <3>1, <3>2, <3>3 DEF Apart
    <3>5. Apart(s, r)'
      BY <2>4, <2>5, <2>7, <2>9, <2>11, <3>1, <3>2, <3>3 DEF Apart
    <3> QED
      BY <3>4, <3>5
  <2>19. n.ins \subseteq {n.group} \X MemberIds /\ n.targets \subseteq members \cup n.ins
    BY <2>4, <2>9, <2>11
  <2> QED
    BY <1>1, <2>8, <2>11, <2>13, <2>14, <2>15, <2>16, <2>17, <2>18, <2>19, Stepped
<1> QED
  BY <1>2, <1>3 DEF InsertGroup

-------------------------------------------------------------------------------
(* The ends of transactions and requests. *)

LEMMA DeadlockKeeps ==
  ASSUME IInv, NEW r \in Requests, Deadlock(r)
  PROVE  IInv'
<1>1. PICK C \in SUBSET Requests : r \in C /\ \A a \in C : WaitsFor(a) \cap C # {}
  BY DEF Deadlock, InDeadlock
<1>2. Running(r)
  BY <1>1 DEF WaitsFor
<1>3. phase[r] # "idle" /\ Answer(r, Failure("P2034")) /\ UNCHANGED tables
  BY <1>2 DEF Running, Deadlock, RollBack
<1> QED
  BY <1>3, FailureTyped, Answered

LEMMA RespondKeeps ==
  ASSUME IInv, NEW r \in Requests, Respond(r)
  PROVE  IInv'
<1>1. SlotTyped(r) /\ PhaseFits(r)
  BY SlotsAreFunctions DEF Fits
<1>2. OnlySlot(r)
  BY SlotsAreFunctions DEF Respond, OnlySlot
<1>3. /\ phase[r] = "answered" /\ phase'[r] = "idle" /\ req'[r] = NoRequest
      /\ answer'[r] = NoAnswer /\ tx'[r] = tx[r] /\ UNCHANGED tables
  BY SlotsAreFunctions DEF Respond
<1>4. SlotTyped(r)'
  BY <1>1, <1>3 DEF SlotTyped, SlotOK, TxOK, Phases, Running, tables
<1>5. Idle(tx'[r]) /\ PhaseFits(r)'
  BY <1>1, <1>3 DEF PhaseFits, Running
<1> QED
  BY <1>2, <1>3, <1>4, <1>5, Outside DEF Running

(* A crash, or the start: no request is in progress.                       *)
AllIdle ==
  /\ TablesOK /\ NoDanglingMembers /\ UniqueDisplayNames
  /\ req    = [r \in Requests |-> NoRequest]
  /\ phase  = [r \in Requests |-> "idle"]
  /\ answer = [r \in Requests |-> NoAnswer]
  /\ tx     = [r \in Requests |-> NoTx]

LEMMA NothingInProgress == AllIdle => IInv
<1> SUFFICES ASSUME AllIdle PROVE IInv
  OBVIOUS
<1> USE DEF AllIdle
<1> /\ NoTx.group = Absent /\ NoTx.todo = <<>> /\ ~NoTx.scanning /\ NoTx.targets = {}
    /\ NoTx.ins = {} /\ NoTx.del = {} /\ NoTx.refs = {} /\ NoTx.lock = "none"
    /\ NoTx.drops = {} /\ NoTx.row = NoRow
  BY DEF NoTx
<1>1. \A r \in Requests : /\ req[r] = NoRequest /\ phase[r] = "idle" /\ answer[r] = NoAnswer
                          /\ tx[r] = NoTx /\ ~Running(r)
  BY DEF Running
<1>2. TypeOK
  <2>1. \A r \in Requests : SlotTyped(r)
    BY <1>1, NoTxTyped DEF SlotTyped, SlotOK, TxOK, Phases
  <2>2. /\ req \in [Requests -> Request \cup {NoRequest}]
        /\ phase \in [Requests -> Phases]
        /\ answer \in [Requests -> Answers \cup {NoAnswer}]
        /\ tx \in [Requests -> Tx]
    BY NoTxTyped DEF Phases
  <2> QED
    BY <2>1, <2>2 DEF TypeOK, TablesOK, SlotTyped
<1>3. ASSUME NEW r \in Requests PROVE Fits(r)
  <2>1. PhaseFits(r) /\ GroupFits(r)
    BY <1>1, NoTxTyped DEF PhaseFits, GroupFits
  <2>2. TodoFits(r) /\ HoldsFit(r) /\ InsertsRefer(r)
    BY <1>1 DEF TodoFits, HoldsFit, InsertsRefer
  <2>3. DropsCascade(r) /\ DropsCovered(r) /\ NameFree(r)
    BY <1>1 DEF DropsCascade, DropsCovered, NameFree, Claimed
  <2> QED
    BY <2>1, <2>2, <2>3 DEF Fits
<1>4. ASSUME NEW r \in Requests, NEW s \in Requests PROVE Apart(r, s)
  BY <1>1 DEF Apart, Claimed
<1> QED
  BY <1>2, <1>3, <1>4 DEF IInv

LEMMA InitKeeps == Init => IInv
<1>1. Init => AllIdle
  BY DEF Init, AllIdle, TablesOK, NoDanglingMembers, UniqueDisplayNames, Exists
<1> QED
  BY <1>1, NothingInProgress

LEMMA CrashKeeps == IInv /\ Crash => IInv'
<1>1. IInv /\ Crash => AllIdle'
  <2> SUFFICES ASSUME IInv, Crash PROVE AllIdle'
    OBVIOUS
  <2>1. /\ groups' = groups /\ issued' = issued /\ liveUsers' = liveUsers /\ members' = members
    BY DEF Crash, tables
  <2>2. TablesOK' /\ NoDanglingMembers' /\ UniqueDisplayNames'
    BY <2>1, TypesOfSlots DEF IInv, TablesOK, NoDanglingMembers, UniqueDisplayNames, Exists
  <2> QED
    BY <2>2 DEF Crash, AllIdle
<1> QED
  BY <1>1, NothingInProgress, PTL

(* What a commit writes. *)
Writes(r) ==
  /\ Running(r) /\ tx[r].todo = <<>>
  /\ members' = (members \ tx[r].del) \cup tx[r].ins
  /\ liveUsers' = liveUsers \ tx[r].drops
  /\ groups' = [g \in GroupIds |-> IF g \in tx[r].drops THEN Absent
                                   ELSE IF g = tx[r].group /\ tx[r].row # NoRow THEN tx[r].row
                                   ELSE groups[g]]
  /\ issued' = IF req[r].kind = "create" THEN issued \cup {tx[r].group} ELSE issued
  /\ UNCHANGED req

(* What is known of a transaction that has done its statements.            *)
LEMMA Committing ==
  ASSUME IInv, NEW r \in Requests, Running(r), tx[r].todo = <<>>
  PROVE  /\ TablesOK /\ tx[r] \in Tx /\ TxOK(r) /\ NameFree(r)
         /\ req[r] \in Request /\ req[r].kind \in Writers \cup Droppers
         /\ req[r].kind = "create" => tx[r].row # NoRow /\ tx[r].group \in GroupIds \ issued
         /\ req[r].kind \in {"replace", "patch", "remove"} => tx[r].group \in issued
         /\ req[r].kind \in Droppers => tx[r].row = NoRow /\ tx[r].ins = {}
         /\ req[r].kind \in Writers => tx[r].drops = {}
         /\ tx[r].targets = {}
         /\ tx[r].refs \subseteq liveUsers
         /\ \A p \in tx[r].ins : /\ p \in Memberships /\ p[1] = tx[r].group /\ p[2] \in tx[r].refs
                                 /\ tx[r].lock # "none"
                                 /\ req[r].kind # "create" => Exists(tx[r].group)
         /\ \A p \in members : p[1] \in tx[r].drops \/ p[2] \in tx[r].drops => p \in tx[r].del
         /\ Claimed(r) <=> tx[r].row # NoRow
<1>1. TablesOK /\ SlotTyped(r) /\ Fits(r)
  BY TypesOfSlots DEF IInv
<1>2. /\ tx[r] \in Tx /\ TxOK(r) /\ NameFree(r) /\ PhaseFits(r) /\ GroupFits(r) /\ TodoFits(r)
      /\ HoldsFit(r) /\ InsertsRefer(r) /\ DropsCovered(r)
  BY <1>1 DEF SlotTyped, Fits
<1>3. req[r] \in Request /\ req[r].kind \in Writers \cup Droppers
  BY <1>2, BusyRequest DEF Running, PhaseFits
<1>4. /\ req[r].kind = "create" => tx[r].row # NoRow /\ tx[r].group \in GroupIds \ issued
      /\ req[r].kind \in {"replace", "patch", "remove"} => tx[r].group \in issued
  BY <1>2 DEF GroupFits
<1>5. /\ req[r].kind \in Droppers => tx[r].row = NoRow /\ tx[r].ins = {}
      /\ req[r].kind \in Writers => tx[r].drops = {}
      /\ tx[r].refs \subseteq liveUsers
  BY <1>2 DEF HoldsFit
<1>6. ~Doing(r, "delete") /\ ~Doing(r, "referGroup") /\ ~Doing(r, "claimName")
  BY DEF Doing
<1>7. tx[r].targets = {}
  BY <1>2, <1>6 DEF TodoFits
<1>8. ASSUME NEW p \in tx[r].ins
      PROVE  /\ p \in Memberships /\ p[1] = tx[r].group /\ p[2] \in tx[r].refs
             /\ tx[r].lock # "none"
             /\ req[r].kind # "create" => Exists(tx[r].group)
  <2>1. p \in Memberships /\ p[1] = tx[r].group
    BY <1>2 DEF TxOK, Tx
  <2>2. ~Referring(tx[r], p[2])
    BY DEF Referring
  <2>3. p[2] \in tx[r].refs /\ tx[r].lock # "none"
    BY <1>2, <1>6, <2>2 DEF InsertsRefer
  <2>4. req[r].kind \notin Droppers
    BY <1>5
  <2>5. req[r].kind # "create" => Exists(tx[r].group)
    BY <1>2, <1>3, <2>3, <2>4 DEF HoldsFit, Writers
  <2> QED
    BY <2>1, <2>3, <2>5
<1>9. ASSUME NEW p \in members, p[1] \in tx[r].drops \/ p[2] \in tx[r].drops
      PROVE  p \in tx[r].del
  <2>1. Covered(r, p)
    BY <1>2, <1>9 DEF DropsCovered
  <2> QED
    BY <1>7, <2>1 DEF Covered
<1> QED
  BY <1>1, <1>2, <1>3, <1>4, <1>5, <1>6, <1>7, <1>8, <1>9 DEF Claimed

(* The tables after a commit. *)
LEMMA CommittedTables ==
  ASSUME IInv, NEW r \in Requests, Writes(r)
  PROVE  /\ TablesOK' /\ NoDanglingMembers' /\ UniqueDisplayNames'
         /\ issued \subseteq issued'
         /\ \A g \in GroupIds : Exists(g) /\ g \notin tx[r].drops => Exists(g)'
         /\ \A g \in GroupIds : Exists(g)' =>
              \/ groups'[g] = groups[g] /\ Exists(g)
              \/ g = tx[r].group /\ tx[r].row # NoRow /\ groups'[g] = tx[r].row
<1> DEFINE t == tx[r]
<1> /\ Running(r) /\ tx[r].todo = <<>>
    /\ members' = (members \ tx[r].del) \cup tx[r].ins
    /\ liveUsers' = liveUsers \ tx[r].drops
    /\ issued' = IF req[r].kind = "create" THEN issued \cup {tx[r].group} ELSE issued
  BY DEF Writes
<1>1. /\ TablesOK /\ tx[r] \in Tx /\ NameFree(r) /\ NoDanglingMembers /\ UniqueDisplayNames
      /\ req[r].kind \in Writers \cup Droppers
      /\ req[r].kind = "create" => tx[r].row # NoRow /\ tx[r].group \in GroupIds \ issued
      /\ req[r].kind \in {"replace", "patch", "remove"} => tx[r].group \in issued
      /\ req[r].kind \in Droppers => tx[r].row = NoRow /\ tx[r].ins = {}
      /\ req[r].kind \in Writers => tx[r].drops = {}
      /\ tx[r].refs \subseteq liveUsers
      /\ \A p \in tx[r].ins : /\ p \in Memberships /\ p[1] = tx[r].group /\ p[2] \in tx[r].refs
                              /\ req[r].kind # "create" => Exists(tx[r].group)
      /\ \A p \in members : p[1] \in tx[r].drops \/ p[2] \in tx[r].drops => p \in tx[r].del
      /\ Claimed(r) <=> tx[r].row # NoRow
  BY Committing DEF IInv
<1>2. tx[r].row \in GroupRow \cup {NoRow} /\ Absent \notin GroupRow
  BY <1>1, SentinelsAssumption DEF Tx
<1>3. \A g \in GroupIds :
        groups'[g] = IF g \in tx[r].drops THEN Absent
                     ELSE IF g = tx[r].group /\ tx[r].row # NoRow THEN tx[r].row
                     ELSE groups[g]
  BY DEF Writes
<1>4. \A g \in GroupIds : Exists(g) /\ g \notin tx[r].drops => Exists(g)'
  BY <1>2, <1>3 DEF Exists
<1>5. \A g \in GroupIds : Exists(g)' =>
        /\ g \notin tx[r].drops
        /\ \/ groups'[g] = groups[g] /\ Exists(g)
           \/ g = tx[r].group /\ tx[r].row # NoRow /\ groups'[g] = tx[r].row
  BY <1>3 DEF Exists
<1>6. tx[r].row # NoRow => tx[r].group \in issued'
  BY <1>1 DEF Writers, Droppers
<1>7. TablesOK'
  <2>1. groups' \in [GroupIds -> GroupRow \cup {Absent}]
    BY <1>1, <1>2 DEF Writes, TablesOK
  <2>2. issued' \subseteq GroupIds /\ liveUsers' \subseteq UserIds /\ members' \subseteq Memberships
    BY <1>1 DEF TablesOK
  <2>3. \A g \in GroupIds : Exists(g)' => g \in issued'
    BY <1>1, <1>5, <1>6 DEF TablesOK
  <2> QED
    BY <2>1, <2>2, <2>3 DEF TablesOK
<1>8. NoDanglingMembers'
  <2> SUFFICES ASSUME NEW p \in members' PROVE Exists(p[1])' /\ p[2] \in liveUsers'
    BY DEF NoDanglingMembers
  <2>1. CASE p \in members \ tx[r].del
    <3>1. p[1] \in GroupIds /\ p[1] \notin tx[r].drops /\ p[2] \notin tx[r].drops
      BY <1>1, <2>1 DEF TablesOK, Memberships
    <3>2. Exists(p[1]) /\ p[2] \in liveUsers
      BY <1>1, <2>1 DEF NoDanglingMembers
    <3> QED
      BY <1>4, <3>1, <3>2
  <2>2. CASE p \in tx[r].ins
    <3>1. /\ p[1] = tx[r].group /\ p[1] \in GroupIds /\ p[2] \in liveUsers
          /\ tx[r].drops = {}
      BY <1>1, <2>2 DEF Memberships
    <3>2. CASE req[r].kind = "create"
      BY <1>1, <1>2, <1>3, <3>1, <3>2 DEF Exists
    <3>3. CASE req[r].kind # "create"
      BY <1>1, <1>4, <2>2, <3>1, <3>3
    <3> QED
      BY <3>1, <3>2, <3>3
  <2> QED
    BY <2>1, <2>2
<1>9. UniqueDisplayNames'
  <2> SUFFICES ASSUME NEW g \in GroupIds, NEW h \in GroupIds, Exists(g)', Exists(h)',
                      groups'[g].displayName = groups'[h].displayName, g # h
               PROVE  FALSE
    BY DEF UniqueDisplayNames
  <2>1. CASE groups'[g] = groups[g] /\ Exists(g) /\ groups'[h] = groups[h] /\ Exists(h)
    BY <1>1, <2>1 DEF UniqueDisplayNames
  <2>2. CASE g = tx[r].group /\ tx[r].row # NoRow /\ groups'[g] = tx[r].row
    BY <1>1, <1>5, <2>2 DEF NameFree
  <2>3. CASE h = tx[r].group /\ tx[r].row # NoRow /\ groups'[h] = tx[r].row
    BY <1>1, <1>5, <2>3 DEF NameFree
  <2> QED
    BY <1>5, <2>1, <2>2, <2>3
<1>10. issued \subseteq issued'
  OBVIOUS
<1> QED
  BY <1>4, <1>5, <1>7, <1>8, <1>9, <1>10

(* The others after a commit of r: the rows it deleted are no longer there *)
(* for their DELETEs.                                                      *)
LEMMA CommittedOthers ==
  ASSUME IInv, NEW r \in Requests, Writes(r), NEW s \in Requests \ {r},
         tx'[s] = [tx[s] EXCEPT !.targets = @ \ tx[r].del],
         phase'[s] = phase[s], answer'[s] = answer[s]
  PROVE  /\ SlotTyped(s)' /\ Fits(s)' /\ req'[s] = req[s] /\ Running(s)' = Running(s)
         /\ tx'[s].group = tx[s].group /\ tx'[s].lock = tx[s].lock
         /\ tx'[s].refs = tx[s].refs /\ tx'[s].del = tx[s].del
         /\ tx'[s].drops = tx[s].drops /\ tx'[s].row = tx[s].row
         /\ Claimed(s)' = Claimed(s)
<1>1. /\ TablesOK /\ NameFree(r)
      /\ req[r].kind = "create" => tx[r].row # NoRow
      /\ \A p \in tx[r].ins : /\ p \in Memberships /\ p[1] = tx[r].group /\ p[2] \in tx[r].refs
                              /\ tx[r].lock # "none"
      /\ Claimed(r) <=> tx[r].row # NoRow
  BY Committing DEF Writes
<1>2. /\ SlotTyped(s) /\ Fits(s) /\ Apart(r, s) /\ Apart(s, r)
  BY TypesOfSlots DEF IInv
<1>3. /\ tx[s] \in Tx /\ TxOK(s) /\ PhaseFits(s) /\ GroupFits(s) /\ TodoFits(s) /\ HoldsFit(s)
      /\ InsertsRefer(s) /\ DropsCascade(s) /\ DropsCovered(s) /\ NameFree(s)
  BY <1>2 DEF SlotTyped, Fits
<1>4. /\ tx'[s].targets = tx[s].targets \ tx[r].del
      /\ tx'[s].group = tx[s].group /\ tx'[s].lock = tx[s].lock /\ tx'[s].todo = tx[s].todo
      /\ tx'[s].refs = tx[s].refs /\ tx'[s].del = tx[s].del /\ tx'[s].scanning = tx[s].scanning
      /\ tx'[s].ins = tx[s].ins /\ tx'[s].drops = tx[s].drops /\ tx'[s].row = tx[s].row
      /\ tx'[s] \in Tx
  BY <1>3 DEF Tx
<1>5. /\ req'[s] = req[s] /\ Running(s)' = Running(s)
      /\ members' = (members \ tx[r].del) \cup tx[r].ins
      /\ liveUsers' = liveUsers \ tx[r].drops
      /\ Running(r)
      /\ issued' = IF req[r].kind = "create" THEN issued \cup {tx[r].group} ELSE issued
  BY DEF Writes, Running
<1>6. /\ issued \subseteq issued'
      /\ \A g \in GroupIds : Exists(g) /\ g \notin tx[r].drops => Exists(g)'
      /\ \A g \in GroupIds : Exists(g)' =>
           \/ groups'[g] = groups[g] /\ Exists(g)
           \/ g = tx[r].group /\ tx[r].row # NoRow /\ groups'[g] = tx[r].row
  BY CommittedTables
<1>7. Claimed(s)' = Claimed(s)
  BY <1>4, <1>5 DEF Claimed, Doing, Current
<1>8. SlotTyped(s)'
  <2>1. TxOK(s)'
    BY <1>2, <1>3, <1>4, <1>5 DEF TxOK, Apart
  <2> QED
    BY <1>2, <1>4, <1>5, <2>1 DEF SlotTyped, SlotOK
<1>9. PhaseFits(s)'
  BY <1>3, <1>4, <1>5, <1>6 DEF PhaseFits, Idle
<1>10. GroupFits(s)'
  BY <1>1, <1>2, <1>3, <1>4, <1>5, <1>6 DEF GroupFits, Apart
<1>11. TodoFits(s)'
  BY <1>3, <1>4, <1>5 DEF TodoFits, Doing, Current
<1>12. HoldsFit(s)'
  <2>1. tx[s].refs \subseteq liveUsers'
    BY <1>2, <1>3, <1>5 DEF HoldsFit, Apart
  <2>2. Running(s) /\ req[s].kind \in {"replace", "patch"} /\ tx[s].lock # "none"
          => Exists(tx[s].group)'
    BY <1>1, <1>2, <1>3, <1>6 DEF HoldsFit, GroupFits, Apart, TablesOK
  <2> QED
    BY <1>3, <1>4, <1>5, <2>1, <2>2 DEF HoldsFit
<1>13. InsertsRefer(s)'
  BY <1>3, <1>4, <1>5 DEF InsertsRefer, Doing, Current, Referring
<1>14. DropsCascade(s)'
  BY <1>3, <1>4 DEF DropsCascade
<1>15. DropsCovered(s)'
  <2> SUFFICES ASSUME NEW p \in members', p[1] \in tx[s].drops \/ p[2] \in tx[s].drops
               PROVE  Covered(s, p)'
    BY <1>4 DEF DropsCovered
  <2>1. p \notin tx[r].ins
    BY <1>1, <1>2 DEF Apart
  <2>2. p \in members /\ p \notin tx[r].del
    BY <1>5, <2>1
  <2>3. Covered(s, p)
    BY <1>3, <2>2 DEF DropsCovered
  <2> QED
    BY <1>4, <2>2, <2>3 DEF Covered
<1>16. NameFree(s)'
  BY <1>1, <1>2, <1>3, <1>4, <1>6, <1>7 DEF NameFree, Apart
<1>17. Fits(s)'
  BY <1>9, <1>10, <1>11, <1>12, <1>13, <1>14, <1>15, <1>16 DEF Fits
<1> QED
  BY <1>4, <1>5, <1>7, <1>8, <1>17

(* After a commit the request is answered, reads for its answer, or goes   *)
(* on with its wipe.                                                       *)
LEMMA Committed ==
  ASSUME IInv, NEW r \in Requests, Writes(r),
         NEW p \in {"answered", "finding", "clearing"}, phase' = [phase EXCEPT ![r] = p],
         NEW a \in Answers \cup {NoAnswer}, answer' = [answer EXCEPT ![r] = a],
         p = "answered" <=> a # NoAnswer,
         NEW n \in Tx, Forget(r, n), Idle(n), n.row = NoRow,
         p = "finding" => req[r].kind \in {"replace", "patch"},
         p = "finding" /\ req[r].kind = "patch" => PatchResult[req[r].body] # Thrown,
         p = "clearing" => req[r].kind = "clearData"
  PROVE  IInv'
<1>1. /\ TablesOK' /\ NoDanglingMembers' /\ UniqueDisplayNames'
  BY CommittedTables
<1>2. /\ req = [s \in Requests |-> req[s]] /\ phase = [s \in Requests |-> phase[s]]
      /\ answer = [s \in Requests |-> answer[s]] /\ SlotTyped(r)
  BY SlotsAreFunctions
<1>3. /\ req'[r] = req[r] /\ phase'[r] = p /\ answer'[r] = a /\ tx'[r] = n /\ ~Running(r)'
  BY <1>2 DEF Writes, Forget, Running
<1>4. \A s \in Requests \ {r} : /\ tx'[s] = [tx[s] EXCEPT !.targets = @ \ tx[r].del]
                                /\ phase'[s] = phase[s] /\ answer'[s] = answer[s]
  BY <1>2 DEF Forget
<1> /\ n.group = Absent /\ n.todo = <<>> /\ ~n.scanning /\ n.targets = {}
    /\ n.ins = {} /\ n.del = {} /\ n.refs = {} /\ n.lock = "none" /\ n.drops = {}
  BY DEF Idle
<1>5. SlotTyped(r)'
  BY <1>2, <1>3 DEF SlotTyped, SlotOK, TxOK, Phases, Writes, Running
<1>6. Fits(r)'
  <2>1. PhaseFits(r)'
    BY <1>3 DEF PhaseFits
  <2>2. GroupFits(r)' /\ TodoFits(r)' /\ HoldsFit(r)' /\ InsertsRefer(r)'
    BY <1>3 DEF GroupFits, TodoFits, HoldsFit, InsertsRefer
  <2>3. DropsCascade(r)' /\ DropsCovered(r)' /\ NameFree(r)'
    BY <1>3 DEF DropsCascade, DropsCovered, NameFree, Claimed
  <2> QED
    BY <2>1, <2>2, <2>3 DEF Fits
<1>7. \A s \in Requests : SlotTyped(s)' /\ Fits(s)'
  BY <1>4, <1>5, <1>6, CommittedOthers
<1>8. TypeOK'
  <2>1. /\ req' = [s \in Requests |-> req'[s]] /\ phase' = [s \in Requests |-> phase'[s]]
        /\ answer' = [s \in Requests |-> answer'[s]] /\ tx' = [s \in Requests |-> tx'[s]]
    BY <1>2 DEF Writes, Forget
  <2>2. /\ req' \in [Requests -> Request \cup {NoRequest}] /\ phase' \in [Requests -> Phases]
    BY <1>7, <2>1 DEF SlotTyped
  <2>3. /\ answer' \in [Requests -> Answers \cup {NoAnswer}] /\ tx' \in [Requests -> Tx]
    BY <1>7, <2>1 DEF SlotTyped
  <2> QED
    BY <1>1, <1>7, <2>2, <2>3 DEF TypeOK, TablesOK, SlotTyped
<1>9. ASSUME NEW s \in Requests, NEW u \in Requests, s # u PROVE Apart(s, u)'
  <2>1. Apart(s, u)
    BY <1>9 DEF IInv
  <2>2. \A v \in Requests \ {r} :
          /\ req'[v] = req[v] /\ Running(v)' = Running(v)
          /\ tx'[v].group = tx[v].group /\ tx'[v].lock = tx[v].lock
          /\ tx'[v].refs = tx[v].refs /\ tx'[v].del = tx[v].del
          /\ tx'[v].drops = tx[v].drops /\ tx'[v].row = tx[v].row
          /\ Claimed(v)' = Claimed(v)
    BY <1>4, CommittedOthers
  <2>3. CASE s # r /\ u # r
    BY <2>1, <2>2, <2>3 DEF Apart
  <2>4. CASE s = r
    BY <1>3, <2>4 DEF Apart, Claimed
  <2>5. CASE u = r /\ s # r
    <3>1. Running(s) /\ req[s].kind = "create" /\ tx[s].row # NoRow => tx[s].group # Absent
      BY SentinelsAssumption, SlotsAreFunctions DEF Fits, GroupFits
    <3> QED
      BY <1>3, <2>2, <2>5, <3>1 DEF Apart, Claimed
  <2> QED
    BY <1>9, <2>3, <2>4, <2>5
<1> QED
  BY <1>1, <1>7, <1>8, <1>9 DEF IInv

LEMMA CommitKeeps ==
  ASSUME IInv, NEW r \in Requests, Commit(r)
  PROVE  IInv'
<1> DEFINE t == tx[r]
           q == req[r]
<1>1. Writes(r) /\ UNCHANGED req
  BY DEF Commit, Writes
<1>2. /\ tx[r] \in Tx /\ TablesOK /\ TxOK(r)
      /\ req[r] \in Request
      /\ req[r].kind = "create" => tx[r].row # NoRow /\ tx[r].group \in GroupIds \ issued
      /\ tx[r].refs \subseteq liveUsers
      /\ \A p \in tx[r].ins : p \in Memberships /\ p[2] \in tx[r].refs
  BY <1>1, Committing DEF Writes
<1>3. PhaseFits(r) /\ SlotTyped(r) /\ phase[r] = "inTransaction"
  BY <1>1, SlotsAreFunctions DEF Fits, Writes, Running
<1>4. Success(204, NoBody) \in Answers /\ NoAnswer \notin Answers
  BY SentinelsAssumption DEF Success, Answers
<1>5. CASE /\ q.kind = "create"
           /\ Forget(r, NoTx)
           /\ phase'  = [phase EXCEPT ![r] = "answered"]
           /\ answer' = [answer EXCEPT ![r] =
                           Success(201, ToScimGroup(t.group, t.row, {p[2] : p \in t.ins}))]
  <2>1. t.row \in GroupRow /\ t.group \in GroupIds /\ {p[2] : p \in t.ins} \subseteq UserIds
    BY <1>2, <1>5 DEF Tx, TablesOK
  <2>2. Success(201, ToScimGroup(t.group, t.row, {p[2] : p \in t.ins})) \in Answers
    BY <2>1, SentinelsAssumption DEF Success, ToScimGroup, Answers, GroupRow
  <2> QED
    BY <1>1, <1>4, <1>5, <2>2, NoTxTyped, Committed
<1>6. CASE /\ Forget(r, NoTx)
           /\ phase'  = [phase EXCEPT ![r] = "answered"]
           /\ answer' = [answer EXCEPT ![r] = Success(204, NoBody)]
  BY <1>1, <1>4, <1>6, NoTxTyped, Committed
<1>7. answer[r] = NoAnswer /\ answer = [answer EXCEPT ![r] = NoAnswer]
  BY <1>3, SlotsAreFunctions DEF SlotTyped, SlotOK
<1>8. CASE /\ q.kind \in {"replace", "patch"}
           /\ Forget(r, [NoTx EXCEPT !.committed = TRUE])
           /\ phase' = [phase EXCEPT ![r] = "finding"]
           /\ UNCHANGED answer
  <2> DEFINE n == [NoTx EXCEPT !.committed = TRUE]
  <2>1. n \in Tx /\ Idle(n) /\ n.row = NoRow
    BY NoTxTyped DEF Tx, Idle
  <2>2. q.kind = "patch" => PatchResult[q.body] # Thrown
    BY <1>3 DEF PhaseFits
  <2>3. answer' = [answer EXCEPT ![r] = NoAnswer] /\ Forget(r, n)
    BY <1>7, <1>8
  <2> HIDE DEF n
  <2> QED
    BY <1>1, <1>4, <1>8, <2>1, <2>2, <2>3, Committed
<1>9. CASE /\ q.kind = "clearData"
           /\ tx[r].table # LastTable
           /\ Forget(r, [NoTx EXCEPT !.table = TableAfter[tx[r].table]])
           /\ phase' = [phase EXCEPT ![r] = "clearing"]
           /\ UNCHANGED answer
  <2> DEFINE n == [NoTx EXCEPT !.table = TableAfter[tx[r].table]]
  <2>1. TableAfter[tx[r].table] \in {"members", "users", "groups"}
    BY <1>2, <1>9 DEF Tx, TableAfter, LastTable
  <2>2. n \in Tx /\ Idle(n) /\ n.row = NoRow
    BY <2>1, NoTxTyped DEF Tx, Idle
  <2>3. answer' = [answer EXCEPT ![r] = NoAnswer] /\ Forget(r, n)
    BY <1>7, <1>9
  <2> HIDE DEF n
  <2> QED
    BY <1>1, <1>4, <1>9, <2>2, <2>3, Committed
<1> QED
  BY <1>5, <1>6, <1>8, <1>9 DEF Commit, Cleared

-------------------------------------------------------------------------------
(* Theorems. *)

LEMMA StepKeeps == IInv /\ [Next]_vars => IInv'
<1>1. CASE UNCHANGED vars
  <2> SUFFICES ASSUME IInv PROVE IInv'
    OBVIOUS
  <2> /\ groups' = groups /\ issued' = issued /\ liveUsers' = liveUsers /\ members' = members
      /\ req' = req /\ phase' = phase /\ answer' = answer /\ tx' = tx
    BY <1>1 DEF vars
  <2>1. TypeOK' /\ NoDanglingMembers' /\ UniqueDisplayNames'
    BY DEF IInv, TypeOK, SlotOK, TxOK, NoDanglingMembers, UniqueDisplayNames, Exists, Running
  <2>2. ASSUME NEW s \in Requests PROVE Fits(s)'
    <3>1. /\ PhaseFits(s) /\ GroupFits(s) /\ TodoFits(s) /\ HoldsFit(s) /\ InsertsRefer(s)
          /\ DropsCascade(s) /\ DropsCovered(s) /\ NameFree(s)
      BY DEF IInv, Fits
    <3>2. PhaseFits(s)' /\ GroupFits(s)'
      BY <3>1 DEF PhaseFits, GroupFits, Running
    <3>3. TodoFits(s)' /\ HoldsFit(s)' /\ InsertsRefer(s)'
      BY <3>1 DEF TodoFits, HoldsFit, InsertsRefer, Running, Doing, Current, Exists
    <3>4. DropsCascade(s)' /\ DropsCovered(s)' /\ NameFree(s)'
      BY <3>1 DEF DropsCascade, DropsCovered, Covered, NameFree, Claimed, Running, Doing, Current,
                  Exists
    <3> QED
      BY <3>2, <3>3, <3>4 DEF Fits
  <2>3. ASSUME NEW s \in Requests, NEW u \in Requests, s # u PROVE Apart(s, u)'
    BY <2>3 DEF IInv, Apart, Claimed, Running, Doing, Current
  <2> QED
    BY <2>1, <2>2, <2>3 DEF IInv
<1>2. ASSUME IInv, NEW r \in Requests, NEW q \in Request, Receive(r, q) PROVE IInv'
  BY <1>2, ReceiveKeeps
<1>3. ASSUME IInv, NEW r \in Requests, Parse(r) \/ Read(r) PROVE IInv'
  BY <1>3, ParseKeeps, CheckDisplayNameKeeps, FindGroupKeeps, FindMembersKeeps, FindUsersKeeps,
     FindUserKeeps DEF Read
<1>4. ASSUME IInv, NEW r \in Requests, Execute(r) PROVE IInv'
  BY <1>4, ScanMembersKeeps, DeleteMemberKeeps, EndDeleteKeeps, UpdateGroupKeeps, ClaimNameKeeps,
     InsertGroupKeeps, UpsertMemberKeeps, InsertMemberKeeps, ReferGroupKeeps, ReferUserKeeps,
     DropRowKeeps, ClearTableKeeps, CommitKeeps, DeadlockKeeps DEF Execute
<1>5. ASSUME IInv, NEW r \in Requests, Respond(r) PROVE IInv'
  BY <1>5, RespondKeeps
<1> QED
  BY <1>1, <1>2, <1>3, <1>4, <1>5, CrashKeeps DEF Next, Handle

LEMMA Invariance == Spec => []IInv
BY InitKeeps, StepKeeps, PTL DEF Spec

(* The tables, the requests and their transactions have the shape of their *)
(* types, whatever statements interleave.                                  *)
THEOREM TypeCorrect == Spec => []TypeOK
<1>1. IInv => TypeOK
  BY DEF IInv
<1> QED
  BY <1>1, Invariance, PTL

(* A membership is always of a group and a user that are there: the INSERT *)
(* looked for both when it locked them (groups.service.ts:57-71), and who  *)
(* deletes one deletes its memberships in the same transaction             *)
(* (users.service.ts:82-83).                                               *)
THEOREM NoMemberDangles == Spec => []NoDanglingMembers
<1>1. IInv => NoDanglingMembers
  BY DEF IInv
<1> QED
  BY <1>1, Invariance, PTL

(* No two groups ever share a displayName, though create looks for it in a *)
(* step of its own and PUT and PATCH do not look (groups.service.ts:37,    *)
(* 61, 83).                                                                *)
THEOREM DisplayNamesStayUnique == Spec => []UniqueDisplayNames
<1>1. IInv => UniqueDisplayNames
  BY DEF IInv
<1> QED
  BY <1>1, Invariance, PTL
===============================================================================
