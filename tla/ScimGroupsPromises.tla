--------------------------- MODULE ScimGroupsPromises ---------------------------
(***************************************************************************)
(* What steps of ScimGroups never do, and what requests that take effect   *)
(* have promised, for any sets of groups, users, requests and bodies.      *)
(***************************************************************************)
EXTENDS ScimGroupsProofs

(* A PUT that is executed: its members are written or are about to be, and *)
(* so is its name; the DELETE of the old members comes before them.        *)
Delivers(r) ==
  Running(r) /\ req[r].kind = "replace" =>
    /\ \A i \in DOMAIN tx[r].todo :
         /\ tx[r].todo[i].do = "delete" => i = 1 /\ tx[r].ins = {}
         /\ tx[r].todo[i].do = "update" => tx[r].todo[i].displayName = req[r].dto.displayName
         /\ tx[r].todo[i].do = "insert" => ~tx[r].todo[i].upsert
    /\ \A u \in Elements(req[r].dto.members) :
         \/ <<tx[r].group, u>> \in tx[r].ins
         \/ \E i \in DOMAIN tx[r].todo : tx[r].todo[i].do = "insert" /\ tx[r].todo[i].user = u
    /\ IF tx[r].row = NoRow
       THEN \E i \in DOMAIN tx[r].todo : tx[r].todo[i].do = "update"
       ELSE tx[r].row.displayName = req[r].dto.displayName

(* A wipe: what was there when it was asked for is gone from the tables it *)
(* has done, and dropped or about to be in the one it is at.               *)
Dropping(t, id) ==
  id \in t.drops \/ \E i \in DOMAIN t.todo : t.todo[i].do = "drop" /\ t.todo[i].id = id

Wiping(r) ==
  /\ req[r].before \subseteq issued \cup UserIds
  /\ tx[r].table = "groups" => req[r].before \cap liveUsers = {}
  /\ Running(r) => \A id \in req[r].before \cap Rows(tx[r].table) : Dropping(tx[r], id)
  /\ answer[r] = Success(204, NoBody) => \A id \in req[r].before : ~There(id)

WipeFits(r) ==
  /\ phase[r] \in {"idle", "answered"} => tx[r].table = "members"
  /\ phase[r] # "idle" /\ req[r].kind = "clearData" => Wiping(r)

Promises == \A r \in Requests : Delivers(r) /\ WipeFits(r)

-------------------------------------------------------------------------------
(* Whose step it is. *)

Step(r) == (\E q \in Request : Receive(r, q)) \/ Handle(r) \/ Respond(r)

(* The others notice of a step of r at most that rows are gone.            *)
SameFor(s, r) ==
  /\ req'[s] = req[s] /\ phase'[s] = phase[s] /\ answer'[s] = answer[s]
  /\ \/ tx'[s] = tx[s]
     \/ Commit(r) /\ tx'[s] = [tx[s] EXCEPT !.targets = @ \ tx[r].del]

LEMMA StepOfOne ==
  ASSUME IInv, NEW r \in Requests, Step(r)
  PROVE  /\ Commit(r) \/ UNCHANGED tables
         /\ \A s \in Requests \ {r} : SameFor(s, r)
<1> /\ req = [s \in Requests |-> req[s]] /\ phase = [s \in Requests |-> phase[s]]
    /\ answer = [s \in Requests |-> answer[s]] /\ tx = [s \in Requests |-> tx[s]]
  BY SlotsAreFunctions
<1>1. ASSUME NEW a, Answer(r, a) PROVE \A s \in Requests \ {r} : SameFor(s, r)
  BY <1>1 DEF Answer, SameFor
<1>2. ASSUME NEW n, tx' = [tx EXCEPT ![r] = n], NEW p, Await(r, p)
      PROVE  \A s \in Requests \ {r} : SameFor(s, r)
  BY <1>2 DEF Await, SameFor
<1>3. ASSUME NEW n, tx' = [tx EXCEPT ![r] = n], UNCHANGED <<req, phase, answer>>
      PROVE  \A s \in Requests \ {r} : SameFor(s, r)
  BY <1>3 DEF SameFor
<1>4. CASE (\E q \in Request : Receive(r, q)) \/ Respond(r)
  BY <1>4 DEF Receive, Respond, SameFor, tables
<1>5. CASE Parse(r) \/ CheckDisplayName(r) \/ FindGroup(r) \/ FindUser(r)
  BY <1>1, <1>2, <1>5 DEF Parse, CheckDisplayName, RefuseMalformed, FindGroup, FindUser, tables
<1>6. CASE FindMembers(r) \/ FindUsers(r)
  BY <1>1, <1>2, <1>6 DEF FindMembers, FindUsers, Found, RefuseMalformed, tables
<1>7. CASE ScanMembers(r) \/ DeleteMember(r) \/ EndDelete(r) \/ UpsertMember(r)
  BY <1>3, <1>7 DEF ScanMembers, DeleteMember, EndDelete, UpsertMember, Proceed, tables
<1>8. CASE UpdateGroup(r) \/ ClaimName(r) \/ InsertGroup(r)
  BY <1>1, <1>3, <1>8 DEF UpdateGroup, ClaimName, InsertGroup, RollBack, Proceed, tables
<1>9. CASE InsertMember(r) \/ ReferGroup(r) \/ ReferUser(r) \/ DropRow(r)
  BY <1>1, <1>3, <1>9 DEF InsertMember, ReferGroup, ReferUser, DropRow, RollBack, Proceed, tables
<1>10. CASE ClearTable(r) \/ Deadlock(r)
  BY <1>1, <1>2, <1>10 DEF ClearTable, Deadlock, RollBack, tables
<1>11. CASE Commit(r)
  <2>1. req' = req /\ \E n : Forget(r, n)
    BY <1>11 DEF Commit, Cleared
  <2>2. \E p : phase' = [phase EXCEPT ![r] = p]
    BY <1>11 DEF Commit, Cleared
  <2>3. answer' = answer \/ \E a : answer' = [answer EXCEPT ![r] = a]
    BY <1>11 DEF Commit, Cleared
  <2>4. ASSUME NEW s \in Requests \ {r}
        PROVE  /\ tx'[s] = [tx[s] EXCEPT !.targets = @ \ tx[r].del]
               /\ req'[s] = req[s] /\ phase'[s] = phase[s] /\ answer'[s] = answer[s]
    BY <2>1, <2>2, <2>3 DEF Forget
  <2> QED
    BY <1>11, <2>4 DEF SameFor
<1> QED
  BY <1>4, <1>5, <1>6, <1>7, <1>8, <1>9, <1>10, <1>11 DEF Step, Handle, Read, Execute

LEMMA WhatHappens ==
  ASSUME [Next]_vars
  PROVE  UNCHANGED vars \/ Crash \/ \E r \in Requests : Step(r)
BY DEF Next, Step

-------------------------------------------------------------------------------
(* What is gone does not return. *)

LEMMA CommittedRows ==
  ASSUME IInv, NEW r \in Requests, Commit(r)
  PROVE  /\ \A g \in issued : ~Exists(g) => ~Exists(g)'
         /\ liveUsers' \subseteq liveUsers
<1>1. Writes(r)
  BY DEF Commit, Writes
<1>2. \A g \in GroupIds : Exists(g)' =>
        \/ groups'[g] = groups[g] /\ Exists(g)
        \/ g = tx[r].group /\ tx[r].row # NoRow /\ groups'[g] = tx[r].row
  BY <1>1, CommittedTables
<1>3. /\ TablesOK /\ req[r].kind \in Writers \cup Droppers
      /\ req[r].kind = "create" => tx[r].group \notin issued
      /\ req[r].kind \in Droppers => tx[r].row = NoRow
      /\ HoldsFit(r) /\ Running(r)
  BY <1>1, Committing, SlotsAreFunctions DEF Writes, Fits
<1>4. tx[r].row # NoRow /\ tx[r].group \in issued => Exists(tx[r].group)
  BY <1>3 DEF HoldsFit, Writers
<1> QED
  BY <1>1, <1>2, <1>3, <1>4 DEF TablesOK, Writes

LEMMA GoneForGood ==
  ASSUME IInv, [Next]_vars
  PROVE  /\ \A g \in issued : ~Exists(g) => ~Exists(g)'
         /\ liveUsers' \subseteq liveUsers
<1>1. CASE UNCHANGED tables
  BY <1>1 DEF tables, Exists
<1>2. CASE \E r \in Requests : Commit(r)
  BY <1>2, CommittedRows
<1>3. UNCHANGED vars \/ Crash => UNCHANGED tables
  BY DEF vars, Crash, tables
<1> QED
  BY <1>1, <1>2, <1>3, WhatHappens, StepOfOne

(* A deleted group never comes back: a PUT or PATCH that found it before   *)
(* the DELETE updates nothing (groups.service.ts:59-71, 81-111), and its   *)
(* id is given to no other group.                                          *)
THEOREM NoGroupReturns == Spec => DeletedGroupsStayDeleted
<1>1. IInv /\ [Next]_vars => [\A g \in issued : ~Exists(g) => ~Exists(g)']_vars
  BY GoneForGood
<1> QED
  BY <1>1, Invariance, PTL DEF Spec, DeletedGroupsStayDeleted

-------------------------------------------------------------------------------
(* A PUT that takes effect. *)

LEMMA DeliversStill ==
  ASSUME NEW r \in Requests, Delivers(r), req'[r] = req[r], Running(r)' = Running(r),
         tx'[r].todo = tx[r].todo, tx'[r].group = tx[r].group,
         tx'[r].ins = tx[r].ins, tx'[r].row = tx[r].row
  PROVE  Delivers(r)'
BY DEF Delivers

LEMMA DeliversForOthers ==
  ASSUME IInv, NEW r \in Requests, NEW s \in Requests, SameFor(s, r), Delivers(s)
  PROVE  Delivers(s)'
<1>1. tx[s] \in Tx
  BY SlotsAreFunctions DEF SlotTyped
<1>2. /\ req'[s] = req[s] /\ Running(s)' = Running(s)
      /\ tx'[s].todo = tx[s].todo /\ tx'[s].group = tx[s].group
      /\ tx'[s].ins = tx[s].ins /\ tx'[s].row = tx[s].row
  BY <1>1 DEF SameFor, Tx, Running
<1> QED
  BY <1>2, DeliversStill

(* The statements of a PUT promise what its body says.                     *)
LEMMA PutBegins ==
  ASSUME NEW r \in Requests, req'[r] \in Request, req'[r].kind = "replace", ~Malformed(req'[r]),
         tx'[r].todo = Statements(req'[r]), tx'[r].ins = {}, tx'[r].row = NoRow
  PROVE  Delivers(r)'
<1> DEFINE q == req'[r]
           d == Delete({q.id} \X MemberIds)
           u == Update(q.dto.displayName, q.dto.externalId)
           t == Inserts(q.dto)
           m == q.dto.members
<1>1. q.dto \in GroupDto /\ q.id \in GroupIds /\ Null \notin Elements(q.dto.members)
  BY GroupDtosAssumption DEF Request, Malformed
<1>2. d \in StatementOf /\ d.do = "delete"
  <2>1. {q.id} \X MemberIds \in SUBSET Memberships
    BY <1>1 DEF Memberships
  <2> QED
    BY <2>1, StatementTypes DEF Delete
<1>3. u \in StatementOf /\ u.do = "update" /\ u.displayName = q.dto.displayName
  BY <1>1, StatementTypes DEF Update, GroupDto
<1>4. /\ t \in Seq(StatementOf) /\ DOMAIN t = DOMAIN m
      /\ \A i \in DOMAIN t : t[i] = Insert(m[i])
  BY <1>1, InsertsOf
<1>5. Statements(q) = <<d, u>> \o t
  BY DEF Statements, ReplaceStatements
<1> DEFINE s == <<d, u>> \o t
<1>6. tx'[r].todo = s
  BY <1>5
<1> HIDE DEF d, u, t, m, s
<1>7. /\ Len(t) \in Nat /\ DOMAIN t = 1..Len(t)
      /\ DOMAIN s = 1..2 + Len(t) /\ s[1] = d /\ s[2] = u
      /\ \A i \in 1..Len(t) : s[i + 2] = t[i]
  BY <1>2, <1>3, <1>4, ConcatToTwo DEF s
<1>8. \A i \in DOMAIN t : /\ i + 2 \in DOMAIN s
                          /\ s[i + 2].do = "insert" /\ s[i + 2].user = m[i] /\ ~s[i + 2].upsert
  BY <1>4, <1>7 DEF Insert
<1>9. \A i \in DOMAIN s : \/ i = 1 /\ s[i].do = "delete"
                          \/ i = 2 /\ s[i].do = "update" /\ s[i].displayName = q.dto.displayName
                          \/ s[i].do = "insert" /\ ~s[i].upsert
  <2> SUFFICES ASSUME NEW i \in DOMAIN s, i # 1, i # 2
               PROVE  s[i].do = "insert" /\ ~s[i].upsert
    BY <1>2, <1>3, <1>7
  <2>1. PICK j \in DOMAIN t : i = j + 2
    <3>1. i - 2 \in DOMAIN t /\ i = (i - 2) + 2
      BY <1>7
    <3> QED
      BY <3>1
  <2> QED
    BY <1>8, <2>1
<1>10. \A v \in Elements(m) : \E i \in DOMAIN s : s[i].do = "insert" /\ s[i].user = v
  BY <1>4, <1>8 DEF Elements
<1>11. 2 \in DOMAIN s /\ s[2].do = "update"
  BY <1>3, <1>7
<1> QED
  BY <1>6, <1>9, <1>10, <1>11 DEF Delivers, m

LEMMA DeliversOn ==
  ASSUME IInv, NEW r \in Requests, Running(r), req[r].kind = "replace", Delivers(r),
         tx[r].todo # <<>>, req' = req, NEW n, tx' = [tx EXCEPT ![r] = n],
         n.group = tx[r].group, tx[r].ins \subseteq n.ins,
         NEW k \in {-1, 0, 1}, Continues(req[r], tx[r].todo, n.todo, k),
         \A i \in DOMAIN n.todo : i <= k + 1 => n.todo[i].do \notin {"insert", "update"},
         Current(r).do = "insert" => <<tx[r].group, Current(r).user>> \in n.ins,
         IF Current(r).do = "update"
         THEN n.row # NoRow /\ n.row.displayName = req[r].dto.displayName
         ELSE n.row = tx[r].row
  PROVE  Delivers(r)'
<1> DEFINE old == tx[r].todo
           new == n.todo
<1>1. /\ tx'[r] = n /\ req'[r] = req[r]
      /\ old \in Seq(StatementOf) /\ Current(r) = old[1] /\ 1 \in DOMAIN old
      /\ DOMAIN old = 1..Len(old) /\ Len(old) \in Nat
      /\ DOMAIN new = 1..Len(new) /\ Len(new) \in Nat
  BY SlotsAreFunctions, Executing DEF Continues
<1>2. /\ \A j \in DOMAIN old : j > 1 => j + k \in DOMAIN new /\ new[j + k] = old[j]
      /\ \A i \in DOMAIN new :
           \/ i <= k + 1 /\ new[i].do \notin {"insert", "update", "delete"}
           \/ i > k + 1 /\ i - k \in DOMAIN old /\ new[i] = old[i - k]
  BY DEF Continues
<1>3. /\ \A i \in DOMAIN old :
           /\ old[i].do = "delete" => i = 1
           /\ old[i].do = "update" => old[i].displayName = req[r].dto.displayName
           /\ old[i].do = "insert" => ~old[i].upsert
      /\ \A u \in Elements(req[r].dto.members) :
           \/ <<tx[r].group, u>> \in tx[r].ins
           \/ \E i \in DOMAIN old : old[i].do = "insert" /\ old[i].user = u
      /\ IF tx[r].row = NoRow
         THEN \E i \in DOMAIN old : old[i].do = "update"
         ELSE tx[r].row.displayName = req[r].dto.displayName
  BY DEF Delivers
<1> HIDE DEF old, new
<1>4. \A i \in DOMAIN new :
        /\ new[i].do # "delete"
        /\ new[i].do = "update" => new[i].displayName = req[r].dto.displayName
        /\ new[i].do = "insert" => ~new[i].upsert
  <2> SUFFICES ASSUME NEW i \in DOMAIN new
               PROVE  /\ new[i].do # "delete"
                      /\ new[i].do = "update" => new[i].displayName = req[r].dto.displayName
                      /\ new[i].do = "insert" => ~new[i].upsert
    OBVIOUS
  <2>1. CASE i <= k + 1 /\ new[i].do \notin {"insert", "update", "delete"}
    BY <2>1
  <2>2. CASE i > k + 1 /\ i - k \in DOMAIN old /\ new[i] = old[i - k]
    <3>1. i - k # 1
      BY <1>1, <2>2
    <3> QED
      BY <1>3, <2>2, <3>1
  <2> QED
    BY <1>2, <2>1, <2>2
<1>5. \A u \in Elements(req[r].dto.members) :
        \/ <<tx[r].group, u>> \in n.ins
        \/ \E i \in DOMAIN new : new[i].do = "insert" /\ new[i].user = u
  <2> SUFFICES ASSUME NEW u \in Elements(req[r].dto.members), <<tx[r].group, u>> \notin n.ins
               PROVE  \E i \in DOMAIN new : new[i].do = "insert" /\ new[i].user = u
    OBVIOUS
  <2>1. PICK j \in DOMAIN old : old[j].do = "insert" /\ old[j].user = u
    BY <1>3
  <2>2. j # 1
    BY <1>1, <2>1
  <2>3. j > 1
    BY <1>1, <2>2
  <2> QED
    BY <1>2, <2>1, <2>3
<1>6. IF n.row = NoRow
      THEN \E i \in DOMAIN new : new[i].do = "update"
      ELSE n.row.displayName = req[r].dto.displayName
  <2>1. CASE n.row = NoRow
    <3>1. Current(r).do # "update" /\ tx[r].row = NoRow
      BY <2>1
    <3>2. PICK j \in DOMAIN old : old[j].do = "update"
      BY <1>3, <3>1
    <3>3. j > 1
      BY <1>1, <3>1, <3>2
    <3> QED
      BY <1>2, <2>1, <3>2, <3>3
  <2>2. CASE n.row # NoRow
    BY <1>3, <2>2
  <2> QED
    BY <2>1, <2>2
<1>7. tx'[r].todo = new /\ tx'[r].group = tx[r].group /\ tx'[r].ins = n.ins /\ tx'[r].row = n.row
  BY <1>1 DEF new
<1>8. /\ \A i \in DOMAIN tx'[r].todo :
           /\ tx'[r].todo[i].do # "delete"
           /\ tx'[r].todo[i].do = "update" => tx'[r].todo[i].displayName = req'[r].dto.displayName
           /\ tx'[r].todo[i].do = "insert" => ~tx'[r].todo[i].upsert
      /\ \A u \in Elements(req'[r].dto.members) :
           \/ <<tx'[r].group, u>> \in tx'[r].ins
           \/ \E i \in DOMAIN tx'[r].todo : tx'[r].todo[i].do = "insert" /\ tx'[r].todo[i].user = u
  <2> PICK t, q : t = tx'[r] /\ q = req'[r]
    OBVIOUS
  <2>1. t.todo = new /\ t.group = tx[r].group /\ t.ins = n.ins /\ q = req[r]
    BY <1>1, <1>7
  <2>2. \A i \in DOMAIN t.todo :
          /\ t.todo[i].do # "delete"
          /\ t.todo[i].do = "update" => t.todo[i].displayName = q.dto.displayName
          /\ t.todo[i].do = "insert" => ~t.todo[i].upsert
    BY <1>4, <2>1
  <2>3. \A u \in Elements(q.dto.members) :
          \/ <<t.group, u>> \in t.ins
          \/ \E i \in DOMAIN t.todo : t.todo[i].do = "insert" /\ t.todo[i].user = u
    BY <1>5, <2>1
  <2> QED
    BY <2>2, <2>3
<1>9. IF tx'[r].row = NoRow
      THEN \E i \in DOMAIN tx'[r].todo : tx'[r].todo[i].do = "update"
      ELSE tx'[r].row.displayName = req'[r].dto.displayName
  BY <1>1, <1>6, <1>7
<1> QED
  BY <1>8, <1>9 DEF Delivers

(* A statement that inserts and updates nothing is done.                   *)
LEMMA DeliversDone ==
  ASSUME IInv, NEW r \in Requests, Running(r), req[r].kind = "replace", Delivers(r),
         tx[r].todo # <<>>, Current(r).do \notin {"insert", "update"},
         NEW new \in Tx, Proceed(r, new), new.todo = tx[r].todo,
         new.group = tx[r].group, new.ins = tx[r].ins, new.row = tx[r].row
  PROVE  Delivers(r)'
<1> DEFINE n == [new EXCEPT !.todo = Tail(tx[r].todo)]
<1>1. tx' = [tx EXCEPT ![r] = n] /\ req' = req
  BY DEF Proceed
<1>2. /\ n.todo = Tail(tx[r].todo) /\ n.group = tx[r].group /\ n.ins = tx[r].ins
      /\ n.row = tx[r].row
  BY DEF Tx
<1> HIDE DEF n
<1>3. tx[r].todo \in Seq(StatementOf)
  BY Executing
<1>4. Continues(req[r], tx[r].todo, n.todo, -1)
  BY <1>2, <1>3, DoneContinues
<1>5. \A i \in DOMAIN n.todo : i > 0
  BY <1>2, <1>3, TailOf
<1>6. \A i \in DOMAIN n.todo : i <= -1 + 1 => n.todo[i].do \notin {"insert", "update"}
  BY <1>2, <1>3, <1>5, TailOf
<1> QED
  BY <1>1, <1>2, <1>4, <1>6, DeliversOn

LEMMA DeliversUpdate ==
  ASSUME IInv, NEW r \in Requests, req[r].kind = "replace", Delivers(r), UpdateGroup(r), Running(r)'
  PROVE  Delivers(r)'
<1> DEFINE c == Current(r)
           old == groups[tx[r].group]
           x == Written(c.externalId, old.externalId)
           new == [displayName |-> Written(c.displayName, old.displayName), externalId |-> x]
           e == Statement("claimName")
<1>1. /\ Running(r) /\ tx[r].todo # <<>> /\ c.do = "update"
  BY DEF UpdateGroup, Doing
<1>2. /\ tx[r] \in Tx /\ tx[r].todo \in Seq(StatementOf) /\ c = tx[r].todo[1] /\ 1 \in DOMAIN tx[r].todo
      /\ req[r] \in Request /\ c \in StatementOf /\ TablesOK /\ GroupFits(r)
  BY <1>1, Executing
<1>3. c.displayName = req[r].dto.displayName
  BY <1>1, <1>2 DEF Delivers
<1>4. Exists(tx[r].group) => new \in GroupRow
  <2>1. tx[r].group \in GroupIds
    BY <1>1, <1>2 DEF GroupFits, TablesOK
  <2>2. Exists(tx[r].group) => groups[tx[r].group] \in GroupRow
    BY <1>2, <2>1 DEF TablesOK, Exists
  <2>3. /\ c.displayName \in STRING \cup {Undefined}
        /\ c.externalId \in STRING \cup {Undefined, Null}
    BY <1>1, <1>2 DEF StatementOf
  <2> QED
    BY <2>2, <2>3 DEF GroupRow, Written
<1>5. c.displayName # Undefined
  BY <1>2, <1>3, GroupDtosAssumption, SentinelsAssumption DEF Request, GroupDto
<1>6. new.displayName = req[r].dto.displayName
  BY <1>3, <1>5 DEF Written
<1>7. ~RollBack(r, "P2025")
  BY <1>1, SlotsAreFunctions DEF RollBack, Answer, Running
<1> HIDE DEF new
<1>8. Exists(tx[r].group) => new # NoRow
  BY <1>4, SentinelsAssumption
<1>9. CASE /\ Exists(tx[r].group)
           /\ tx' = [tx EXCEPT ![r].row = new, ![r].lock = "key", ![r].todo = <<e>> \o Tail(@)]
           /\ UNCHANGED <<tables, req, phase, answer>>
  <2> DEFINE t == <<e>> \o Tail(tx[r].todo)
             n == [tx[r] EXCEPT !.row = new, !.lock = "key", !.todo = t]
  <2>1. e \in StatementOf /\ e.do = "claimName" /\ e.do \in MayDo(req[r]) \ {"insertGroup", "drop", "delete"}
    BY StatementTypes DEF Statement, MayDo
  <2>2. Continues(req[r], tx[r].todo, t, 0)
    BY <1>1, <1>2, <2>1, ReplacedContinues
  <2>3. t[1] = e /\ DOMAIN t = DOMAIN tx[r].todo /\ DOMAIN tx[r].todo = 1..Len(tx[r].todo)
        /\ Len(tx[r].todo) \in Nat
    BY <1>1, <1>2, <2>1, HeadReplaced
  <2> HIDE DEF t, e
  <2>4. tx' = [tx EXCEPT ![r] = n]
    BY <1>9 DEF t
  <2>5. n.row = new /\ n.todo = t /\ n.group = tx[r].group /\ n.ins = tx[r].ins
    BY <1>2 DEF Tx
  <2> HIDE DEF n
  <2>6. \A i \in DOMAIN n.todo : i <= 0 + 1 => n.todo[i].do \notin {"insert", "update"}
    BY <2>1, <2>3, <2>5
  <2>7. Continues(req[r], tx[r].todo, n.todo, 0)
    BY <2>2, <2>5
  <2> QED
    BY <1>1, <1>6, <1>8, <1>9, <2>4, <2>5, <2>6, <2>7, DeliversOn
<1>10. CASE Exists(tx[r].group) /\ Proceed(r, [tx[r] EXCEPT !.row = new, !.lock = "noKey"])
  <2> DEFINE n == [tx[r] EXCEPT !.row = new, !.lock = "noKey", !.todo = Tail(tx[r].todo)]
  <2>1. tx' = [tx EXCEPT ![r] = n] /\ req' = req
    BY <1>2, <1>10 DEF Proceed, Tx
  <2>2. n.row = new /\ n.todo = Tail(tx[r].todo) /\ n.group = tx[r].group /\ n.ins = tx[r].ins
    BY <1>2 DEF Tx
  <2> HIDE DEF n
  <2>3. Continues(req[r], tx[r].todo, n.todo, -1)
    BY <1>1, <1>2, <2>2, DoneContinues
  <2>4. \A i \in DOMAIN n.todo : i <= -1 + 1 => n.todo[i].do \notin {"insert", "update"}
    BY <1>1, <1>2, <2>2, TailOf
  <2> QED
    BY <1>1, <1>6, <1>8, <1>10, <2>1, <2>2, <2>3, <2>4, DeliversOn
<1> QED
  BY <1>7, <1>9, <1>10 DEF UpdateGroup, new

LEMMA DeliversInsert ==
  ASSUME IInv, NEW r \in Requests, req[r].kind = "replace", Delivers(r), InsertMember(r), Running(r)'
  PROVE  Delivers(r)'
<1> DEFINE c == Current(r)
           p == <<tx[r].group, c.user>>
           e == Statement("referGroup")
           f == [do |-> "referUser", user |-> c.user]
<1>1. Running(r) /\ tx[r].todo # <<>> /\ c.do = "insert"
  BY DEF InsertMember, Doing
<1>2. /\ tx[r] \in Tx /\ tx[r].todo \in Seq(StatementOf) /\ c = tx[r].todo[1]
      /\ c \in StatementOf
  BY <1>1, Executing
<1>3. ~c.upsert
  <2>1. 1 \in DOMAIN tx[r].todo
    BY <1>1, <1>2, TailOf
  <2> QED
    BY <1>1, <1>2, <2>1 DEF Delivers
<1>4. ~RollBack(r, "P2002")
  BY <1>1, SlotsAreFunctions DEF RollBack, Answer, Running
<1>5. /\ tx' = [tx EXCEPT ![r].ins = @ \cup {p}, ![r].todo = <<e, f>> \o Tail(@)]
      /\ UNCHANGED <<tables, req, phase, answer>>
  BY <1>3, <1>4 DEF InsertMember, References
<1>6. /\ e \in StatementOf /\ e.do = "referGroup" /\ f \in StatementOf /\ f.do = "referUser"
      /\ {e.do, f.do} \subseteq MayDo(req[r]) \ {"insertGroup", "drop", "delete"}
  <2>1. c.user \in MemberIds
    BY <1>1, <1>2 DEF StatementOf
  <2> QED
    BY <2>1, StatementTypes DEF Statement, MayDo
<1> DEFINE t == <<e, f>> \o Tail(tx[r].todo)
           n == [tx[r] EXCEPT !.ins = @ \cup {p}, !.todo = t]
<1>7. Continues(req[r], tx[r].todo, t, 1)
  BY <1>1, <1>2, <1>6, ReplacedByTwoContinues
<1>8. /\ DOMAIN t = 1..Len(tx[r].todo) + 1 /\ Len(tx[r].todo) \in Nat
      /\ \A i \in 1..Len(tx[r].todo) + 1 :
           t[i] = IF i = 1 THEN e ELSE IF i = 2 THEN f ELSE tx[r].todo[i - 1]
  BY <1>1, <1>2, <1>6, HeadReplacedByTwo
<1> HIDE DEF t, e, f, p
<1>9. tx' = [tx EXCEPT ![r] = n]
  BY <1>5 DEF t
<1>10. n.row = tx[r].row /\ n.todo = t /\ n.group = tx[r].group /\ n.ins = tx[r].ins \cup {p}
  BY <1>2 DEF Tx
<1> HIDE DEF n
<1>11. \A i \in DOMAIN n.todo : i <= 1 + 1 => n.todo[i].do \notin {"insert", "update"}
  BY <1>6, <1>8, <1>10
<1>12. Continues(req[r], tx[r].todo, n.todo, 1)
  BY <1>7, <1>10
<1>13. <<tx[r].group, c.user>> \in n.ins
  BY <1>10 DEF p
<1> QED
  BY <1>1, <1>5, <1>9, <1>10, <1>11, <1>12, <1>13, DeliversOn

LEMMA DeliversKept ==
  ASSUME IInv, NEW r \in Requests, Delivers(r), Step(r)
  PROVE  Delivers(r)'
<1> SUFFICES ASSUME Running(r)', req'[r].kind = "replace"
             PROVE  Delivers(r)'
  BY DEF Delivers
<1> /\ req = [s \in Requests |-> req[s]] /\ phase = [s \in Requests |-> phase[s]]
    /\ answer = [s \in Requests |-> answer[s]] /\ tx = [s \in Requests |-> tx[s]]
    /\ PhaseFits(r) /\ tx[r] \in Tx
  BY SlotsAreFunctions DEF Fits, SlotTyped
<1> phase'[r] = "inTransaction"
  BY DEF Running
<1>1. \A a : ~Answer(r, a)
  BY DEF Answer
<1>2. \A e : ~RollBack(r, e)
  BY <1>1 DEF RollBack
<1>3. ~(\E q \in Request : Receive(r, q)) /\ ~Respond(r)
  BY DEF Receive, Respond
<1>4. ~Parse(r) /\ ~FindGroup(r) /\ ~CheckDisplayName(r) /\ ~FindUser(r) /\ ~ClearTable(r)
  BY <1>1 DEF Parse, FindGroup, CheckDisplayName, RefuseMalformed, FindUser, ClearTable, Await, PhaseFits
<1>5. ~Commit(r) /\ ~Deadlock(r)
  BY <1>2 DEF Commit, Cleared, Deadlock
<1>6. CASE FindMembers(r) \/ FindUsers(r)
  <2>1. \E users : Found(r, users)
    BY <1>6 DEF FindMembers, FindUsers, Await, Answer
  <2>2. /\ Await(r, "inTransaction") /\ ~Malformed(req[r])
        /\ tx' = [tx EXCEPT ![r] = [NoTx EXCEPT !.group = req[r].id, !.todo = Statements(req[r])]]
    BY <1>1, <2>1 DEF Found, RefuseMalformed, Await
  <2>3. req'[r] = req[r] /\ tx'[r].todo = Statements(req[r]) /\ tx'[r].ins = {} /\ tx'[r].row = NoRow
    BY <2>2 DEF Await, NoTx
  <2>4. req[r] \in Request
    BY <1>6, BusyRequest DEF FindMembers, FindUsers
  <2> QED
    BY <2>2, <2>3, <2>4, PutBegins
<1>7. CASE Execute(r)
  <2>1. Running(r) /\ tx[r].todo # <<>>
    BY <1>4, <1>5, <1>7 DEF Execute, ScanMembers, DeleteMember, EndDelete, UpdateGroup, ClaimName,
       InsertGroup, UpsertMember, InsertMember, ReferGroup, ReferUser, DropRow, Doing
  <2>2. /\ tx[r].todo \in Seq(StatementOf) /\ Current(r) = tx[r].todo[1] /\ 1 \in DOMAIN tx[r].todo
        /\ Current(r).do \in MayDo(req[r])
    BY <2>1, Executing
  <2>3. req'[r] = req[r]
    BY <1>1, <1>5, <1>7, <1>4 DEF Execute, ScanMembers, DeleteMember, EndDelete, UpdateGroup,
       ClaimName, InsertGroup, UpsertMember, InsertMember, ReferGroup, ReferUser, DropRow,
       RollBack, Proceed
  <2>4. req[r].kind = "replace"
    BY <2>3
  <2>5. ~InsertGroup(r) /\ ~UpsertMember(r) /\ ~DropRow(r)
    BY <2>2, <2>4 DEF InsertGroup, UpsertMember, DropRow, Doing, MayDo
  <2>6. CASE ScanMembers(r)
    <3>1. /\ tx'[r].todo = tx[r].todo /\ tx'[r].ins = tx[r].ins
          /\ tx'[r].group = tx[r].group /\ tx'[r].row = tx[r].row
      BY <2>6 DEF ScanMembers, Tx
    <3> QED
      BY <2>1, <2>3, <2>4, <3>1 DEF Delivers
  <2>7. CASE DeleteMember(r)
    <3>1. tx[r].ins = {}
      BY <2>1, <2>2, <2>4, <2>7 DEF DeleteMember, Doing, Delivers
    <3>2. PICK p \in tx[r].targets :
            tx' = [tx EXCEPT ![r].targets = @ \ {p}, ![r].ins = @ \ {p},
                             ![r].del = @ \cup ({p} \cap members)]
      BY <2>7 DEF DeleteMember
    <3>3. /\ tx'[r].todo = tx[r].todo /\ tx'[r].ins = {}
          /\ tx'[r].group = tx[r].group /\ tx'[r].row = tx[r].row
      BY <3>1, <3>2 DEF Tx
    <3>4. tx'[r].ins = tx[r].ins
      BY <3>1, <3>3
    <3>5. Running(r)' = Running(r)
      BY <2>1
    <3> QED
      BY <2>3, <3>3, <3>4, <3>5, DeliversStill
  <2>8. ASSUME NEW new, Proceed(r, new), new \in Tx, new.todo = tx[r].todo,
               new.group = tx[r].group, new.ins = tx[r].ins, new.row = tx[r].row,
               Current(r).do \notin {"insert", "update"}
        PROVE  Delivers(r)'
    BY <2>1, <2>4, <2>8, DeliversDone
  <2>9. CASE EndDelete(r)
    <3> DEFINE new == [tx[r] EXCEPT !.scanning = FALSE]
    <3>1. /\ new \in Tx /\ new.todo = tx[r].todo /\ new.group = tx[r].group
          /\ new.ins = tx[r].ins /\ new.row = tx[r].row
      BY DEF Tx
    <3>2. Proceed(r, new) /\ Current(r).do = "delete"
      BY <2>9 DEF EndDelete, Doing
    <3> HIDE DEF new
    <3> QED
      BY <2>8, <3>1, <3>2
  <2>10. CASE ClaimName(r)
    BY <1>2, <2>8, <2>10 DEF ClaimName, Doing
  <2>11. CASE ReferGroup(r)
    <3> DEFINE new == [tx[r] EXCEPT !.lock = IF @ = "none" THEN "keyShare" ELSE @]
    <3>1. /\ new \in Tx /\ new.todo = tx[r].todo /\ new.group = tx[r].group
          /\ new.ins = tx[r].ins /\ new.row = tx[r].row
      BY DEF Tx
    <3>2. Proceed(r, new) /\ Current(r).do = "referGroup"
      BY <1>2, <2>11 DEF ReferGroup, Doing
    <3> HIDE DEF new
    <3> QED
      BY <2>8, <3>1, <3>2
  <2>12. CASE ReferUser(r)
    <3> DEFINE new == [tx[r] EXCEPT !.refs = @ \cup {Current(r).user}]
    <3>1. Proceed(r, new) /\ Current(r).do = "referUser" /\ Current(r).user \in liveUsers
      BY <1>2, <2>12 DEF ReferUser, Doing
    <3>2. liveUsers \subseteq UserIds
      BY <2>1, Executing DEF TablesOK
    <3>3. /\ new \in Tx /\ new.todo = tx[r].todo /\ new.group = tx[r].group
          /\ new.ins = tx[r].ins /\ new.row = tx[r].row
      BY <3>1, <3>2 DEF Tx
    <3> HIDE DEF new
    <3> QED
      BY <2>8, <3>1, <3>3
  <2> QED
    BY <1>4, <1>5, <1>7, <2>4, <2>5, <2>6, <2>7, <2>9, <2>10, <2>11, <2>12, DeliversUpdate,
       DeliversInsert DEF Execute
<1> QED
  BY <1>3, <1>4, <1>6, <1>7 DEF Step, Handle, Read

LEMMA AllDeliver == Spec => [](\A r \in Requests : Delivers(r))
<1>1. Init => \A r \in Requests : Delivers(r)
  BY DEF Init, Delivers, Running
<1>2. IInv /\ (\A r \in Requests : Delivers(r)) /\ [Next]_vars => (\A r \in Requests : Delivers(r))'
  <2> SUFFICES ASSUME IInv, \A s \in Requests : Delivers(s), [Next]_vars, NEW s \in Requests
               PROVE  Delivers(s)'
    OBVIOUS
  <2>1. CASE UNCHANGED vars
    BY <2>1 DEF vars, Delivers, Running
  <2>2. CASE Crash
    BY <2>2 DEF Crash, Delivers, Running
  <2>3. ASSUME NEW r \in Requests, Step(r) PROVE Delivers(s)'
    BY <2>3, StepOfOne, DeliversKept, DeliversForOthers
  <2> QED
    BY <2>1, <2>2, <2>3, WhatHappens
<1> QED
  BY <1>1, <1>2, Invariance, PTL DEF Spec

(* A PUT that takes effect gives its group the name and the members of its *)
(* body, whatever ran beside it (groups.service.ts:59-71): no other        *)
(* transaction undoes what it wrote before it commits.                     *)
THEOREM PutsKeepTheirPromise == Spec => PutsAreDelivered
<1> DEFINE A == \A r \in Requests :
                  Commits(r) /\ req[r].kind = "replace" /\ phase'[r] = "finding" /\ tx'[r].committed =>
                    /\ groups'[req[r].id].displayName = req[r].dto.displayName
                    /\ {req[r].id} \X Elements(req[r].dto.members) \subseteq members'
<1>1. IInv /\ (\A r \in Requests : Delivers(r)) /\ [Next]_vars => [A]_vars
  <2> SUFFICES ASSUME IInv, \A s \in Requests : Delivers(s), [Next]_vars, NEW s \in Requests,
                      Commits(s), req[s].kind = "replace", phase'[s] = "finding"
               PROVE  /\ groups'[req[s].id].displayName = req[s].dto.displayName
                      /\ {req[s].id} \X Elements(req[s].dto.members) \subseteq members'
    OBVIOUS
  <2>1. Running(s) /\ ~Running(s)'
    BY DEF Commits
  <2>2. Commit(s)
    <3>1. ~UNCHANGED vars /\ ~Crash
      BY <2>1 DEF vars, Crash, Running
    <3>2. PICK r \in Requests : Step(r)
      BY <3>1, WhatHappens
    <3>3. r = s
      BY <2>1, <3>2, StepOfOne DEF SameFor, Running
    <3>4. /\ phase = [u \in Requests |-> phase[u]] /\ phase[s] = "inTransaction"
      BY <2>1, SlotsAreFunctions DEF Running
    <3>5. \A a : ~Answer(s, a)
      BY <3>4 DEF Answer
    <3>6. phase' # phase
      BY <3>4
    <3>7. CASE Execute(s)
      BY <3>4, <3>5, <3>6, <3>7 DEF Execute, ScanMembers, DeleteMember, EndDelete, UpdateGroup,
         ClaimName, InsertGroup, UpsertMember, InsertMember, ReferGroup, ReferUser, DropRow,
         ClearTable, Deadlock, RollBack, Proceed
    <3>8. ~Parse(s) /\ ~Read(s) /\ ~Respond(s) /\ ~(\E q \in Request : Receive(s, q))
      BY <3>4 DEF Parse, Read, CheckDisplayName, FindGroup, FindMembers, FindUsers, FindUser,
         Respond, Receive
    <3> QED
      BY <3>2, <3>3, <3>7, <3>8 DEF Step, Handle
  <2>3. Writes(s)
    BY <2>2 DEF Commit, Writes
  <2>4. /\ TablesOK /\ tx[s].drops = {} /\ tx[s].group \in issued /\ Running(s)
        /\ GroupFits(s) /\ tx[s].todo = <<>>
    BY <2>3, Committing, SlotsAreFunctions DEF Writes, Writers, Fits
  <2>5. /\ tx[s].row # NoRow /\ tx[s].row.displayName = req[s].dto.displayName
        /\ \A u \in Elements(req[s].dto.members) : <<tx[s].group, u>> \in tx[s].ins
    BY <2>4 DEF Delivers
  <2>6. tx[s].group = req[s].id /\ req[s].id \in GroupIds
    BY <2>4 DEF GroupFits, TablesOK
  <2>7. groups'[req[s].id] = tx[s].row /\ tx[s].ins \subseteq members'
    BY <2>3, <2>4, <2>5, <2>6 DEF Writes
  <2> QED
    BY <2>5, <2>6, <2>7
<1> QED
  BY <1>1, Invariance, AllDeliver, PTL DEF Spec, PutsAreDelivered

-------------------------------------------------------------------------------
(* A wipe that is answered 204. *)

(* Rows only go: none returns, and no id is taken back.                    *)
RowsGo ==
  /\ issued \subseteq issued'
  /\ \A g \in issued : ~Exists(g) => ~Exists(g)'
  /\ liveUsers' \subseteq liveUsers

LEMMA RowsGoAlways ==
  ASSUME IInv, [Next]_vars
  PROVE  RowsGo
<1>1. issued \subseteq issued'
  <2>1. UNCHANGED vars \/ Crash => UNCHANGED tables
    BY DEF vars, Crash, tables
  <2>2. CASE UNCHANGED tables
    BY <2>2 DEF tables
  <2>3. CASE \E r \in Requests : Commit(r)
    BY <2>3 DEF Commit
  <2> QED
    BY <2>1, <2>2, <2>3, WhatHappens, StepOfOne
<1> QED
  BY <1>1, GoneForGood DEF RowsGo

LEMMA RowsShrink ==
  ASSUME IInv, RowsGo, NEW B, B \subseteq issued \cup UserIds
  PROVE  /\ B \subseteq issued' \cup UserIds
         /\ \A id \in B : ~There(id) => ~There(id)'
         /\ \A table \in {"members", "users", "groups"} : B \cap Rows(table)' \subseteq Rows(table)
<1>1. TablesOK
  BY TypesOfSlots DEF IInv
<1>2. \A id \in B : id \in GroupIds => id \in issued
  BY IdsAssumption
<1>3. \A id \in B : ~There(id) => ~There(id)'
  BY <1>1, <1>2 DEF RowsGo, There, Exists
<1>4. B \cap Rows("members")' \subseteq Rows("members")
  BY DEF Rows
<1>5. B \cap Rows("users")' \subseteq Rows("users")
  BY DEF Rows, RowsGo
<1>6. B \cap Rows("groups")' \subseteq Rows("groups")
  BY <1>2 DEF Rows, RowsGo
<1> QED
  BY <1>3, <1>4, <1>5, <1>6 DEF RowsGo

LEMMA WipeStill ==
  ASSUME IInv, RowsGo, NEW r \in Requests, WipeFits(r),
         req'[r] = req[r], phase'[r] = phase[r], answer'[r] = answer[r],
         tx'[r].table = tx[r].table, tx'[r].drops = tx[r].drops, tx'[r].todo = tx[r].todo
  PROVE  WipeFits(r)'
<1>1. tx[r].table \in {"members", "users", "groups"}
  BY SlotsAreFunctions DEF SlotTyped, Tx
<1>2. phase'[r] \in {"idle", "answered"} => tx'[r].table = "members"
  BY DEF WipeFits
<1>3. ASSUME phase[r] # "idle", req[r].kind = "clearData" PROVE Wiping(r)'
  <2>1. Wiping(r)
    BY <1>3 DEF WipeFits
  <2>2. req[r].before \subseteq issued \cup UserIds
    BY <2>1 DEF Wiping
  <2>3. /\ req[r].before \subseteq issued' \cup UserIds
        /\ \A id \in req[r].before : ~There(id) => ~There(id)'
        /\ req[r].before \cap Rows(tx[r].table)' \subseteq Rows(tx[r].table)
    <3> DEFINE B == req[r].before
               t == tx[r].table
    <3>1. B \subseteq issued \cup UserIds
      BY <2>2
    <3>2. /\ B \subseteq issued' \cup UserIds
          /\ \A id \in B : ~There(id) => ~There(id)'
          /\ \A table \in {"members", "users", "groups"} : B \cap Rows(table)' \subseteq Rows(table)
      BY <3>1, RowsShrink
    <3> QED
      BY <1>1, <3>2
  <2>4. (tx[r].table = "groups" => req[r].before \cap liveUsers = {})'
    BY <2>1 DEF Wiping, RowsGo
  <2>5. ASSUME Running(r)', NEW id \in (req[r].before \cap Rows(tx[r].table))'
        PROVE  Dropping(tx[r], id)'
    <3>1. Running(r) /\ id \in req[r].before \cap Rows(tx[r].table)
      BY <2>3, <2>5 DEF Running
    <3>2. Dropping(tx[r], id)
      BY <2>1, <3>1 DEF Wiping
    <3> QED
      BY <3>2 DEF Dropping
  <2>6. (answer[r] = Success(204, NoBody) => \A id \in req[r].before : ~There(id))'
    BY <2>1, <2>3 DEF Wiping
  <2> QED
    BY <2>3, <2>4, <2>5, <2>6 DEF Wiping
<1> QED
  BY <1>2, <1>3 DEF WipeFits

LEMMA WipesForOthers ==
  ASSUME IInv, RowsGo, NEW r \in Requests, NEW s \in Requests, SameFor(s, r), WipeFits(s)
  PROVE  WipeFits(s)'
<1>1. tx[s] \in Tx
  BY SlotsAreFunctions DEF SlotTyped
<1>2. /\ req'[s] = req[s] /\ phase'[s] = phase[s] /\ answer'[s] = answer[s]
      /\ tx'[s].table = tx[s].table /\ tx'[s].drops = tx[s].drops /\ tx'[s].todo = tx[s].todo
  BY <1>1 DEF SameFor, Tx
<1> QED
  BY <1>2, WipeStill

LEMMA FailuresAreNo204 ==
  ASSUME NEW e \in {"ConflictException", "NotFoundException", "TypeError", "P2002", "P2003",
                    "P2025", "P2034", "PrismaClientValidationError",
                    "PrismaClientUnknownRequestError"}
  PROVE  Failure(e) # Success(204, NoBody)
BY DEF Failure, Success, ToScimError, HttpExceptions, PrismaErrors, InternalServerError

LEMMA NoAnswerIsNo204 == NoAnswer # Success(204, NoBody)
BY SuccessTyped, SentinelsAssumption

(* A wipe that fails promises nothing.                                     *)
LEMMA WipeAnswered ==
  ASSUME IInv, RowsGo, NEW r \in Requests, WipeFits(r), phase[r] # "idle",
         NEW a, Answer(r, a), a # Success(204, NoBody)
  PROVE  WipeFits(r)'
<1>1. /\ phase'[r] = "answered" /\ answer'[r] = a /\ req'[r] = req[r] /\ tx'[r] = NoTx
  BY SlotsAreFunctions DEF Answer
<1>2. tx'[r].table = "members" /\ ~Running(r)'
  BY <1>1 DEF NoTx, Running
<1>3. ASSUME req[r].kind = "clearData" PROVE Wiping(r)'
  <2>1. req[r].before \subseteq issued \cup UserIds
    BY <1>3 DEF WipeFits, Wiping
  <2> QED
    BY <1>1, <1>2, <2>1 DEF Wiping, RowsGo
<1> QED
  BY <1>1, <1>2, <1>3 DEF WipeFits

(* Steps of requests that wipe nothing.                                    *)
LEMMA NoWipe ==
  ASSUME NEW r \in Requests, WipeFits(r), req'[r] = req[r], req[r].kind # "clearData",
         phase'[r] \in {"idle", "answered"} => tx'[r].table = "members"
  PROVE  WipeFits(r)'
BY DEF WipeFits

LEMMA WipeBegins ==
  ASSUME IInv, NEW r \in Requests, WipeFits(r), NEW q \in Request, Receive(r, q)
  PROVE  WipeFits(r)'
<1>1. /\ phase[r] = "idle" /\ tx' = tx /\ answer' = answer /\ req'[r] = q
      /\ groups' = groups /\ liveUsers' = liveUsers /\ issued' = issued
      /\ phase'[r] \notin {"idle", "answered", "inTransaction"}
      /\ q.kind = "clearData" => q.before = {id \in GroupIds \cup UserIds : There(id)}
  BY SlotsAreFunctions DEF Receive, tables
<1>2. tx[r].table = "members" /\ answer[r] = NoAnswer
  BY <1>1, SlotsAreFunctions DEF WipeFits, SlotTyped, SlotOK
<1>3. ASSUME q.kind = "clearData" PROVE Wiping(r)'
  <2>1. TablesOK
    BY TypesOfSlots DEF IInv
  <2>2. q.before \subseteq issued \cup UserIds
    BY <1>1, <1>3, <2>1 DEF TablesOK, There, Exists
  <2> QED
    BY <1>1, <1>2, <2>2, NoAnswerIsNo204 DEF Wiping, Running
<1> QED
  BY <1>1, <1>2, <1>3 DEF WipeFits

(* ClearTable is about to drop all rows of its table.                      *)
LEMMA WipeScans ==
  ASSUME IInv, NEW r \in Requests, WipeFits(r), ClearTable(r)
  PROVE  WipeFits(r)'
<1>1. PICK todo : /\ tx' = [tx EXCEPT ![r].todo = todo]
                  /\ StatementsFit(req[r], todo)
                  /\ \A id \in Rows(tx[r].table) :
                       \E i \in DOMAIN todo : todo[i].do = "drop" /\ todo[i].id = id
  BY ClearTableFits
<1>2. /\ req[r].kind = "clearData" /\ phase[r] = "clearing" /\ tx[r] \in Tx
      /\ answer[r] = NoAnswer
  BY ClearTableFits, SlotsAreFunctions DEF SlotTyped, SlotOK
<1>3. /\ groups' = groups /\ liveUsers' = liveUsers /\ issued' = issued
      /\ req'[r] = req[r] /\ answer'[r] = answer[r] /\ phase'[r] = "inTransaction"
  BY SlotsAreFunctions DEF ClearTable, Await, tables
<1>4. tx'[r].todo = todo /\ tx'[r].table = tx[r].table
  BY <1>1, <1>2, SlotsAreFunctions DEF Tx
<1>5. /\ req[r].before \subseteq issued \cup UserIds
      /\ tx[r].table = "groups" => req[r].before \cap liveUsers = {}
  BY <1>2 DEF WipeFits, Wiping
<1>6. Rows(tx[r].table)' = Rows(tx[r].table)
  BY <1>3, <1>4 DEF Rows, Exists
<1>7. ASSUME NEW id \in (req[r].before \cap Rows(tx[r].table))'
      PROVE  Dropping(tx[r], id)'
  BY <1>1, <1>4, <1>6, <1>7 DEF Dropping
<1>8. Wiping(r)'
  BY <1>2, <1>3, <1>4, <1>5, <1>7, NoAnswerIsNo204 DEF Wiping
<1> QED
  BY <1>3, <1>8 DEF WipeFits

(* A statement is done: what it was to drop is dropped, or was gone.       *)
LEMMA WipeDrops ==
  ASSUME IInv, NEW r \in Requests, WipeFits(r), req[r].kind = "clearData",
         Running(r), tx[r].todo # <<>>,
         NEW new, Proceed(r, new), new \in Tx, new.todo = tx[r].todo, new.table = tx[r].table,
         tx[r].drops \subseteq new.drops,
         Current(r).do = "drop" => Current(r).id \in new.drops \/ ~There(Current(r).id)
  PROVE  WipeFits(r)'
<1> DEFINE n == [new EXCEPT !.todo = Tail(tx[r].todo)]
<1>1. /\ tx'[r] = n /\ req'[r] = req[r] /\ answer'[r] = answer[r] /\ phase'[r] = phase[r]
      /\ groups' = groups /\ liveUsers' = liveUsers /\ issued' = issued
  BY SlotsAreFunctions DEF Proceed, tables
<1>2. n.todo = Tail(tx[r].todo) /\ n.table = tx[r].table /\ n.drops = new.drops
  BY DEF Tx
<1>3. tx[r].todo \in Seq(StatementOf) /\ Current(r) = tx[r].todo[1]
  BY Executing
<1> HIDE DEF n
<1>4. Continues(req[r], tx[r].todo, n.todo, -1)
  BY <1>2, <1>3, DoneContinues
<1>5. Wiping(r) /\ phase[r] = "inTransaction" /\ answer[r] = NoAnswer
  BY SlotsAreFunctions DEF WipeFits, Running, SlotTyped, SlotOK
<1>6. Rows(tx[r].table)' = Rows(tx[r].table)
  BY <1>1, <1>2 DEF Rows, Exists
<1>7. ASSUME NEW id \in req[r].before \cap Rows(tx[r].table)
      PROVE  Dropping(n, id)
  <2>1. Dropping(tx[r], id)
    BY <1>5 DEF Wiping
  <2>2. CASE id \in tx[r].drops
    BY <1>2, <2>2 DEF Dropping
  <2>3. ASSUME NEW i \in DOMAIN tx[r].todo, tx[r].todo[i].do = "drop", tx[r].todo[i].id = id
        PROVE  Dropping(n, id)
    <3>1. CASE i = 1
      <4>1. tx[r].table \in {"members", "users", "groups"}
        BY SlotsAreFunctions DEF SlotTyped, Tx
      <4>2. There(id)
        BY <4>1 DEF Rows, There, Exists
      <4> QED
        BY <1>2, <1>3, <2>3, <3>1, <4>2 DEF Dropping
    <3>2. CASE i # 1
      <4>1. i > 1
        BY <1>3, <3>2
      <4>2. i + (-1) \in DOMAIN n.todo /\ n.todo[i + (-1)] = tx[r].todo[i]
        BY <1>4, <4>1 DEF Continues
      <4> QED
        BY <2>3, <4>2 DEF Dropping
    <3> QED
      BY <3>1, <3>2
  <2> QED
    BY <2>1, <2>2, <2>3 DEF Dropping
<1>8. ASSUME NEW id \in (req[r].before \cap Rows(tx[r].table))'
      PROVE  Dropping(tx[r], id)'
  <2>1. Dropping(n, id)
    BY <1>1, <1>6, <1>7
  <2> QED
    BY <1>1, <2>1 DEF Dropping
<1>9. Wiping(r)'
  BY <1>1, <1>2, <1>5, <1>8, NoAnswerIsNo204 DEF Wiping
<1> QED
  BY <1>1, <1>5, <1>9 DEF WipeFits

(* A table is done: the wipe goes on to the next, or is answered.          *)
LEMMA WipeCommits ==
  ASSUME IInv, RowsGo, NEW r \in Requests, WipeFits(r), req[r].kind = "clearData", Commit(r)
  PROVE  WipeFits(r)'
<1> DEFINE t == tx[r]
           B == req[r].before
<1>1. Running(r) /\ t.todo = <<>> /\ phase[r] = "inTransaction" /\ req'[r] = req[r]
  BY DEF Commit, Running
<1>2. /\ t \in Tx /\ TablesOK /\ t.row = NoRow /\ answer[r] = NoAnswer
  BY <1>1, Committing, SlotsAreFunctions DEF Droppers, SlotTyped, SlotOK
<1>3. Wiping(r)
  BY <1>1 DEF WipeFits
<1>4. B \cap Rows(t.table) \subseteq t.drops
  BY <1>1, <1>3 DEF Wiping, Dropping
<1>5. /\ liveUsers' = liveUsers \ t.drops
      /\ groups' = [g \in GroupIds |-> IF g \in t.drops THEN Absent ELSE groups[g]]
  BY <1>2 DEF Commit
<1>6. Cleared(r)
  BY DEF Commit
<1>7. B \subseteq issued \cup UserIds /\ B \subseteq issued' \cup UserIds
  BY <1>3 DEF Wiping, RowsGo
<1>8. CASE /\ t.table # LastTable
           /\ Forget(r, [NoTx EXCEPT !.table = TableAfter[t.table]])
           /\ phase' = [phase EXCEPT ![r] = "clearing"]
           /\ UNCHANGED answer
  <2>1. t.table \in {"members", "users"}
    BY <1>2, <1>8 DEF Tx, LastTable
  <2>2. tx'[r].table = IF t.table = "members" THEN "users" ELSE "groups"
    BY <1>8, <2>1 DEF Forget, NoTx, TableAfter
  <2>3. phase'[r] = "clearing" /\ ~Running(r)' /\ answer'[r] = NoAnswer
    BY <1>2, <1>8, SlotsAreFunctions DEF Running
  <2>4. tx'[r].table = "groups" => B \cap liveUsers' = {}
    BY <1>4, <1>5, <2>1, <2>2 DEF Rows
  <2>5. Wiping(r)'
    BY <1>1, <1>7, <2>3, <2>4, NoAnswerIsNo204 DEF Wiping
  <2> QED
    BY <2>3, <2>5 DEF WipeFits
<1>9. CASE /\ t.table = LastTable
           /\ Forget(r, NoTx)
           /\ phase'  = [phase EXCEPT ![r] = "answered"]
           /\ answer' = [answer EXCEPT ![r] = Success(204, NoBody)]
  <2>1. t.table = "groups"
    BY <1>9 DEF LastTable
  <2>2. tx'[r].table = "members" /\ phase'[r] = "answered" /\ ~Running(r)'
    BY <1>1, <1>9, SlotsAreFunctions DEF Forget, NoTx, Running
  <2>3. ASSUME NEW id \in B PROVE ~There(id)'
    <3>1. id \notin liveUsers'
      BY <1>3, <1>5, <2>1 DEF Wiping
    <3>2. ASSUME id \in GroupIds PROVE groups'[id] = Absent
      <4>1. CASE Exists(id)
        BY <1>4, <1>5, <2>1, <3>2, <4>1 DEF Rows
      <4>2. CASE ~Exists(id)
        BY <1>5, <3>2, <4>2 DEF Exists
      <4> QED
        BY <4>1, <4>2
    <3> QED
      BY <3>1, <3>2 DEF There
  <2>4. Wiping(r)'
    BY <1>1, <1>7, <2>2, <2>3 DEF Wiping
  <2> QED
    BY <2>2, <2>4 DEF WipeFits
<1> QED
  BY <1>6, <1>8, <1>9 DEF Cleared

(* A handler keeps its request, and ends its transaction when it answers.  *)
LEMMA HandledSlot ==
  ASSUME IInv, NEW r \in Requests, Handle(r)
  PROVE  /\ phase[r] # "idle" /\ req'[r] = req[r] /\ phase'[r] # "idle"
         /\ phase'[r] = "answered" => tx'[r] = NoTx
         /\ Deadlock(r) => Running(r)
<1> /\ req = [s \in Requests |-> req[s]] /\ phase = [s \in Requests |-> phase[s]]
    /\ tx = [s \in Requests |-> tx[s]]
  BY SlotsAreFunctions
<1>1. ASSUME NEW a, Answer(r, a), phase[r] # "idle"
      PROVE  req'[r] = req[r] /\ phase'[r] # "idle" /\ tx'[r] = NoTx
  BY <1>1 DEF Answer
<1>2. ASSUME NEW p \in {"finding", "findingMembers", "findingUsers", "inTransaction"}, Await(r, p)
      PROVE  req'[r] = req[r] /\ phase'[r] \notin {"idle", "answered"}
  BY <1>2 DEF Await
<1>3. ASSUME UNCHANGED <<req, phase, answer>>, Running(r)
      PROVE  req'[r] = req[r] /\ phase'[r] \notin {"idle", "answered"} /\ phase[r] # "idle"
  BY <1>3 DEF Running
<1>4. Deadlock(r) => Running(r)
  <2> SUFFICES ASSUME Deadlock(r) PROVE Running(r)
    OBVIOUS
  <2>1. PICK C \in SUBSET Requests : r \in C /\ \A a \in C : WaitsFor(a) \cap C # {}
    BY DEF Deadlock, InDeadlock
  <2> QED
    BY <2>1 DEF WaitsFor
<1>5. ASSUME NEW e, RollBack(r, e), Running(r)
      PROVE  /\ phase[r] # "idle" /\ req'[r] = req[r] /\ phase'[r] # "idle" /\ tx'[r] = NoTx
  BY <1>1, <1>5 DEF RollBack, Running
<1>6. CASE Parse(r) \/ CheckDisplayName(r) \/ FindGroup(r) \/ FindUser(r) \/ ClearTable(r)
  <2>1. phase[r] \notin {"idle", "inTransaction"}
    BY <1>6 DEF Parse, CheckDisplayName, RefuseMalformed, FindGroup, FindUser, ClearTable
  <2> QED
    BY <1>1, <1>2, <1>4, <1>6, <2>1 DEF Parse, CheckDisplayName, RefuseMalformed, FindGroup, FindUser, ClearTable,
       Running
<1>7. CASE FindMembers(r) \/ FindUsers(r)
  <2>1. phase[r] \notin {"idle", "inTransaction"}
    BY <1>7 DEF FindMembers, FindUsers
  <2> QED
    BY <1>1, <1>2, <1>4, <1>7, <2>1 DEF FindMembers, FindUsers, Found, RefuseMalformed, Running
<1>8. CASE ScanMembers(r) \/ DeleteMember(r) \/ EndDelete(r) \/ UpsertMember(r)
  BY <1>3, <1>8 DEF ScanMembers, DeleteMember, EndDelete, UpsertMember, Proceed, Doing
<1>9. CASE UpdateGroup(r) \/ ClaimName(r) \/ InsertGroup(r)
  BY <1>3, <1>5, <1>9 DEF UpdateGroup, ClaimName, InsertGroup, Proceed, Doing
<1>10. CASE InsertMember(r) \/ ReferGroup(r) \/ ReferUser(r) \/ DropRow(r)
  BY <1>3, <1>5, <1>10 DEF InsertMember, ReferGroup, ReferUser, DropRow, Proceed, Doing
<1>11. CASE Deadlock(r)
  BY <1>4, <1>5, <1>11 DEF Deadlock
<1>12. CASE Commit(r)
  BY <1>12 DEF Commit, Cleared, Forget, Running
<1> QED
  BY <1>6, <1>7, <1>8, <1>9, <1>10, <1>11, <1>12 DEF Handle, Read, Execute

LEMMA WipeKept ==
  ASSUME IInv, RowsGo, NEW r \in Requests, WipeFits(r), Step(r)
  PROVE  WipeFits(r)'
<1> /\ req = [s \in Requests |-> req[s]] /\ phase = [s \in Requests |-> phase[s]]
    /\ answer = [s \in Requests |-> answer[s]] /\ tx = [s \in Requests |-> tx[s]]
    /\ PhaseFits(r) /\ tx[r] \in Tx
  BY SlotsAreFunctions DEF Fits, SlotTyped
<1>1. CASE \E q \in Request : Receive(r, q)
  BY <1>1, WipeBegins
<1>2. CASE Respond(r)
  <2>1. phase'[r] = "idle" /\ tx'[r].table = "members"
    BY <1>2 DEF Respond, WipeFits
  <2> QED
    BY <2>1 DEF WipeFits
<1>3. ASSUME NEW e \in {"P2002", "P2003", "P2025", "P2034"}, RollBack(r, e), Running(r)
      PROVE  WipeFits(r)'
  BY <1>3, FailuresAreNo204, WipeAnswered DEF RollBack, Running
<1>4. ASSUME req[r].kind # "clearData", phase[r] # "idle", Handle(r) PROVE WipeFits(r)'
  <2>1. req'[r] = req[r]
    BY <1>4, HandledSlot
  <2>2. phase'[r] \in {"idle", "answered"} => tx'[r].table = "members"
    BY <1>4, HandledSlot DEF NoTx
  <2> QED
    BY <1>4, <2>1, <2>2, NoWipe
<1>5. CASE req[r].kind = "clearData" /\ phase[r] # "idle" /\ Handle(r)
  <2>1. ~Parse(r) /\ ~Read(r)
    BY <1>5 DEF PhaseFits, Parse, Read, CheckDisplayName, FindGroup, FindMembers, FindUsers, FindUser
  <2>2. CASE Commit(r)
    BY <1>5, <2>2, WipeCommits
  <2>3. CASE ClearTable(r)
    BY <2>3, WipeScans
  <2>4. CASE Deadlock(r)
    <3>1. Running(r)
      BY <1>5, <2>4, HandledSlot
    <3> QED
      BY <1>3, <2>4, <3>1 DEF Deadlock
  <2>5. CASE Running(r) /\ tx[r].todo # <<>> /\ ~Commit(r) /\ ~ClearTable(r) /\ ~Deadlock(r)
    <3>1. Current(r).do \in {"drop", "delete"}
      BY <1>5, <2>5, Executing DEF MayDo
    <3>2. CASE ScanMembers(r)
      <4>1. /\ tx'[r].table = tx[r].table /\ tx'[r].drops = tx[r].drops /\ tx'[r].todo = tx[r].todo
            /\ req'[r] = req[r] /\ phase'[r] = phase[r] /\ answer'[r] = answer[r]
        BY <3>2 DEF ScanMembers, Tx
      <4> QED
        BY <4>1, WipeStill
    <3>3. CASE DeleteMember(r)
      <4>1. /\ tx'[r].table = tx[r].table /\ tx'[r].drops = tx[r].drops /\ tx'[r].todo = tx[r].todo
            /\ req'[r] = req[r] /\ phase'[r] = phase[r] /\ answer'[r] = answer[r]
        BY <3>3 DEF DeleteMember, Tx
      <4> QED
        BY <4>1, WipeStill
    <3>4. CASE EndDelete(r)
      <4> DEFINE new == [tx[r] EXCEPT !.scanning = FALSE]
      <4>1. /\ new \in Tx /\ new.todo = tx[r].todo /\ new.table = tx[r].table
            /\ new.drops = tx[r].drops
        BY DEF Tx
      <4>2. Proceed(r, new) /\ Current(r).do = "delete"
        BY <3>4 DEF EndDelete, Doing
      <4> HIDE DEF new
      <4> QED
        BY <1>5, <2>5, <4>1, <4>2, WipeDrops
    <3>5. CASE DropRow(r)
      <4> DEFINE new == [tx[r] EXCEPT !.drops = @ \cup {Current(r).id}]
      <4>1. Current(r).do = "drop" /\ Current(r).id \in GroupIds \cup UserIds
        BY <2>5, <3>5, Executing DEF DropRow, Doing, StatementOf
      <4>2. /\ new \in Tx /\ new.todo = tx[r].todo /\ new.table = tx[r].table
            /\ new.drops = tx[r].drops \cup {Current(r).id}
        BY <4>1 DEF Tx
      <4>3. \/ RollBack(r, "P2025")
            \/ Proceed(r, tx[r]) /\ ~There(Current(r).id)
            \/ Proceed(r, new)
        BY <3>5 DEF DropRow
      <4> HIDE DEF new
      <4>4. CASE RollBack(r, "P2025")
        BY <1>3, <2>5, <4>4
      <4>5. CASE Proceed(r, tx[r]) /\ ~There(Current(r).id)
        BY <1>5, <2>5, <4>5, WipeDrops
      <4>6. CASE Proceed(r, new)
        BY <1>5, <2>5, <4>2, <4>6, WipeDrops
      <4> QED
        BY <4>3, <4>4, <4>5, <4>6
    <3> QED
      BY <1>5, <2>1, <2>5, <3>1, <3>2, <3>3, <3>4, <3>5 DEF Handle, Execute, UpdateGroup,
         ClaimName, InsertGroup, UpsertMember, InsertMember, ReferGroup, ReferUser, Doing
  <2>6. Execute(r) /\ ~Commit(r) /\ ~ClearTable(r) /\ ~Deadlock(r) => Running(r) /\ tx[r].todo # <<>>
    BY DEF Execute, ScanMembers, DeleteMember, EndDelete, UpdateGroup, ClaimName, InsertGroup,
       UpsertMember, InsertMember, ReferGroup, ReferUser, DropRow, Doing
  <2> QED
    BY <1>5, <2>1, <2>2, <2>3, <2>4, <2>5, <2>6 DEF Handle
<1>6. Handle(r) => phase[r] # "idle"
  BY HandledSlot
<1> QED
  BY <1>1, <1>2, <1>4, <1>5, <1>6 DEF Step

LEMMA AllWipesFit == Spec => [](\A r \in Requests : WipeFits(r))
<1>1. Init => \A r \in Requests : WipeFits(r)
  BY DEF Init, WipeFits, NoTx
<1>2. IInv /\ (\A r \in Requests : WipeFits(r)) /\ [Next]_vars => (\A r \in Requests : WipeFits(r))'
  <2> SUFFICES ASSUME IInv, \A s \in Requests : WipeFits(s), [Next]_vars, NEW s \in Requests
               PROVE  WipeFits(s)'
    OBVIOUS
  <2>1. RowsGo
    BY RowsGoAlways
  <2>2. CASE UNCHANGED vars
    BY <2>1, <2>2, WipeStill DEF vars
  <2>3. CASE Crash
    BY <2>3 DEF Crash, WipeFits, NoTx
  <2>4. ASSUME NEW r \in Requests, Step(r) PROVE WipeFits(s)'
    BY <2>1, <2>4, StepOfOne, WipeKept, WipesForOthers
  <2> QED
    BY <2>2, <2>3, <2>4, WhatHappens
<1> QED
  BY <1>1, <1>2, Invariance, PTL DEF Spec

(* A wipe that is answered 204 has left nothing of what was there when it  *)
(* was asked for, although its three statements share no transaction and   *)
(* others commit between them (demo.controller.ts:93-101): what a table    *)
(* loses never comes back, and what is left of it is dropped or going.     *)
THEOREM WipesLeaveNothing == Spec => WipesAreWhole
<1> DEFINE A == \A r \in Requests :
                  /\ phase[r] # "idle"
                  /\ req[r].kind = "clearData"
                  /\ answer'[r] = Success(204, NoBody)
                  => /\ \A id \in req[r].before : ~There(id)'
                     /\ \A p \in members' : p[1] \notin req[r].before /\ p[2] \notin req[r].before
<1>1. IInv /\ IInv' /\ (\A r \in Requests : WipeFits(r))' /\ [Next]_vars => [A]_vars
  <2> SUFFICES ASSUME IInv, IInv', (\A s \in Requests : WipeFits(s))', [Next]_vars,
                      NEW s \in Requests, phase[s] # "idle", req[s].kind = "clearData",
                      answer'[s] = Success(204, NoBody)
               PROVE  /\ \A id \in req[s].before : ~There(id)'
                      /\ \A p \in members' : p[1] \notin req[s].before /\ p[2] \notin req[s].before
    OBVIOUS
  <2>1. phase'[s] = "answered"
    <3>1. TypeOK'
      BY DEF IInv
    <3>2. SlotOK(s)'
      BY <3>1 DEF TypeOK
    <3> QED
      BY <3>2, NoAnswerIsNo204 DEF SlotOK
  <2>2. req'[s] = req[s]
    <3>1. CASE UNCHANGED vars
      BY <3>1 DEF vars
    <3>2. ~Crash
      BY <2>1 DEF Crash
    <3>3. ASSUME NEW r \in Requests, Step(r) PROVE req'[s] = req[s]
      <4>1. CASE r # s
        BY <3>3, <4>1, StepOfOne DEF SameFor
      <4>2. CASE r = s
        <5>1. ~Respond(s)
          BY <2>1, SlotsAreFunctions DEF Respond
        <5>2. ~(\E q \in Request : Receive(s, q))
          BY DEF Receive
        <5> QED
          BY <3>3, <4>2, <5>1, <5>2, HandledSlot DEF Step
      <4> QED
        BY <4>1, <4>2
    <3> QED
      BY <3>1, <3>2, <3>3, WhatHappens
  <2>3. Wiping(s)'
    BY <2>1, <2>2 DEF WipeFits
  <2>4. \A id \in req[s].before : ~There(id)'
    BY <2>2, <2>3 DEF Wiping
  <2>5. \A p \in members' : p[1] \in GroupIds /\ There(p[1])' /\ There(p[2])'
    <3>1. NoDanglingMembers' /\ members' \subseteq Memberships
      BY DEF IInv, TypeOK
    <3> QED
      BY <3>1 DEF NoDanglingMembers, Memberships, There, Exists
  <2> QED
    BY <2>4, <2>5
<1> QED
  BY <1>1, Invariance, AllWipesFit, PTL DEF Spec, WipesAreWhole

-------------------------------------------------------------------------------
(* Memberships. *)

(* What the statements of a request may take away, and whom they may add.  *)
Takes(q, p) == MayRemove(q, p) \/ (q.kind = "replace" /\ q.id = p[1])

Gives(q, u) ==
  \/ q.kind \in {"create", "replace"} /\ u \in Elements(q.dto.members)
  \/ q.kind = "patch" /\ \E i \in DOMAIN q.body : u \in Adds(q.body[i])

AskedFor(q, c) ==
  /\ c.do = "delete" => \A p \in c.pairs : Takes(q, p)
  /\ c.do \in {"insert", "upsert"} => Gives(q, c.user)

(* Whatever a transaction has written or will write, its request says.     *)
Grounded(r) ==
  Running(r) =>
    /\ \A i \in DOMAIN tx[r].todo : AskedFor(req[r], tx[r].todo[i])
    /\ \A p \in tx[r].targets \cup tx[r].del : Takes(req[r], p)
    /\ \A p \in tx[r].ins : Gives(req[r], p[2])

LEMMA InsertsAskedFor ==
  ASSUME NEW q \in Request, q.kind \in {"create", "replace"}, ~Malformed(q)
  PROVE  /\ Inserts(q.dto) \in Seq(StatementOf)
         /\ \A i \in DOMAIN Inserts(q.dto) : AskedFor(q, Inserts(q.dto)[i])
<1>1. q.dto \in GroupDto /\ Null \notin Elements(q.dto.members)
  BY GroupDtosAssumption DEF Request, Malformed
<1> DEFINE t == Inserts(q.dto)
           m == q.dto.members
<1>2. t \in Seq(StatementOf) /\ DOMAIN t = DOMAIN m /\ \A i \in DOMAIN t : t[i] = Insert(m[i])
  BY <1>1, InsertsOf
<1>3. \A i \in DOMAIN m : Gives(q, m[i])
  BY DEF Gives, Elements
<1> HIDE DEF t, m
<1>4. \A i \in DOMAIN t : AskedFor(q, t[i])
  BY <1>2, <1>3 DEF AskedFor, Insert
<1> QED
  BY <1>2, <1>4 DEF t

LEMMA PatchAskedFor ==
  ASSUME NEW q \in Request, q.kind = "patch",
         PatchResult[q.body] # Thrown, ~Malformed(q)
  PROVE  \A i \in DOMAIN Statements(q) : AskedFor(q, Statements(q)[i])
<1> DEFINE p == PatchResult[q.body]
           a == IF p.displayName # Undefined \/ p.externalId # Undefined
                THEN <<Update(p.displayName, p.externalId)>> ELSE <<>>
           b == [i \in DOMAIN p.removeMemberIds |-> Removal(q.id, Matching(p.removeMemberIds[i]))]
           c == [i \in DOMAIN p.addMemberIds |-> Upsert(Contents(p.addMemberIds[i]))]
<1>1. /\ q.id \in GroupIds /\ q.body \in PatchBodies /\ q.body \in Seq(OrNull(GroupOperation))
      /\ p = ApplyGroupPatch(q.body)
  BY PatchBodiesAssumption DEF Request, PatchResult
<1>2. p \in GroupPatchResult /\ PrismaAccepts(p)
  BY <1>1, PatchedIds DEF Malformed
<1>3. /\ \A u \in RemovedIds(p) : u \in MemberIds /\ \E i \in DOMAIN q.body : u \in Removes(q.body[i])
      /\ \A u \in AddedIds(p) : u \in MemberIds /\ \E i \in DOMAIN q.body : u \in Adds(q.body[i])
  <2>1. DOMAIN q.body = 1..Len(q.body)
    BY <1>1
  <2>2. /\ RemovedIds(p) = RemovedBy(q.body, Len(q.body))
        /\ AddedIds(p) = AddedBy(q.body, Len(q.body))
    BY <1>1, PatchAsks
  <2> QED
    BY <2>1, <2>2 DEF RemovedBy, AddedBy, Removes, Adds
<1> HIDE DEF p
<1>4. /\ DOMAIN p.removeMemberIds = 1..Len(p.removeMemberIds) /\ Len(p.removeMemberIds) \in Nat
      /\ DOMAIN p.addMemberIds = 1..Len(p.addMemberIds) /\ Len(p.addMemberIds) \in Nat
  BY <1>2 DEF GroupPatchResult
<1>5. a \in Seq(StatementOf) /\ \A i \in DOMAIN a : AskedFor(q, a[i])
  <2>1. Update(p.displayName, p.externalId) \in StatementOf
    BY <1>2, StatementTypes DEF GroupPatchResult
  <2>2. AskedFor(q, Update(p.displayName, p.externalId))
    BY DEF Update, AskedFor
  <2> QED
    BY <2>1, <2>2
<1>6. b \in Seq(StatementOf) /\ \A i \in DOMAIN b : AskedFor(q, b[i])
  <2>1. ASSUME NEW v \in Elements(p.removeMemberIds)
        PROVE  Removal(q.id, Matching(v)) \in StatementOf /\ AskedFor(q, Removal(q.id, Matching(v)))
    <3> DEFINE us == Matching(v)
    <3>1. \A u \in us : u \in RemovedIds(p)
      BY DEF RemovedIds
    <3> HIDE DEF us
    <3>2. us \subseteq MemberIds /\ \A u \in us : Takes(q, <<q.id, u>>)
      BY <1>3, <3>1 DEF Takes, MayRemove
    <3>3. Removal(q.id, us) = Delete({q.id} \X us) /\ {q.id} \X us \in SUBSET Memberships
      BY <1>1, <3>2 DEF Removal, Memberships
    <3>4. \A x \in {q.id} \X us : Takes(q, x)
      BY <3>2
    <3>5. Removal(q.id, us) \in StatementOf /\ AskedFor(q, Removal(q.id, us))
      BY <3>3, <3>4, StatementTypes DEF Delete, AskedFor
    <3> QED
      BY <3>5 DEF us
  <2>2. \A i \in DOMAIN p.removeMemberIds : p.removeMemberIds[i] \in Elements(p.removeMemberIds)
    BY DEF Elements
  <2>3. b \in [DOMAIN p.removeMemberIds -> StatementOf]
    BY <2>1, <2>2
  <2>4. p.removeMemberIds \in Seq(Json)
    BY <1>2 DEF GroupPatchResult
  <2>5. b \in Seq(StatementOf)
    BY <2>3, <2>4, AlongSequence
  <2> QED
    BY <2>1, <2>2, <2>5
<1>7. c \in Seq(StatementOf) /\ \A i \in DOMAIN c : AskedFor(q, c[i])
  <2>1. ASSUME NEW v \in Elements(p.addMemberIds)
        PROVE  Upsert(Contents(v)) \in StatementOf /\ AskedFor(q, Upsert(Contents(v)))
    <3>1. Contents(v) \in AddedIds(p)
      BY <1>2 DEF PrismaAccepts, AddedIds, Contents
    <3>2. Contents(v) \in MemberIds /\ Gives(q, Contents(v))
      BY <1>3, <3>1 DEF Gives
    <3> QED
      BY <3>2, StatementTypes DEF Upsert, AskedFor
  <2>2. \A i \in DOMAIN p.addMemberIds : p.addMemberIds[i] \in Elements(p.addMemberIds)
    BY DEF Elements
  <2>3. c \in [DOMAIN p.addMemberIds -> StatementOf]
    BY <2>1, <2>2
  <2>4. p.addMemberIds \in Seq(Json)
    BY <1>2 DEF GroupPatchResult
  <2>5. c \in Seq(StatementOf)
    BY <2>3, <2>4, AlongSequence
  <2> QED
    BY <2>1, <2>2, <2>5
<1>8. Statements(q) = a \o b \o c
  BY DEF Statements, PatchStatements, p
<1> HIDE DEF a, b, c
<1>9. a \o b \in Seq(StatementOf) /\ \A i \in DOMAIN (a \o b) : AskedFor(q, (a \o b)[i])
  BY <1>5, <1>6, ConcatOf
<1> QED
  BY <1>7, <1>8, <1>9, ConcatOf

LEMMA AllAskedFor ==
  ASSUME NEW q, NEW d \in StatementOf, AskedFor(q, d)
  PROVE  /\ <<d>> \in Seq(StatementOf)
         /\ \A i \in DOMAIN <<d>> : AskedFor(q, <<d>>[i])
         /\ \A u \in StatementOf : AskedFor(q, u) =>
              /\ <<d, u>> \in Seq(StatementOf)
              /\ \A i \in DOMAIN <<d, u>> : AskedFor(q, <<d, u>>[i])
OBVIOUS

LEMMA StatementsAskedFor ==
  ASSUME NEW q \in Request, q.kind \in Writers \cup {"remove", "removeUser"},
         ~Malformed(q), q.kind = "patch" => PatchResult[q.body] # Thrown
  PROVE  \A i \in DOMAIN Statements(q) : AskedFor(q, Statements(q)[i])
<1>1. CASE q.kind = "create"
  <2> DEFINE t == Inserts(q.dto)
             h == <<Statement("insertGroup")>>
  <2>1. t \in Seq(StatementOf) /\ \A i \in DOMAIN t : AskedFor(q, t[i])
    BY <1>1, InsertsAskedFor
  <2>2. h \in Seq(StatementOf) /\ \A i \in DOMAIN h : AskedFor(q, h[i])
    BY StatementTypes DEF Statement, AskedFor
  <2>3. Statements(q) = h \o t
    BY <1>1 DEF Statements
  <2> HIDE DEF h, t
  <2> QED
    BY <2>1, <2>2, <2>3, ConcatOf
<1>2. CASE q.kind = "replace"
  <2> DEFINE t == Inserts(q.dto)
             h == <<Delete({q.id} \X MemberIds), Update(q.dto.displayName, q.dto.externalId)>>
  <2>1. t \in Seq(StatementOf) /\ \A i \in DOMAIN t : AskedFor(q, t[i])
    BY <1>2, InsertsAskedFor
  <2>2. h \in Seq(StatementOf) /\ \A i \in DOMAIN h : AskedFor(q, h[i])
    <3>1. q.dto \in GroupDto /\ q.id \in GroupIds
      BY <1>2, GroupDtosAssumption DEF Request
    <3>2. {q.id} \X MemberIds \in SUBSET Memberships
      BY <3>1 DEF Memberships
    <3>3. Delete({q.id} \X MemberIds) \in StatementOf
      BY <3>2, StatementTypes
    <3>4. Update(q.dto.displayName, q.dto.externalId) \in StatementOf
      BY <3>1, StatementTypes DEF GroupDto
    <3>5. AskedFor(q, Delete({q.id} \X MemberIds))
      BY <1>2 DEF Delete, AskedFor, Takes
    <3>6. AskedFor(q, Update(q.dto.displayName, q.dto.externalId))
      BY DEF Update, AskedFor
    <3> QED
      BY <3>3, <3>4, <3>5, <3>6, AllAskedFor
  <2>3. Statements(q) = h \o t
    BY <1>2 DEF Statements, ReplaceStatements
  <2> HIDE DEF h, t
  <2> QED
    BY <2>1, <2>2, <2>3, ConcatOf
<1>3. CASE q.kind \in {"remove", "removeUser"}
  <2> DEFINE pairs == IF q.kind = "remove" THEN {q.id} \X MemberIds ELSE GroupIds \X {q.id}
  <2>1. \A p \in pairs : Takes(q, p)
    BY <1>3 DEF Takes, MayRemove
  <2>2. Statements(q) = <<Drop(q.id)>> \o <<Delete(pairs)>>
    BY <1>3 DEF Statements, Cascade
  <2>3. Drop(q.id) \in StatementOf /\ Delete(pairs) \in StatementOf
    <3>1. q.id \in GroupIds \cup UserIds
      BY <1>3 DEF Request
    <3>2. pairs \in SUBSET Memberships
      BY <1>3, IdsAssumption DEF Request, Memberships
    <3> QED
      BY <3>1, <3>2, StatementTypes
  <2> HIDE DEF pairs
  <2>4. AskedFor(q, Drop(q.id)) /\ AskedFor(q, Delete(pairs))
    BY <2>1 DEF Drop, Delete, AskedFor
  <2> QED
    BY <2>2, <2>3, <2>4, AllAskedFor, ConcatOf
<1> QED
  BY <1>1, <1>2, <1>3, PatchAskedFor DEF Writers

(* The first transaction of a request, or the next of a wipe.              *)
LEMMA GroundedBegins ==
  ASSUME NEW r \in Requests, \A i \in DOMAIN tx'[r].todo : AskedFor(req'[r], tx'[r].todo[i]),
         tx'[r].targets = {}, tx'[r].del = {}, tx'[r].ins = {}
  PROVE  Grounded(r)'
BY DEF Grounded

(* The first statement gives way to k + 1 others.                          *)
LEMMA GroundedOn ==
  ASSUME IInv, NEW r \in Requests, Running(r), Grounded(r), tx[r].todo # <<>>, req'[r] = req[r],
         NEW k \in {-1, 0, 1}, Continues(req[r], tx[r].todo, tx'[r].todo, k),
         \A i \in DOMAIN tx'[r].todo : i <= k + 1 => AskedFor(req[r], tx'[r].todo[i]),
         tx'[r].targets \cup tx'[r].del \subseteq tx[r].targets \cup tx[r].del,
         \A p \in tx'[r].ins : p \in tx[r].ins \/ Gives(req[r], p[2])
  PROVE  Grounded(r)'
<1>1. \A i \in DOMAIN tx[r].todo : AskedFor(req[r], tx[r].todo[i])
  BY DEF Grounded
<1>2. \A i \in DOMAIN tx'[r].todo : AskedFor(req[r], tx'[r].todo[i])
  BY <1>1 DEF Continues
<1> QED
  BY <1>2 DEF Grounded

LEMMA GroundedDone ==
  ASSUME IInv, NEW r \in Requests, Running(r), Grounded(r), tx[r].todo # <<>>, req'[r] = req[r],
         tx'[r].todo = Tail(tx[r].todo),
         tx'[r].targets = tx[r].targets, tx'[r].del = tx[r].del, tx'[r].ins = tx[r].ins
  PROVE  Grounded(r)'
<1>1. tx[r].todo \in Seq(StatementOf)
  BY Executing
<1>2. Continues(req[r], tx[r].todo, tx'[r].todo, -1)
  BY <1>1, DoneContinues
<1>3. \A i \in DOMAIN tx'[r].todo : ~(i <= -1 + 1)
  BY <1>1, TailOf
<1> QED
  BY <1>2, <1>3, GroundedOn

LEMMA GroundedForOthers ==
  ASSUME IInv, NEW r \in Requests, NEW s \in Requests, SameFor(s, r), Grounded(s)
  PROVE  Grounded(s)'
<1>1. tx[s] \in Tx
  BY SlotsAreFunctions DEF SlotTyped
<1>2. /\ req'[s] = req[s] /\ Running(s)' = Running(s)
      /\ tx'[s].todo = tx[s].todo /\ tx'[s].targets \subseteq tx[s].targets
      /\ tx'[s].ins = tx[s].ins /\ tx'[s].del = tx[s].del
  BY <1>1 DEF SameFor, Tx, Running
<1> QED
  BY <1>2 DEF Grounded

LEMMA GroundedWipe ==
  ASSUME IInv, NEW r \in Requests, ClearTable(r)
  PROVE  Grounded(r)'
<1>1. PICK todo : tx' = [tx EXCEPT ![r].todo = todo] /\ StatementsFit(req[r], todo)
  BY ClearTableFits
<1>2. /\ PhaseFits(r) /\ tx[r] \in Tx /\ phase[r] = "clearing" /\ req[r].kind = "clearData"
      /\ tx = [s \in Requests |-> tx[s]]
  BY SlotsAreFunctions, ClearTableFits DEF Fits, SlotTyped
<1>3. Idle(tx[r])
  BY <1>2 DEF PhaseFits, Running
<1>4. /\ tx'[r].todo = todo /\ tx'[r].targets = {} /\ tx'[r].del = {} /\ tx'[r].ins = {}
      /\ req'[r] = req[r]
  BY <1>1, <1>2, <1>3 DEF Tx, Idle, ClearTable, Await
<1>5. \A i \in DOMAIN todo : AskedFor(req[r], todo[i])
  BY <1>1, <1>2 DEF StatementsFit, MayDo, AskedFor, Takes, MayRemove
<1> QED
  BY <1>4, <1>5, GroundedBegins

(* A statement that only reads, locks or drops.                            *)
LEMMA GroundedQuietly ==
  ASSUME IInv, NEW r \in Requests, Grounded(r), Running(r), tx[r].todo # <<>>, Running(r)',
         \/ EndDelete(r) \/ ClaimName(r) \/ InsertGroup(r) \/ ReferGroup(r) \/ ReferUser(r)
         \/ DropRow(r)
  PROVE  Grounded(r)'
<1> /\ phase = [s \in Requests |-> phase[s]] /\ tx = [s \in Requests |-> tx[s]]
    /\ req = [s \in Requests |-> req[s]] /\ tx[r] \in Tx
  BY SlotsAreFunctions DEF SlotTyped
<1>1. \A e : ~RollBack(r, e)
  BY DEF RollBack, Answer, Running
<1>2. ASSUME NEW new, Proceed(r, new),
             [new EXCEPT !.todo = Tail(@)].todo = Tail(tx[r].todo),
             [new EXCEPT !.todo = Tail(@)].targets = tx[r].targets,
             [new EXCEPT !.todo = Tail(@)].del = tx[r].del,
             [new EXCEPT !.todo = Tail(@)].ins = tx[r].ins
      PROVE  Grounded(r)'
  <2> DEFINE n == [new EXCEPT !.todo = Tail(@)]
  <2>1. tx' = [tx EXCEPT ![r] = n] /\ req' = req
    BY <1>2 DEF Proceed
  <2> HIDE DEF n
  <2>2. tx'[r] = n
    BY <2>1
  <2>3. /\ tx'[r].todo = Tail(tx[r].todo) /\ tx'[r].targets = tx[r].targets
        /\ tx'[r].del = tx[r].del /\ tx'[r].ins = tx[r].ins
    BY <1>2, <2>2 DEF n
  <2> QED
    BY <2>1, <2>3, GroundedDone
<1>3. CASE EndDelete(r)
  <2>1. Proceed(r, [tx[r] EXCEPT !.scanning = FALSE])
    BY <1>3 DEF EndDelete
  <2> QED
    BY <1>2, <2>1 DEF Tx
<1>4. CASE ClaimName(r)
  <2>1. Proceed(r, tx[r])
    BY <1>1, <1>4 DEF ClaimName
  <2> QED
    BY <1>2, <2>1 DEF Tx
<1>5. CASE InsertGroup(r)
  <2>1. PICK g, x : Proceed(r, [tx[r] EXCEPT !.group = g, !.row = x])
    BY <1>1, <1>5 DEF InsertGroup
  <2> QED
    BY <1>2, <2>1 DEF Tx
<1>6. CASE ReferGroup(r)
  <2>1. PICK l : Proceed(r, [tx[r] EXCEPT !.lock = l])
    BY <1>1, <1>6 DEF ReferGroup
  <2> QED
    BY <1>2, <2>1 DEF Tx
<1>7. CASE ReferUser(r)
  <2>1. PICK x : Proceed(r, [tx[r] EXCEPT !.refs = x])
    BY <1>1, <1>7 DEF ReferUser
  <2> QED
    BY <1>2, <2>1 DEF Tx
<1>8. CASE DropRow(r)
  <2>1. Proceed(r, tx[r]) \/ \E x : Proceed(r, [tx[r] EXCEPT !.drops = x])
    BY <1>1, <1>8 DEF DropRow
  <2>2. CASE Proceed(r, tx[r])
    BY <1>2, <2>2 DEF Tx
  <2>3. ASSUME NEW x, Proceed(r, [tx[r] EXCEPT !.drops = x]) PROVE Grounded(r)'
    BY <1>2, <2>3 DEF Tx
  <2> QED
    BY <2>1, <2>2, <2>3
<1> QED
  BY <1>3, <1>4, <1>5, <1>6, <1>7, <1>8

(* The statements that give way to others.                                 *)
LEMMA GroundedReplaced ==
  ASSUME IInv, NEW r \in Requests, Grounded(r), Running(r), tx[r].todo # <<>>, req' = req,
         NEW e \in StatementOf, NEW x, tx' = [tx EXCEPT ![r] = x],
         x.todo = <<e>> \o Tail(tx[r].todo),
         x.targets = tx[r].targets, x.del = tx[r].del, x.ins = tx[r].ins,
         e.do \in MayDo(req[r]) \ {"insertGroup", "drop", "delete"}, AskedFor(req[r], e)
  PROVE  Grounded(r)'
<1>1. tx = [s \in Requests |-> tx[s]] /\ tx[r].todo \in Seq(StatementOf)
  BY SlotsAreFunctions, Executing
<1>2. tx'[r] = x
  BY <1>1
<1>3. Continues(req[r], tx[r].todo, tx'[r].todo, 0)
  BY <1>1, <1>2, ReplacedContinues
<1>4. \A i \in DOMAIN tx'[r].todo : i <= 0 + 1 => AskedFor(req[r], tx'[r].todo[i])
  BY <1>1, <1>2, HeadReplaced
<1> QED
  BY <1>2, <1>3, <1>4, GroundedOn

LEMMA GroundedUpdate ==
  ASSUME IInv, NEW r \in Requests, Grounded(r), UpdateGroup(r), Running(r)'
  PROVE  Grounded(r)'
<1> /\ phase = [s \in Requests |-> phase[s]] /\ tx = [s \in Requests |-> tx[s]]
    /\ req = [s \in Requests |-> req[s]] /\ tx[r] \in Tx
  BY SlotsAreFunctions DEF SlotTyped
<1> DEFINE e == Statement("claimName")
<1>1. Running(r) /\ tx[r].todo # <<>> /\ Current(r).do = "update"
  BY DEF UpdateGroup, Doing
<1>2. ~RollBack(r, "P2025")
  BY <1>1 DEF RollBack, Answer, Running
<1>3. \/ \E w : /\ tx' = [tx EXCEPT ![r].row = w, ![r].lock = "key", ![r].todo = <<e>> \o Tail(@)]
                /\ UNCHANGED <<tables, req, phase, answer>>
      \/ \E w : Proceed(r, [tx[r] EXCEPT !.row = w, !.lock = "noKey"])
  BY <1>2 DEF UpdateGroup
<1>4. ASSUME NEW w, tx' = [tx EXCEPT ![r].row = w, ![r].lock = "key", ![r].todo = <<e>> \o Tail(@)],
             req' = req
      PROVE  Grounded(r)'
  <2> DEFINE n == [tx[r] EXCEPT !.row = w, !.lock = "key", !.todo = <<e>> \o Tail(@)]
  <2>1. tx' = [tx EXCEPT ![r] = n]
    BY <1>4
  <2>2. /\ n.todo = <<e>> \o Tail(tx[r].todo) /\ n.targets = tx[r].targets
        /\ n.del = tx[r].del /\ n.ins = tx[r].ins
    BY DEF Tx
  <2>3. e \in StatementOf /\ e.do = "claimName" /\ AskedFor(req[r], e)
    BY StatementTypes DEF Statement, AskedFor
  <2>4. e.do \in MayDo(req[r]) \ {"insertGroup", "drop", "delete"}
    BY <1>1, <2>3, Executing DEF MayDo
  <2> HIDE DEF n, e
  <2> QED
    BY <1>1, <1>4, <2>1, <2>2, <2>3, <2>4, GroundedReplaced
<1>5. ASSUME NEW w, Proceed(r, [tx[r] EXCEPT !.row = w, !.lock = "noKey"])
      PROVE  Grounded(r)'
  <2>1. /\ tx'[r].todo = Tail(tx[r].todo) /\ tx'[r].targets = tx[r].targets
        /\ tx'[r].del = tx[r].del /\ tx'[r].ins = tx[r].ins /\ req'[r] = req[r]
    BY <1>5 DEF Proceed, Tx
  <2> QED
    BY <1>1, <2>1, GroundedDone
<1> QED
  BY <1>3, <1>4, <1>5

LEMMA GroundedUpsert ==
  ASSUME IInv, NEW r \in Requests, Grounded(r), UpsertMember(r)
  PROVE  Grounded(r)'
<1> /\ tx = [s \in Requests |-> tx[s]] /\ req = [s \in Requests |-> req[s]] /\ tx[r] \in Tx
  BY SlotsAreFunctions DEF SlotTyped
<1> DEFINE u == Current(r).user
           e == [Insert(u) EXCEPT !.upsert = TRUE]
<1>1. Running(r) /\ tx[r].todo # <<>> /\ Current(r).do = "upsert"
  BY DEF UpsertMember, Doing
<1>2. /\ Current(r) = tx[r].todo[1] /\ Current(r) \in StatementOf /\ 1 \in DOMAIN tx[r].todo
      /\ Current(r).do \in MayDo(req[r])
  BY <1>1, Executing, TailOf
<1>3. u \in MemberIds /\ Gives(req[r], u)
  BY <1>1, <1>2 DEF Grounded, AskedFor, StatementOf
<1>4. \/ Proceed(r, tx[r])
      \/ tx' = [tx EXCEPT ![r].todo = <<e>> \o Tail(@)] /\ req' = req
  BY DEF UpsertMember
<1>5. CASE Proceed(r, tx[r])
  <2>1. /\ tx'[r].todo = Tail(tx[r].todo) /\ tx'[r].targets = tx[r].targets
        /\ tx'[r].del = tx[r].del /\ tx'[r].ins = tx[r].ins /\ req'[r] = req[r]
    BY <1>5 DEF Proceed, Tx
  <2> QED
    BY <1>1, <2>1, GroundedDone
<1>6. CASE tx' = [tx EXCEPT ![r].todo = <<e>> \o Tail(@)] /\ req' = req
  <2> DEFINE n == [tx[r] EXCEPT !.todo = <<e>> \o Tail(@)]
  <2>1. tx' = [tx EXCEPT ![r] = n]
    BY <1>6
  <2>2. /\ n.todo = <<e>> \o Tail(tx[r].todo) /\ n.targets = tx[r].targets
        /\ n.del = tx[r].del /\ n.ins = tx[r].ins
    BY DEF Tx
  <2>3. e \in StatementOf /\ e.do = "insert" /\ AskedFor(req[r], e)
    BY <1>3, StatementTypes DEF Insert, AskedFor
  <2>4. e.do \in MayDo(req[r]) \ {"insertGroup", "drop", "delete"}
    BY <1>1, <1>2, <2>3 DEF MayDo
  <2> HIDE DEF n, e
  <2> QED
    BY <1>1, <1>6, <2>1, <2>2, <2>3, <2>4, GroundedReplaced
<1> QED
  BY <1>4, <1>5, <1>6

LEMMA GroundedInsert ==
  ASSUME IInv, NEW r \in Requests, Grounded(r), InsertMember(r), Running(r)'
  PROVE  Grounded(r)'
<1> /\ phase = [s \in Requests |-> phase[s]] /\ tx = [s \in Requests |-> tx[s]]
    /\ req = [s \in Requests |-> req[s]] /\ tx[r] \in Tx
  BY SlotsAreFunctions DEF SlotTyped
<1> DEFINE u == Current(r).user
           p == <<tx[r].group, u>>
           e == Statement("referGroup")
           f == [do |-> "referUser", user |-> u]
<1>1. Running(r) /\ tx[r].todo # <<>> /\ Current(r).do = "insert"
  BY DEF InsertMember, Doing
<1>2. /\ Current(r) = tx[r].todo[1] /\ Current(r) \in StatementOf /\ 1 \in DOMAIN tx[r].todo
      /\ Current(r).do \in MayDo(req[r]) /\ tx[r].todo \in Seq(StatementOf)
  BY <1>1, Executing, TailOf
<1>3. u \in MemberIds /\ Gives(req[r], u)
  BY <1>1, <1>2 DEF Grounded, AskedFor, StatementOf
<1>4. ~RollBack(r, "P2002")
  BY <1>1 DEF RollBack, Answer, Running
<1>5. \/ Proceed(r, tx[r])
      \/ /\ tx' = [tx EXCEPT ![r].ins = @ \cup {p}, ![r].todo = <<e, f>> \o Tail(@)]
         /\ req' = req
  BY <1>4 DEF InsertMember, References
<1>6. CASE Proceed(r, tx[r])
  <2>1. /\ tx'[r].todo = Tail(tx[r].todo) /\ tx'[r].targets = tx[r].targets
        /\ tx'[r].del = tx[r].del /\ tx'[r].ins = tx[r].ins /\ req'[r] = req[r]
    BY <1>6 DEF Proceed, Tx
  <2> QED
    BY <1>1, <2>1, GroundedDone
<1>7. CASE /\ tx' = [tx EXCEPT ![r].ins = @ \cup {p}, ![r].todo = <<e, f>> \o Tail(@)]
           /\ req' = req
  <2>1. /\ tx'[r].todo = <<e, f>> \o Tail(tx[r].todo) /\ tx'[r].targets = tx[r].targets
        /\ tx'[r].del = tx[r].del /\ tx'[r].ins = tx[r].ins \cup {p} /\ req'[r] = req[r]
    BY <1>7 DEF Tx
  <2>2. /\ e \in StatementOf /\ e.do = "referGroup" /\ AskedFor(req[r], e)
        /\ f \in StatementOf /\ f.do = "referUser" /\ AskedFor(req[r], f)
    BY <1>3, StatementTypes DEF Statement, AskedFor
  <2>3. /\ e.do \in MayDo(req[r]) \ {"insertGroup", "drop", "delete"}
        /\ f.do \in MayDo(req[r]) \ {"insertGroup", "drop", "delete"}
    BY <1>1, <1>2, <2>2 DEF MayDo
  <2>4. p[2] = u
    OBVIOUS
  <2> HIDE DEF e, f, p
  <2>5. Continues(req[r], tx[r].todo, tx'[r].todo, 1)
    <3>1. Continues(req[r], tx[r].todo, <<e, f>> \o Tail(tx[r].todo), 1)
      BY <1>1, <1>2, <2>2, <2>3, ReplacedByTwoContinues
    <3> QED
      BY <3>1, <2>1
  <2>6. \A i \in DOMAIN tx'[r].todo : i <= 1 + 1 => AskedFor(req[r], tx'[r].todo[i])
    BY <1>1, <1>2, <2>1, <2>2, HeadReplacedByTwo
  <2>7. \A q \in tx'[r].ins : q \in tx[r].ins \/ Gives(req[r], q[2])
    BY <1>3, <2>1, <2>4
  <2> QED
    BY <1>1, <2>1, <2>5, <2>6, <2>7, GroundedOn
<1> QED
  BY <1>5, <1>6, <1>7

LEMMA GroundedDelete ==
  ASSUME IInv, NEW r \in Requests, Grounded(r), ScanMembers(r) \/ DeleteMember(r)
  PROVE  Grounded(r)'
<1> /\ phase = [s \in Requests |-> phase[s]] /\ tx = [s \in Requests |-> tx[s]]
    /\ req = [s \in Requests |-> req[s]] /\ tx[r] \in Tx
  BY SlotsAreFunctions DEF SlotTyped
<1>1. Running(r) /\ tx[r].todo # <<>> /\ Current(r).do = "delete"
  BY DEF ScanMembers, DeleteMember, Doing
<1>2. Current(r) = tx[r].todo[1] /\ 1 \in DOMAIN tx[r].todo
  BY <1>1, Executing, TailOf
<1>3. /\ \A i \in DOMAIN tx[r].todo : AskedFor(req[r], tx[r].todo[i])
      /\ \A p \in tx[r].targets \cup tx[r].del : Takes(req[r], p)
      /\ \A p \in tx[r].ins : Gives(req[r], p[2])
  BY <1>1 DEF Grounded
<1>4. CASE ScanMembers(r)
  <2>1. /\ tx'[r].todo = tx[r].todo /\ tx'[r].targets \subseteq Current(r).pairs
        /\ tx'[r].del = tx[r].del /\ tx'[r].ins = tx[r].ins /\ req'[r] = req[r]
    BY <1>4 DEF ScanMembers, Tx
  <2>2. \A p \in Current(r).pairs : Takes(req[r], p)
    BY <1>1, <1>2, <1>3 DEF AskedFor
  <2> QED
    BY <1>3, <2>1, <2>2 DEF Grounded
<1>5. CASE DeleteMember(r)
  <2>1. PICK p \in tx[r].targets :
          tx' = [tx EXCEPT ![r].targets = @ \ {p}, ![r].ins = @ \ {p},
                           ![r].del = @ \cup ({p} \cap members)]
    BY <1>5 DEF DeleteMember
  <2>2. /\ tx'[r].todo = tx[r].todo /\ tx'[r].targets \subseteq tx[r].targets
        /\ tx'[r].del \subseteq tx[r].del \cup tx[r].targets /\ tx'[r].ins \subseteq tx[r].ins
    BY <2>1 DEF Tx
  <2>3. req'[r] = req[r]
    BY <1>5 DEF DeleteMember
  <2> QED
    BY <1>3, <2>2, <2>3 DEF Grounded
<1> QED
  BY <1>4, <1>5

LEMMA GroundedFound ==
  ASSUME IInv, NEW r \in Requests, \/ CheckDisplayName(r) \/ FindUser(r) \/ FindMembers(r)
                                   \/ FindUsers(r),
         Running(r)'
  PROVE  Grounded(r)'
<1> /\ phase = [s \in Requests |-> phase[s]] /\ tx = [s \in Requests |-> tx[s]]
    /\ req = [s \in Requests |-> req[s]] /\ tx[r] \in Tx /\ PhaseFits(r)
  BY SlotsAreFunctions DEF SlotTyped, Fits
<1>1. \A a : ~Answer(r, a)
  BY DEF Answer, Running
<1>2. /\ req[r] \in Request /\ ~Running(r)
      /\ phase[r] \in {"checking", "finding", "findingMembers", "findingUsers"}
  BY BusyRequest DEF CheckDisplayName, FindUser, FindMembers, FindUsers, Running
<1>3. CASE CheckDisplayName(r) \/ FindUser(r)
  <2>1. tx' = [tx EXCEPT ![r].todo = Statements(req[r])] /\ req' = req
    BY <1>1, <1>3 DEF CheckDisplayName, RefuseMalformed, FindUser, Await
  <2>2. req[r].kind \in {"create", "removeUser"} /\ ~Malformed(req[r])
    <3>1. CASE CheckDisplayName(r)
      BY <1>1, <3>1 DEF PhaseFits, CheckDisplayName, RefuseMalformed
    <3>2. CASE FindUser(r)
      BY <3>2 DEF FindUser, Malformed
    <3> QED
      BY <1>3, <3>1, <3>2
  <2>3. Idle(tx[r])
    BY <1>2 DEF PhaseFits
  <2>4. /\ tx'[r].todo = Statements(req[r]) /\ tx'[r].targets = {} /\ tx'[r].del = {}
        /\ tx'[r].ins = {} /\ req'[r] = req[r]
    BY <2>1, <2>3 DEF Tx, Idle
  <2>5. \A i \in DOMAIN Statements(req[r]) : AskedFor(req[r], Statements(req[r])[i])
    BY <1>2, <2>2, StatementsAskedFor DEF Writers
  <2> QED
    BY <2>4, <2>5, GroundedBegins
<1>4. CASE FindMembers(r) \/ FindUsers(r)
  <2>1. \E users : Found(r, users)
    BY <1>4 DEF FindMembers, FindUsers, Await, Answer, Running
  <2>2. /\ req[r].kind # "get" /\ ~Malformed(req[r])
        /\ tx' = [tx EXCEPT ![r] = [NoTx EXCEPT !.group = req[r].id, !.todo = Statements(req[r])]]
        /\ req' = req
    BY <1>1, <2>1 DEF Found, RefuseMalformed, Await, Running
  <2>3. /\ req[r].kind \in {"replace", "patch", "remove"}
        /\ req[r].kind = "patch" => PatchResult[req[r].body] # Thrown
    BY <1>4, <2>2 DEF PhaseFits, FindMembers, FindUsers
  <2>4. /\ tx'[r].todo = Statements(req[r]) /\ tx'[r].targets = {} /\ tx'[r].del = {}
        /\ tx'[r].ins = {} /\ req'[r] = req[r]
    BY <2>2 DEF NoTx
  <2>5. \A i \in DOMAIN Statements(req[r]) : AskedFor(req[r], Statements(req[r])[i])
    BY <1>2, <2>2, <2>3, StatementsAskedFor DEF Writers
  <2> QED
    BY <2>4, <2>5, GroundedBegins
<1> QED
  BY <1>3, <1>4

LEMMA GroundedKept ==
  ASSUME IInv, NEW r \in Requests, Grounded(r), Step(r)
  PROVE  Grounded(r)'
<1> SUFFICES ASSUME Running(r)'
             PROVE  Grounded(r)'
  BY DEF Grounded
<1> /\ req = [s \in Requests |-> req[s]] /\ phase = [s \in Requests |-> phase[s]]
    /\ answer = [s \in Requests |-> answer[s]] /\ tx = [s \in Requests |-> tx[s]]
  BY SlotsAreFunctions
<1>1. \A a : ~Answer(r, a)
  BY DEF Answer, Running
<1>2. \A e : ~RollBack(r, e)
  BY <1>1 DEF RollBack
<1>3. ~(\E q \in Request : Receive(r, q)) /\ ~Respond(r) /\ ~Parse(r) /\ ~FindGroup(r)
  BY <1>1 DEF Receive, Respond, Parse, FindGroup, Await, Running
<1>4. ~Commit(r) /\ ~Deadlock(r)
  BY <1>2 DEF Commit, Cleared, Deadlock, Running
<1>5. CASE CheckDisplayName(r) \/ FindUser(r) \/ FindMembers(r) \/ FindUsers(r)
  BY <1>5, GroundedFound
<1>6. CASE ClearTable(r)
  BY <1>6, GroundedWipe
<1>7. CASE \/ EndDelete(r) \/ ClaimName(r) \/ InsertGroup(r) \/ ReferGroup(r) \/ ReferUser(r)
           \/ DropRow(r)
  <2>1. Running(r) /\ tx[r].todo # <<>>
    BY <1>7 DEF EndDelete, ClaimName, InsertGroup, ReferGroup, ReferUser, DropRow, Doing
  <2> QED
    BY <1>7, <2>1, GroundedQuietly
<1> QED
  BY <1>3, <1>4, <1>5, <1>6, <1>7, GroundedDelete, GroundedUpdate, GroundedUpsert, GroundedInsert
     DEF Step, Handle, Read, Execute

LEMMA AllGrounded == Spec => [](\A r \in Requests : Grounded(r))
<1>1. Init => \A r \in Requests : Grounded(r)
  BY DEF Init, Grounded, Running
<1>2. IInv /\ (\A r \in Requests : Grounded(r)) /\ [Next]_vars => (\A r \in Requests : Grounded(r))'
  <2> SUFFICES ASSUME IInv, \A s \in Requests : Grounded(s), [Next]_vars, NEW s \in Requests
               PROVE  Grounded(s)'
    OBVIOUS
  <2>1. CASE UNCHANGED vars
    BY <2>1 DEF vars, Grounded, Running
  <2>2. CASE Crash
    BY <2>2 DEF Crash, Grounded, Running
  <2>3. ASSUME NEW r \in Requests, Step(r) PROVE Grounded(s)'
    BY <2>3, StepOfOne, GroundedKept, GroundedForOthers
  <2> QED
    BY <2>1, <2>2, <2>3, WhatHappens
<1> QED
  BY <1>1, <1>2, Invariance, PTL DEF Spec

(* What one commit does to one membership.                                 *)
LEMMA MembershipCommitted ==
  ASSUME IInv, NEW r \in Requests, Commit(r), Delivers(r), Grounded(r),
         NEW p \in GroupIds \X MemberIds
  PROVE  /\ Commits(r)
         /\ p \in members /\ p \notin members' => MayRemove(req[r], p)
         /\ p \notin members /\ p \in members' => MayAdd(req[r], p)
<1>1. Writes(r)
  BY DEF Commit, Writes
<1>2. /\ TablesOK /\ Running(r) /\ GroupFits(r) /\ TxOK(r) /\ PhaseFits(r) /\ HoldsFit(r)
      /\ tx[r].todo = <<>> /\ phase = [s \in Requests |-> phase[s]]
  BY <1>1, Committing, SlotsAreFunctions DEF Writes, Fits, SlotTyped
<1>3. Commits(r)
  BY <1>2 DEF Commits, Commit, Cleared, Running
<1>4. members' = (members \ tx[r].del) \cup tx[r].ins
  BY DEF Commit
<1>5. ASSUME p \in members, p \notin members' PROVE MayRemove(req[r], p)
  <2>1. p \in tx[r].del /\ p \notin tx[r].ins
    BY <1>4, <1>5
  <2>2. Takes(req[r], p)
    BY <1>2, <2>1 DEF Grounded
  <2> SUFFICES ASSUME req[r].kind = "replace", req[r].id = p[1] PROVE MayRemove(req[r], p)
    BY <2>2 DEF Takes
  <2>3. tx[r].group = req[r].id /\ p = <<p[1], p[2]>>
    BY <1>2 DEF GroupFits
  <2>4. p[2] \notin Elements(req[r].dto.members)
    BY <1>2, <2>1, <2>3 DEF Delivers
  <2> QED
    BY <2>4 DEF MayRemove
<1>6. ASSUME p \notin members, p \in members' PROVE MayAdd(req[r], p)
  <2>1. p \in tx[r].ins
    BY <1>4, <1>6
  <2>2. Gives(req[r], p[2]) /\ tx[r].group = p[1]
    BY <1>2, <2>1 DEF Grounded, TxOK
  <2>3. req[r].kind \in {"replace", "patch"} => req[r].id = p[1]
    BY <1>2, <2>2 DEF GroupFits
  <2>4. req[r].kind = "create" => ~Exists(p[1])
    BY <1>2, <2>1, <2>2 DEF GroupFits, TablesOK
  <2> QED
    BY <2>2, <2>3, <2>4 DEF Gives, MayAdd
<1> QED
  BY <1>3, <1>5, <1>6

(* A user joins or leaves a group only when a request that says so takes   *)
(* effect, by naming the user or, of those who leave, by a filter the user *)
(* matches, whatever bodies, filters, users and groups there are: what one *)
(* request rolls back, or read before another committed, changes no        *)
(* membership (groups.service.ts:59-71, 81-111).                           *)
THEOREM MembershipsOnlyOnRequest == Spec => MembershipChangesOnlyOnRequest
<1> DEFINE A == \A p \in GroupIds \X MemberIds :
       /\ p \in members /\ p \notin members'
            => \E r \in Requests : Commits(r) /\ MayRemove(req[r], p)
       /\ p \notin members /\ p \in members'
            => \E r \in Requests : Commits(r) /\ MayAdd(req[r], p)
<1>1. IInv /\ (\A r \in Requests : Delivers(r)) /\ (\A r \in Requests : Grounded(r)) /\ [Next]_vars
        => [A]_vars
  <2> SUFFICES ASSUME IInv, \A s \in Requests : Delivers(s), \A s \in Requests : Grounded(s),
                      [Next]_vars, ~UNCHANGED members
               PROVE  A
    OBVIOUS
  <2>1. PICK r \in Requests : Commit(r)
    <3>1. ~UNCHANGED vars /\ ~Crash /\ ~UNCHANGED tables
      BY DEF vars, Crash, tables
    <3> QED
      BY <3>1, WhatHappens, StepOfOne
  <2> QED
    BY <2>1, MembershipCommitted
<1> QED
  BY <1>1, Invariance, AllDeliver, AllGrounded, PTL DEF Spec, MembershipChangesOnlyOnRequest
===============================================================================
