------------------------------ MODULE AtomicUsers ------------------------------
(***************************************************************************)
(* What /Users promises its clients, whatever the handlers look like       *)
(* inside: a request takes effect at one instant between its arrival and   *)
(* its answer, all of it or nothing of it, and the answer tells the        *)
(* outcome at that instant.  A crash takes requests away, never effects.   *)
(***************************************************************************)
CONSTANTS UserIds, Requests,
          Request,                      \* what a client may ask for
          GroupRequests,                \* whether others change groups meanwhile
          CreateRow(_),                 \* the row a body makes
          UpdatedRow(_, _),             \* the row an update makes of a row
          Malformed(_),                 \* updates the server cannot read
          ToScimUser(_, _),             \* what a client sees of a row
          Failure(_), Success(_, _),    \* the answers
          Absent, NoRequest, NoAnswer, NoBody

VARIABLES users, issued, req, phase, answer

vars == <<users, issued, req, phase, answer>>

Taken(n, except) == \E v \in UserIds \ except : users[v] # Absent /\ users[v].userName = n

Init ==
  /\ users  = [u \in UserIds |-> Absent]
  /\ issued = {}
  /\ req    = [r \in Requests |-> NoRequest]
  /\ phase  = [r \in Requests |-> "idle"]
  /\ answer = [r \in Requests |-> NoAnswer]

Invoke(r, q) ==
  /\ phase[r] = "idle"
  /\ req'   = [req EXCEPT ![r] = q]
  /\ phase' = [phase EXCEPT ![r] = "pending"]
  /\ UNCHANGED <<users, issued, answer>>

Done(r, a) ==
  /\ phase'  = [phase EXCEPT ![r] = "answered"]
  /\ answer' = [answer EXCEPT ![r] = a]
  /\ UNCHANGED req

Refused(r, e) ==
  /\ Done(r, Failure(e))
  /\ UNCHANGED <<users, issued>>

Accepted(r, status, body) == Done(r, Success(status, body))

Create(r) ==
  LET row == CreateRow(req[r].dto)
  IN  /\ req[r].kind = "create"
      /\ \/ Taken(row.userName, {}) /\ Refused(r, "ConflictException")
         \/ /\ ~Taken(row.userName, {})
            /\ \E u \in UserIds \ issued :
                 /\ users'  = [users EXCEPT ![u] = row]
                 /\ issued' = issued \cup {u}
                 /\ Accepted(r, 201, ToScimUser(u, row))

NotFound(r) ==
  /\ req[r].kind \in {"get", "replace", "patch", "remove"}
  /\ users[req[r].id] = Absent
  /\ Refused(r, "NotFoundException")

Get(r) ==
  /\ req[r].kind = "get"
  /\ users[req[r].id] # Absent
  /\ Accepted(r, 200, ToScimUser(req[r].id, users[req[r].id]))
  /\ UNCHANGED <<users, issued>>

Update(r) ==
  LET u   == req[r].id
      row == UpdatedRow(req[r], users[u])
  IN  /\ req[r].kind \in {"replace", "patch"}
      /\ ~Malformed(req[r])
      /\ users[u] # Absent
      /\ \/ Taken(row.userName, {u}) /\ Refused(r, "ConflictException")
         \/ /\ ~Taken(row.userName, {u})
            /\ users' = [users EXCEPT ![u] = row]
            /\ Accepted(r, 200, ToScimUser(u, row))
            /\ UNCHANGED issued

RefuseMalformed(r) == Malformed(req[r]) /\ Refused(r, "TypeError")

(* An update may lose to another update in progress, and a removal to a    *)
(* change of the user's groups: without effect.                            *)
LoseToAnother(r) ==
  /\ \/ GroupRequests /\ req[r].kind = "remove"
     \/ /\ req[r].kind \in {"replace", "patch"}
        /\ \E s \in Requests \ {r} :
             phase[s] = "pending" /\ req[s].kind \in {"replace", "patch"}
  /\ Refused(r, "P2034")

Remove(r) ==
  /\ req[r].kind = "remove"
  /\ users[req[r].id] # Absent
  /\ users' = [users EXCEPT ![req[r].id] = Absent]
  /\ Accepted(r, 204, NoBody)
  /\ UNCHANGED issued

Perform(r) ==
  /\ phase[r] = "pending"
  /\ \/ Create(r) \/ Get(r) \/ Update(r) \/ Remove(r)
     \/ NotFound(r) \/ RefuseMalformed(r) \/ LoseToAnother(r)

Clear ==
  /\ users' = [u \in UserIds |-> Absent]
  /\ UNCHANGED <<issued, req, phase, answer>>

Forget(R) ==
  /\ req'    = [r \in Requests |-> IF r \in R THEN NoRequest ELSE req[r]]
  /\ phase'  = [r \in Requests |-> IF r \in R THEN "idle" ELSE phase[r]]
  /\ answer' = [r \in Requests |-> IF r \in R THEN NoAnswer ELSE answer[r]]
  /\ UNCHANGED <<users, issued>>

Respond(r) == phase[r] = "answered" /\ Forget({r})

Crash == Forget(Requests)

Next == \/ \E r \in Requests : \/ \E q \in Request : Invoke(r, q)
                               \/ Perform(r)
                               \/ Respond(r)
        \/ Clear
        \/ Crash

Spec == Init /\ [][Next]_vars
===============================================================================
