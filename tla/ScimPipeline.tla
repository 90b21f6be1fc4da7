------------------------------ MODULE ScimPipeline ------------------------------
(***************************************************************************)
(* What a request to /Users or /Groups goes through around its handler:    *)
(* JwtAuthGuard, which verifies its token against a cached copy of         *)
(* Keycloak's keys, RequestLoggingInterceptor and ScimExceptionFilter.     *)
(*                                                                         *)
(* Keycloak publishes and withdraws keys as it rotates them.  The guard    *)
(* leaves its copy to createRemoteJWKSet of jose (version 5): it is        *)
(* fetched when there is none or it is CacheMaxAge old, and when a token's *)
(* key is not in it, unless it was fetched less than Cooldown ago.         *)
(* Requests share a fetch that is under way, and a fetch that takes        *)
(* FetchTimeout is given up.                                               *)
(*                                                                         *)
(* Time is kept as ages, which stop growing where no guard or property     *)
(* tells them apart any more.                                              *)
(***************************************************************************)
EXTENDS ScimErrors

CONSTANTS Keys,      \* Keycloak's signing keys
          Foreign,   \* a key that is none of them
          Requests,  \* requests in progress at one time
          Errors,    \* what a handler may throw
          FetchTimeout, Cooldown, CacheMaxAge,
          None

ASSUME ForeignAssumption == Foreign \notin Keys
ASSUME ErrorsAssumption == Errors \subseteq Exceptions \ {"UnauthorizedException"}

(* None is no status, no set of keys, no copy of the keys and no fetch.    *)
ASSUME NoneAssumption ==
  /\ None \notin Nat
  /\ \A S \in SUBSET Keys : None # S
  /\ None \notin [keys : SUBSET Keys, age : Nat]
  /\ None \notin [age : Nat, answer : {None} \cup SUBSET Keys]

ASSUME TimesAssumption ==
  /\ FetchTimeout \in Nat \ {0} /\ Cooldown \in Nat \ {0} /\ CacheMaxAge \in Nat
  /\ Cooldown <= CacheMaxAge

VARIABLES published,  \* Keycloak: for each key, whether it is published and since when (or not)
          cache,      \* the guard's copy of the keys, and its age; or None
          fetch,      \* the fetch under way, its age, and Keycloak's answer to it; or None
          token,      \* the Authorization header of each request
          phase,      \* where each request is
          thrown,     \* what its handler has thrown, or "nothing"
          logged,     \* the status of its line in the log, or None
          answer,     \* the status it is answered with, or None
          missed      \* a fetch failed while the request waited for it

slots == <<token, phase, thrown, logged, answer, missed>>
vars == <<published, cache, fetch, slots>>

Horizon == FetchTimeout + CacheMaxAge + 1

(* What jwtVerify, and then hasRequiredScope, make of a token whose        *)
(* signature is right: "refused" is one of another issuer or audience, or  *)
(* an expired one; a good token can expire while it waits for the keys.    *)
Claims == {"good", "refused", "noScope"}
Token  == [key : Keys \cup {Foreign}, claims : Claims]
NoBearer == [key |-> None, claims |-> "refused"]

Statuses == {200, 400, 401, 404, 409, 500}

Phases == {"idle", "looking", "loading", "reloading", "loaded", "reloaded", "handling", "answered"}

-------------------------------------------------------------------------------
(* jose's key set. *)

FreshForever == cache # None  \* variant: a copy is kept until a key is missing
Fresh       == cache # None /\ cache.age < CacheMaxAge
CoolingDown == cache # None /\ cache.age < Cooldown
Cached(k)   == k \in cache.keys

Ticking(p) == p \notin {"looking", "loaded", "reloaded"}

(* reload(): wait for the fetch under way, or begin one.                   *)
Reload(r, p) ==
  /\ phase' = [phase EXCEPT ![r] = p]
  /\ fetch' = IF fetch = None THEN [age |-> 0, answer |-> None] ELSE fetch

Proceed(r, p) ==
  /\ phase' = [phase EXCEPT ![r] = p]
  /\ UNCHANGED fetch

-------------------------------------------------------------------------------
Init ==
  /\ published \in [Keys -> [on : BOOLEAN, since : {Horizon}]]
  /\ cache  = None
  /\ fetch  = None
  /\ token  = [r \in Requests |-> NoBearer]
  /\ phase  = [r \in Requests |-> "idle"]
  /\ thrown = [r \in Requests |-> "nothing"]
  /\ logged = [r \in Requests |-> None]
  /\ answer = [r \in Requests |-> None]
  /\ missed = [r \in Requests |-> FALSE]

(* Keycloak rotates its keys. *)
Rotate(k) ==
  /\ published' = [published EXCEPT ![k] = [on |-> ~@.on, since |-> 0]]
  /\ UNCHANGED <<cache, fetch, slots>>

Older(age, limit) == IF age < limit THEN age + 1 ELSE age

(* Time passes; not while a request can go on, nor past a time-out.        *)
Tick ==
  /\ \A r \in Requests : Ticking(phase[r])
  /\ fetch # None => fetch.age < FetchTimeout
  /\ published' = [k \in Keys |-> [published[k] EXCEPT !.since = Older(@, Horizon)]]
  /\ cache' = IF cache = None THEN None ELSE [cache EXCEPT !.age = Older(@, CacheMaxAge)]
  /\ fetch' = IF fetch = None THEN None ELSE [fetch EXCEPT !.age = @ + 1]
  /\ UNCHANGED slots

(* Keycloak's endpoint puts its answer together... *)
AnswerFetch ==
  /\ fetch # None
  /\ fetch.answer = None
  /\ fetch' = [fetch EXCEPT !.answer = {k \in Keys : published[k].on}]
  /\ UNCHANGED <<published, cache, slots>>

(* ...which arrives some time later: all requests that wait go on.         *)
FetchSucceeds ==
  /\ fetch # None
  /\ fetch.answer # None
  /\ cache' = [keys |-> fetch.answer, age |-> 0]
  /\ fetch' = None
  /\ phase' = [r \in Requests |-> CASE phase[r] = "loading"   -> "loaded"
                                    [] phase[r] = "reloading" -> "reloaded"
                                    [] OTHER -> phase[r]]
  /\ UNCHANGED <<published, token, thrown, logged, answer, missed>>

Waiting(r) == phase[r] \in {"loading", "reloading"}

(* Variant: a failed fetch is forgotten, and nobody told.                  *)
FetchFailsUnnoticed ==
  /\ fetch # None
  /\ fetch' = None
  /\ UNCHANGED <<published, cache, slots>>

(* The fetch is refused, broken off or given up: they are all refused.     *)
FetchFails ==
  /\ fetch # None
  /\ fetch'  = None
  /\ phase'  = [r \in Requests |-> IF Waiting(r) THEN "answered" ELSE phase[r]]
  /\ answer' = [r \in Requests |-> IF Waiting(r) THEN HttpExceptions.UnauthorizedException
                                   ELSE answer[r]]
  /\ missed' = [r \in Requests |-> missed[r] \/ Waiting(r)]
  /\ UNCHANGED <<published, cache, token, thrown, logged>>

-------------------------------------------------------------------------------
(* The guard. *)

Refuse(r) ==
  /\ phase'  = [phase EXCEPT ![r] = "answered"]
  /\ answer' = [answer EXCEPT ![r] = HttpExceptions.UnauthorizedException]
  /\ UNCHANGED fetch

(* A request arrives; jwtVerify asks the key set first of all for a key.   *)
Arrive(r, t) ==
  /\ phase[r] = "idle"
  /\ token' = [token EXCEPT ![r] = t]
  /\ \/ t = NoBearer /\ Refuse(r)
     \/ t # NoBearer /\ Fresh /\ Proceed(r, "looking") /\ UNCHANGED answer
     \/ t # NoBearer /\ ~Fresh /\ Reload(r, "loading") /\ UNCHANGED answer
  /\ UNCHANGED <<published, cache, thrown, logged, missed>>

(* A token expires while its request waits. *)
Expire(r) ==
  /\ Waiting(r)
  /\ token[r].claims # "refused"
  /\ token' = [token EXCEPT ![r].claims = "refused"]
  /\ UNCHANGED <<published, cache, fetch, phase, thrown, logged, answer, missed>>

(* The signature is right: the claims and the scope decide.                *)
Verified(r) ==
  \/ token[r].claims # "good" /\ Refuse(r)
  \/ token[r].claims = "good" /\ Proceed(r, "handling") /\ UNCHANGED answer

(* Variant: a token of an unknown key is refused without another fetch.    *)
LookUpOnce(r) ==
  /\ phase[r] \in {"looking", "loaded", "reloaded"}
  /\ IF Cached(token[r].key) THEN Verified(r) ELSE Refuse(r)
  /\ UNCHANGED <<published, cache, token, thrown, logged, missed>>

(* Variant: a key that is not found is looked for again until it is.       *)
LookUpUntilFound(r) ==
  /\ phase[r] \in {"looking", "loaded", "reloaded"}
  /\ \/ Cached(token[r].key) /\ Verified(r)
     \/ ~Cached(token[r].key) /\ Reload(r, "reloading") /\ UNCHANGED answer
  /\ UNCHANGED <<published, cache, token, thrown, logged, missed>>

(* The key of the token is looked for, a second time after a fetch.        *)
LookUp(r) ==
  /\ phase[r] \in {"looking", "loaded", "reloaded"}
  /\ \/ Cached(token[r].key) /\ Verified(r)
     \/ /\ ~Cached(token[r].key)
        /\ phase[r] # "reloaded"
        /\ ~CoolingDown
        /\ Reload(r, "reloading")
        /\ UNCHANGED answer
     \/ /\ ~Cached(token[r].key)
        /\ phase[r] = "reloaded" \/ CoolingDown
        /\ Refuse(r)
  /\ UNCHANGED <<published, cache, token, thrown, logged, missed>>

-------------------------------------------------------------------------------
(* The interceptor and the filter, around a handler that throws what it    *)
(* likes, or nothing.                                                      *)

LoggedAs500(e) == 500  \* variant: without err.status
(* catchError: the status of an HttpException; Prisma's errors have none.  *)
LoggedStatus(e) == IF e \in DOMAIN HttpExceptions THEN HttpExceptions[e] ELSE 500

Return(r) ==
  /\ phase[r] = "handling"
  /\ phase'  = [phase EXCEPT ![r] = "answered"]
  /\ logged' = [logged EXCEPT ![r] = 200]
  /\ answer' = [answer EXCEPT ![r] = 200]
  /\ UNCHANGED <<published, cache, fetch, token, thrown, missed>>

Throw(r) ==
  \E e \in Errors :
    /\ phase[r] = "handling"
    /\ phase'  = [phase EXCEPT ![r] = "answered"]
    /\ thrown' = [thrown EXCEPT ![r] = e]
    /\ logged' = [logged EXCEPT ![r] = LoggedStatus(e)]
    /\ answer' = [answer EXCEPT ![r] = ToScimError(e).status]
    /\ UNCHANGED <<published, cache, fetch, token, missed>>

(* The answer leaves; the slot is free for another request. *)
Respond(r) ==
  /\ phase[r] = "answered"
  /\ token'  = [token EXCEPT ![r] = NoBearer]
  /\ phase'  = [phase EXCEPT ![r] = "idle"]
  /\ thrown' = [thrown EXCEPT ![r] = "nothing"]
  /\ logged' = [logged EXCEPT ![r] = None]
  /\ answer' = [answer EXCEPT ![r] = None]
  /\ missed' = [missed EXCEPT ![r] = FALSE]
  /\ UNCHANGED <<published, cache, fetch>>

(* The server dies and is started again, with no copy of the keys. *)
Crash ==
  /\ cache'  = None
  /\ fetch'  = None
  /\ token'  = [r \in Requests |-> NoBearer]
  /\ phase'  = [r \in Requests |-> "idle"]
  /\ thrown' = [r \in Requests |-> "nothing"]
  /\ logged' = [r \in Requests |-> None]
  /\ answer' = [r \in Requests |-> None]
  /\ missed' = [r \in Requests |-> FALSE]
  /\ UNCHANGED published

Serve(r) == LookUp(r) \/ Return(r) \/ Throw(r) \/ Respond(r)

Next == \/ \E k \in Keys : Rotate(k)
        \/ Tick
        \/ AnswerFetch
        \/ FetchSucceeds
        \/ FetchFails
        \/ \E r \in Requests : \/ \E t \in Token \cup {NoBearer} : Arrive(r, t)
                               \/ Expire(r)
                               \/ Serve(r)
        \/ Crash

Spec == Init /\ [][Next]_vars

(* Handlers and the event loop make progress, and a fetch ends: jose gives *)
(* it up at its time-out.  Keycloak need not answer.                       *)
Fairness == /\ \A r \in Requests : WF_vars(Serve(r))
            /\ WF_vars(FetchSucceeds \/ FetchFails)

FairSpec == Spec /\ Fairness

-------------------------------------------------------------------------------
(* The copy, the fetch and the slots are in order; somebody waits for a    *)
(* fetch only while there is one.                                          *)
TypeOK ==
  /\ published \in [Keys -> [on : BOOLEAN, since : 0..Horizon]]
  /\ cache \in [keys : SUBSET Keys, age : 0..CacheMaxAge] \cup {None}
  /\ fetch \in [age : 0..FetchTimeout, answer : {None} \cup SUBSET Keys] \cup {None}
  /\ token  \in [Requests -> Token \cup {NoBearer}]
  /\ phase  \in [Requests -> Phases]
  /\ thrown \in [Requests -> Errors \cup {"nothing"}]
  /\ logged \in [Requests -> Statuses \cup {None}]
  /\ answer \in [Requests -> Statuses \cup {None}]
  /\ missed \in [Requests -> BOOLEAN]
  /\ \A r \in Requests : /\ answer[r] # None <=> phase[r] = "answered"
                         /\ Waiting(r) => fetch # None

(* The handler runs only for a good token whose key Keycloak publishes, or *)
(* has withdrawn less long ago than a copy is kept and a fetch may take    *)
(* (jwt-auth.guard.ts:41-43, 63-66).                                       *)
WithdrawnKeysExpire ==
  [][\A r \in Requests :
       phase[r] # "handling" /\ phase'[r] = "handling" =>
         /\ token[r].claims = "good"
         /\ token[r].key \in Keys
         /\ \/ published[token[r].key].on
            \/ published[token[r].key].since < CacheMaxAge + FetchTimeout]_vars

(* A good token is refused only if the keys could not be fetched for its   *)
(* request, or if its key has not yet been published for as long as a copy *)
(* is left alone and a fetch may take: "refetches on key rotation"         *)
(* (jwt-auth.guard.ts:41-42).                                              *)
GoodTokensRefusedOnlyIfNew ==
  [][\A r \in Requests :
       /\ phase[r] # "answered"
       /\ answer'[r] = HttpExceptions.UnauthorizedException
       /\ token'[r].claims = "good"
       /\ token'[r].key \in Keys
       /\ ~missed'[r]
       => \/ ~published[token'[r].key].on
          \/ published[token'[r].key].since < Cooldown + FetchTimeout]_vars

(* The line of the log that ends a request has the status it is answered   *)
(* with, unless Prisma threw, whose errors only the filter can read; and a *)
(* request has one exactly if the guard let it through                     *)
(* (logging.interceptor.ts:53-68, scim-exception.filter.ts:22-63).         *)
LogTellsTheAnswer ==
  \A r \in Requests :
    phase[r] = "answered" =>
      /\ logged[r] = None <=> answer[r] = HttpExceptions.UnauthorizedException
      /\ logged[r] # None /\ thrown[r] \notin DOMAIN PrismaErrors => logged[r] = answer[r]

(* No request waits for Keycloak for ever. *)
EveryRequestEnds == \A r \in Requests : phase[r] # "idle" ~> phase[r] = "idle"
===============================================================================
