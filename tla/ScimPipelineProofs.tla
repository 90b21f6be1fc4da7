--------------------------- MODULE ScimPipelineProofs ---------------------------
(***************************************************************************)
(* Theorems about ScimPipeline, for any keys, any number of requests and   *)
(* any time-outs.                                                          *)
(***************************************************************************)
EXTENDS ScimPipeline, TLAPS

-------------------------------------------------------------------------------
(* What an error is logged and answered with. *)

LEMMA StatusOfErrors ==
  ASSUME NEW e \in Errors
  PROVE  /\ LoggedStatus(e) \in Statuses
         /\ ToScimError(e).status \in Statuses \ {401}
         /\ e \notin DOMAIN PrismaErrors => LoggedStatus(e) = ToScimError(e).status
<1>1. e \in {"BadRequestException", "NotFoundException", "ConflictException",
             "P2002", "P2025", "P2023", "P2003"} \cup OtherExceptions
  BY ErrorsAssumption DEF Exceptions, HttpExceptions, PrismaErrors
<1>2. CASE e \in {"BadRequestException", "NotFoundException", "ConflictException"}
  BY <1>2 DEF LoggedStatus, ToScimError, HttpExceptions, Statuses
<1>3. CASE e \in {"P2002", "P2025", "P2023", "P2003"}
  BY <1>3 DEF LoggedStatus, ToScimError, HttpExceptions, PrismaErrors, Statuses
<1>4. CASE e \in OtherExceptions
  BY <1>4 DEF OtherExceptions, LoggedStatus, ToScimError, HttpExceptions, PrismaErrors,
              InternalServerError, Statuses
<1> QED
  BY <1>1, <1>2, <1>3, <1>4

LEMMA Unauthorized == HttpExceptions.UnauthorizedException = 401
BY DEF HttpExceptions

-------------------------------------------------------------------------------
(* Type correctness. *)

LEMMA TypeInit == Init => TypeOK
BY TimesAssumption
   DEF Init, TypeOK, Horizon, Token, NoBearer, Phases, Waiting

LEMMA TypeNext == TypeOK /\ [Next]_vars => TypeOK'
<1> SUFFICES ASSUME TypeOK, [Next]_vars PROVE TypeOK'
  OBVIOUS
<1> USE DEF TypeOK
<1>1. ASSUME NEW k \in Keys, Rotate(k) PROVE TypeOK'
  BY <1>1, TimesAssumption DEF Rotate, slots, Horizon, Waiting
<1>2. CASE Tick
  BY <1>2, TimesAssumption, NoneAssumption DEF Tick, slots, Horizon, Waiting, Older
<1>3. CASE AnswerFetch
  BY <1>3, NoneAssumption DEF AnswerFetch, slots, Waiting
<1>4. CASE FetchSucceeds
  BY <1>4, NoneAssumption, TimesAssumption DEF FetchSucceeds, Waiting, Phases
<1>5. CASE FetchFails
  BY <1>5, NoneAssumption, Unauthorized DEF FetchFails, Waiting, Phases, Statuses
<1>6. ASSUME NEW r \in Requests, NEW t \in Token \cup {NoBearer}, Arrive(r, t) PROVE TypeOK'
  BY <1>6, NoneAssumption, Unauthorized, TimesAssumption
     DEF Arrive, Refuse, Proceed, Reload, Waiting, Phases, Statuses
<1>7. ASSUME NEW r \in Requests, Expire(r) PROVE TypeOK'
  BY <1>7 DEF Expire, Waiting, Token, NoBearer, Claims
<1>8. ASSUME NEW r \in Requests, LookUp(r) PROVE TypeOK'
  BY <1>8, NoneAssumption, Unauthorized, TimesAssumption
     DEF LookUp, Verified, Refuse, Proceed, Reload, Waiting, Phases, Statuses
<1>9. ASSUME NEW r \in Requests, Return(r) PROVE TypeOK'
  BY <1>9, NoneAssumption DEF Return, Waiting, Phases, Statuses
<1>10. ASSUME NEW r \in Requests, Throw(r) PROVE TypeOK'
  BY <1>10, NoneAssumption, StatusOfErrors DEF Throw, Waiting, Phases, Statuses
<1>11. ASSUME NEW r \in Requests, Respond(r) PROVE TypeOK'
  BY <1>11 DEF Respond, Waiting, Phases
<1>12. CASE Crash
  BY <1>12 DEF Crash, Waiting, Phases
<1>13. CASE UNCHANGED vars
  BY <1>13 DEF vars, slots, Waiting
<1> QED
  BY <1>1, <1>2, <1>3, <1>4, <1>5, <1>6, <1>7, <1>8, <1>9, <1>10, <1>11, <1>12, <1>13
     DEF Next, Serve

(* The copy of the keys, the fetch and the slots are always in order.      *)
THEOREM TypeCorrect == Spec => []TypeOK
BY TypeInit, TypeNext, PTL DEF Spec

-------------------------------------------------------------------------------
(* What the log says. *)

(* Until a request is answered nothing is logged or thrown for it.         *)
Unlogged ==
  \A r \in Requests :
    phase[r] # "answered" => logged[r] = None /\ thrown[r] = "nothing"

LogInv == TypeOK /\ Unlogged /\ LogTellsTheAnswer

LEMMA LogInit == Init => Unlogged /\ LogTellsTheAnswer
BY DEF Init, Unlogged, LogTellsTheAnswer

LEMMA LogNext == LogInv /\ [Next]_vars => Unlogged' /\ LogTellsTheAnswer'
<1> SUFFICES ASSUME LogInv, [Next]_vars PROVE Unlogged' /\ LogTellsTheAnswer'
  OBVIOUS
<1> USE Unauthorized DEF LogInv, TypeOK, Unlogged, LogTellsTheAnswer
<1>1. ASSUME NEW k \in Keys, Rotate(k) PROVE Unlogged' /\ LogTellsTheAnswer'
  BY <1>1 DEF Rotate, slots
<1>2. CASE Tick \/ AnswerFetch
  BY <1>2 DEF Tick, AnswerFetch, slots
<1>3. CASE FetchSucceeds
  BY <1>3 DEF FetchSucceeds
<1>4. CASE FetchFails
  BY <1>4 DEF FetchFails, Waiting
<1>5. ASSUME NEW r \in Requests, NEW t \in Token \cup {NoBearer}, Arrive(r, t)
      PROVE  Unlogged' /\ LogTellsTheAnswer'
  BY <1>5 DEF Arrive, Refuse, Proceed, Reload
<1>6. ASSUME NEW r \in Requests, Expire(r) PROVE Unlogged' /\ LogTellsTheAnswer'
  BY <1>6 DEF Expire
<1>7. ASSUME NEW r \in Requests, LookUp(r) PROVE Unlogged' /\ LogTellsTheAnswer'
  BY <1>7 DEF LookUp, Verified, Refuse, Proceed, Reload
<1>8. ASSUME NEW r \in Requests, Return(r) PROVE Unlogged' /\ LogTellsTheAnswer'
  BY <1>8, NoneAssumption DEF Return
<1>9. ASSUME NEW r \in Requests, Throw(r) PROVE Unlogged' /\ LogTellsTheAnswer'
  BY <1>9, NoneAssumption, StatusOfErrors DEF Throw, Statuses
<1>10. ASSUME NEW r \in Requests, Respond(r) PROVE Unlogged' /\ LogTellsTheAnswer'
  BY <1>10 DEF Respond
<1>11. CASE Crash
  BY <1>11 DEF Crash
<1>12. CASE UNCHANGED vars
  BY <1>12 DEF vars, slots
<1> QED
  BY <1>1, <1>2, <1>3, <1>4, <1>5, <1>6, <1>7, <1>8, <1>9, <1>10, <1>11, <1>12
     DEF Next, Serve

(* The line of the log that ends a request tells its answer, whatever the  *)
(* guard, the handler and the keys did meanwhile.                          *)
THEOREM LogTellsTheAnswerAlways == Spec => []LogTellsTheAnswer
<1>1. Init => LogInv
  BY TypeInit, LogInit DEF LogInv
<1>2. LogInv /\ [Next]_vars => LogInv'
  BY TypeNext, LogNext DEF LogInv
<1>3. LogInv => LogTellsTheAnswer
  BY DEF LogInv
<1> QED
  BY <1>1, <1>2, <1>3, PTL DEF Spec

-------------------------------------------------------------------------------
(* How old what the guard knows can be. *)

(* Keycloak's answer was right about a key when it was put together: it    *)
(* still is, or the key has changed since the fetch began.                 *)
FetchTells ==
  fetch # None /\ fetch.answer # None =>
    \A k \in Keys : \/ k \in fetch.answer <=> published[k].on
                    \/ published[k].since <= fetch.age

(* So is the guard's copy, which took at most FetchTimeout to get here;    *)
(* nothing is known of one that has reached the age at which it is fetched *)
(* again.                                                                  *)
CacheTells ==
  Fresh =>
    \A k \in Keys : \/ k \in cache.keys <=> published[k].on
                    \/ published[k].since <= cache.age + FetchTimeout

(* A key is looked for in a fresh copy, after a fetch in one just fetched: *)
(* no time passes between the two.                                         *)
LooksIntoFresh ==
  \A r \in Requests : /\ ~Ticking(phase[r]) => Fresh
                      /\ phase[r] \in {"loaded", "reloaded"} => cache.age = 0

KeysInv == TypeOK /\ FetchTells /\ CacheTells /\ LooksIntoFresh

LEMMA KeysInit == Init => FetchTells /\ CacheTells /\ LooksIntoFresh
BY DEF Init, FetchTells, CacheTells, LooksIntoFresh, Fresh, Ticking

(* A step that leaves the keys, the copy and what was answered alone, and  *)
(* lets nobody look into an old copy.                                      *)
LEMMA KeysFrame ==
  ASSUME KeysInv, UNCHANGED <<published, cache>>,
         \/ UNCHANGED fetch
         \/ fetch' = None
         \/ fetch'.answer = None,
         \A r \in Requests : phase'[r] # phase[r] =>
            Ticking(phase'[r]) \/ (phase'[r] = "looking" /\ Fresh)
  PROVE  FetchTells' /\ CacheTells' /\ LooksIntoFresh'
BY DEF KeysInv, FetchTells, CacheTells, LooksIntoFresh, Fresh, Ticking

LEMMA KeysNext == KeysInv /\ [Next]_vars => FetchTells' /\ CacheTells' /\ LooksIntoFresh'
<1> SUFFICES ASSUME KeysInv, [Next]_vars PROVE FetchTells' /\ CacheTells' /\ LooksIntoFresh'
  OBVIOUS
<1> DEFINE Goal == FetchTells' /\ CacheTells' /\ LooksIntoFresh'
<1> USE TimesAssumption
<1> TypeOK
  BY DEF KeysInv
<1>1. ASSUME NEW k \in Keys, Rotate(k) PROVE Goal
  <2>1. \A j \in Keys : published'[j] = published[j] \/ published'[j].since = 0
    BY <1>1 DEF Rotate, TypeOK
  <2>2. FetchTells'
    BY <1>1, <2>1, NoneAssumption DEF Rotate, slots, KeysInv, FetchTells, TypeOK
  <2>3. CacheTells'
    BY <1>1, <2>1, NoneAssumption DEF Rotate, slots, KeysInv, CacheTells, Fresh, TypeOK
  <2>4. LooksIntoFresh'
    BY <1>1 DEF Rotate, slots, KeysInv, LooksIntoFresh, Fresh
  <2> QED
    BY <2>2, <2>3, <2>4
<1>2. CASE Tick
  <2>1. \A k \in Keys : /\ published'[k].on = published[k].on
                        /\ published'[k].since <= published[k].since + 1
    BY <1>2 DEF Tick, Older, TypeOK, Horizon
  <2>2. FetchTells'
    <3> SUFFICES ASSUME fetch' # None, fetch'.answer # None, NEW k \in Keys
                 PROVE  \/ k \in fetch'.answer <=> published'[k].on
                        \/ published'[k].since <= fetch'.age
      BY DEF FetchTells
    <3>1. /\ fetch # None
          /\ fetch'.answer = fetch.answer
          /\ fetch.age \in Nat /\ fetch'.age = fetch.age + 1
      BY <1>2, NoneAssumption DEF Tick, TypeOK
    <3>2. \/ k \in fetch.answer <=> published[k].on
          \/ published[k].since <= fetch.age
      BY <3>1 DEF KeysInv, FetchTells
    <3>3. published[k].since \in Nat /\ published'[k].since \in Nat
      BY <1>2 DEF Tick, Older, TypeOK, Horizon
    <3> QED
      BY <2>1, <3>1, <3>2, <3>3
  <2>3. CacheTells'
    <3> SUFFICES ASSUME Fresh', NEW k \in Keys
                 PROVE  \/ k \in cache'.keys <=> published'[k].on
                        \/ published'[k].since <= cache'.age + FetchTimeout
      BY DEF CacheTells
    <3>1. /\ Fresh
          /\ cache'.keys = cache.keys
          /\ cache.age \in Nat /\ cache'.age = cache.age + 1
      BY <1>2, NoneAssumption DEF Tick, Fresh, Older, TypeOK
    <3>2. \/ k \in cache.keys <=> published[k].on
          \/ published[k].since <= cache.age + FetchTimeout
      BY <3>1 DEF KeysInv, CacheTells
    <3>3. published[k].since \in Nat /\ published'[k].since \in Nat
      BY <1>2 DEF Tick, Older, TypeOK, Horizon
    <3> QED
      BY <2>1, <3>1, <3>2, <3>3
  <2>4. LooksIntoFresh'
    BY <1>2 DEF Tick, slots, LooksIntoFresh, Ticking
  <2> QED
    BY <2>2, <2>3, <2>4
<1>3. CASE AnswerFetch
  BY <1>3 DEF AnswerFetch, slots, KeysInv, TypeOK, FetchTells, CacheTells, LooksIntoFresh, Fresh
<1>4. CASE FetchSucceeds
  <2>1. /\ cache' = [keys |-> fetch.answer, age |-> 0]
        /\ fetch' = None
        /\ published' = published
        /\ fetch.age <= FetchTimeout
    BY <1>4, NoneAssumption DEF FetchSucceeds, TypeOK
  <2>2. FetchTells'
    BY <2>1 DEF FetchTells
  <2>3. CacheTells'
    BY <1>4, <2>1, NoneAssumption
       DEF FetchSucceeds, KeysInv, FetchTells, CacheTells, TypeOK, Horizon
  <2>4. Fresh' /\ cache'.age = 0
    BY <2>1, <1>4, NoneAssumption DEF FetchSucceeds, Fresh, TypeOK
  <2>5. LooksIntoFresh'
    BY <2>4 DEF LooksIntoFresh
  <2> QED
    BY <2>2, <2>3, <2>5
<1>5. CASE FetchFails
  BY <1>5, KeysFrame DEF FetchFails, Waiting, Ticking, TypeOK
<1>6. ASSUME NEW r \in Requests, NEW t \in Token \cup {NoBearer}, Arrive(r, t) PROVE Goal
  BY <1>6, KeysFrame DEF Arrive, Refuse, Proceed, Reload, Ticking, TypeOK
<1>7. ASSUME NEW r \in Requests, Expire(r) PROVE Goal
  BY <1>7, KeysFrame DEF Expire
<1>8. ASSUME NEW r \in Requests, LookUp(r) PROVE Goal
  BY <1>8, KeysFrame DEF LookUp, Verified, Refuse, Proceed, Reload, Ticking, TypeOK
<1>9. ASSUME NEW r \in Requests, Return(r) \/ Throw(r) \/ Respond(r) PROVE Goal
  BY <1>9, KeysFrame DEF Return, Throw, Respond, Ticking, TypeOK
<1>10. CASE Crash
  BY <1>10 DEF Crash, FetchTells, CacheTells, LooksIntoFresh, Fresh, Ticking
<1>11. CASE UNCHANGED vars
  BY <1>11, KeysFrame DEF vars, slots
<1> QED
  BY <1>1, <1>2, <1>3, <1>4, <1>5, <1>6, <1>7, <1>8, <1>9, <1>10, <1>11 DEF Next, Serve

LEMMA KeysAlways == Spec => []KeysInv
<1>1. Init => KeysInv
  BY TypeInit, KeysInit DEF KeysInv
<1>2. KeysInv /\ [Next]_vars => KeysInv'
  BY TypeNext, KeysNext DEF KeysInv
<1> QED
  BY <1>1, <1>2, PTL DEF Spec

(* A handler runs only for a good token whose key Keycloak publishes or    *)
(* has withdrawn less than CacheMaxAge + FetchTimeout ago.                 *)
THEOREM WithdrawnKeysExpireAlways == Spec => WithdrawnKeysExpire
<1> DEFINE Step(r) ==
      phase[r] # "handling" /\ phase'[r] = "handling" =>
        /\ token[r].claims = "good"
        /\ token[r].key \in Keys
        /\ \/ published[token[r].key].on
           \/ published[token[r].key].since < CacheMaxAge + FetchTimeout
<1>1. KeysInv /\ [Next]_vars => \A r \in Requests : Step(r)
  <2> SUFFICES ASSUME KeysInv, [Next]_vars, NEW r \in Requests,
                      phase[r] # "handling", phase'[r] = "handling"
               PROVE  /\ token[r].claims = "good"
                      /\ token[r].key \in Keys
                      /\ \/ published[token[r].key].on
                         \/ published[token[r].key].since < CacheMaxAge + FetchTimeout
    OBVIOUS
  <2> TypeOK
    BY DEF KeysInv
  <2>1. LookUp(r)
    BY DEF TypeOK, Next, vars, slots, Rotate, Tick, AnswerFetch, FetchSucceeds, FetchFails, Arrive,
           Refuse, Proceed, Reload, Expire, Serve, LookUp, Verified, Return, Throw, Respond, Crash
  <2>2. token[r].claims = "good" /\ Cached(token[r].key)
    BY <2>1 DEF LookUp, Verified, Refuse, Reload, TypeOK
  <2>3. Fresh
    BY <2>1 DEF LookUp, KeysInv, LooksIntoFresh, Ticking
  <2>4. /\ token[r].key \in Keys
        /\ token[r].key \in cache.keys
        /\ cache.age \in Nat /\ cache.age < CacheMaxAge
    BY <2>2, <2>3 DEF Fresh, Cached, TypeOK
  <2>5. \/ published[token[r].key].on
        \/ published[token[r].key].since <= cache.age + FetchTimeout
    BY <2>3, <2>4 DEF KeysInv, CacheTells
  <2>6. published[token[r].key].since \in Nat
    BY <2>4 DEF TypeOK
  <2> QED
    BY <2>2, <2>4, <2>5, <2>6, TimesAssumption
<1> QED
  BY <1>1, KeysAlways, PTL DEF Spec, WithdrawnKeysExpire

(* A good token is refused only if the fetch for it failed or its key is   *)
(* younger than Cooldown + FetchTimeout.                                   *)
THEOREM GoodTokensRefusedOnlyIfNewAlways == Spec => GoodTokensRefusedOnlyIfNew
<1> DEFINE Step(r) ==
      /\ phase[r] # "answered"
      /\ answer'[r] = HttpExceptions.UnauthorizedException
      /\ token'[r].claims = "good"
      /\ token'[r].key \in Keys
      /\ ~missed'[r]
      => \/ ~published[token'[r].key].on
         \/ published[token'[r].key].since < Cooldown + FetchTimeout
<1>1. KeysInv /\ [Next]_vars => \A r \in Requests : Step(r)
  <2> SUFFICES ASSUME KeysInv, [Next]_vars, NEW r \in Requests,
                      phase[r] # "answered", answer'[r] = 401,
                      token'[r].claims = "good", token'[r].key \in Keys, ~missed'[r]
               PROVE  \/ ~published[token'[r].key].on
                      \/ published[token'[r].key].since < Cooldown + FetchTimeout
    BY Unauthorized
  <2> TypeOK
    BY DEF KeysInv
  <2>1. answer[r] = None
    BY DEF TypeOK
  <2>2. LookUp(r)
    <3>1. ASSUME NEW t \in Token \cup {NoBearer}, Arrive(r, t) PROVE FALSE
      BY <2>1, <3>1, NoneAssumption DEF Arrive, Refuse, NoBearer, TypeOK
    <3>2. ASSUME Throw(r) PROVE FALSE
      BY <3>2, StatusOfErrors DEF Throw, TypeOK
    <3>3. ASSUME Return(r) \/ Respond(r) \/ Expire(r) PROVE FALSE
      BY <2>1, <3>3, NoneAssumption DEF Return, Respond, Expire, TypeOK
    <3>4. ASSUME NEW s \in Requests \ {r},
                 (\E t \in Token \cup {NoBearer} : Arrive(s, t)) \/ Expire(s) \/ Serve(s)
          PROVE  FALSE
      BY <2>1, <3>4, NoneAssumption
         DEF TypeOK, Arrive, Refuse, Expire, Serve, LookUp, Verified, Return, Throw, Respond
    <3>5. ASSUME UNCHANGED vars \/ Crash \/ FetchSucceeds \/ Tick \/ AnswerFetch
                   \/ \E k \in Keys : Rotate(k)
          PROVE  FALSE
      BY <2>1, <3>5, NoneAssumption
         DEF TypeOK, vars, slots, Crash, FetchSucceeds, Tick, AnswerFetch, Rotate
    <3>6. ASSUME FetchFails PROVE FALSE
      <4>1. missed'[r] = (missed[r] \/ Waiting(r))
        BY <3>6 DEF FetchFails
      <4>2. answer'[r] = IF Waiting(r) THEN 401 ELSE answer[r]
        BY <3>6, Unauthorized DEF FetchFails
      <4>3. Waiting(r)
        BY <2>1, <4>2, NoneAssumption
      <4> QED
        BY <4>1, <4>3, Zenon
    <3> QED
      BY <3>1, <3>2, <3>3, <3>4, <3>5, <3>6 DEF Next, Serve
  <2>3. token' = token
    BY <2>2 DEF LookUp
  <2>4. /\ ~Cached(token[r].key)
        /\ phase[r] = "reloaded" \/ CoolingDown
    BY <2>1, <2>2, <2>3, NoneAssumption DEF LookUp, Verified, TypeOK
  <2>5. Fresh
    BY <2>2 DEF LookUp, KeysInv, LooksIntoFresh, Ticking
  <2>6. cache.age \in Nat /\ cache.age < Cooldown
    BY <2>4, <2>5, TimesAssumption DEF KeysInv, LooksIntoFresh, TypeOK, CoolingDown, Fresh
  <2>7. \/ ~published[token[r].key].on
        \/ published[token[r].key].since <= cache.age + FetchTimeout
    BY <2>3, <2>4, <2>5 DEF KeysInv, CacheTells, Cached
  <2>8. published[token[r].key].since \in Nat
    BY <2>3 DEF TypeOK
  <2> QED
    BY <2>3, <2>6, <2>7, <2>8, TimesAssumption
<1> QED
  BY <1>1, KeysAlways, PTL DEF Spec, GoodTokensRefusedOnlyIfNew
===============================================================================
