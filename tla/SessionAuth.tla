---------------------------- MODULE SessionAuth ----------------------------
(***************************************************************************)
(* Session validation in reports-api (reports/src/middleware/auth.py):     *)
(* gunicorn workers with several threads each (gunicorn.conf.py) run       *)
(* require_auth; a session is looked up in the cache (main.py: Redis, or   *)
(* one in-process SimpleCache per worker), then asked of the backend       *)
(* through the worker's circuit breaker, then cached for SessionTTL.       *)
(* POST /internal/cache/invalidate deletes one entry.  The backend, Redis, *)
(* the clock and worker restarts are the environment.                      *)
(*                                                                         *)
(* An action per place where another thread, the backend or the clock can  *)
(* come between two steps of a request: cache read, call begun, answer     *)
(* decided by the backend, answer received or call failed, cache write.    *)
(***************************************************************************)
EXTENDS Breaker

CONSTANTS Worker,       \* gunicorn worker processes
          Thread,       \* request threads of all workers (gthread)
          WorkerOf,     \* the worker a thread belongs to
          Token,        \* access tokens (a token and its hash alike)
          NoToken,      \* request without an access_token cookie
          NoThread,     \* nobody holds the breaker's lock
          CacheType,    \* "RedisCache" or "SimpleCache"
          SessionTTL,   \* timeout of cache.set, in ticks
          MaxLag        \* ticks an answer may age before it is cached

ASSUME SessionAssumption ==
    /\ WorkerOf \in [Thread -> Worker]
    /\ NoToken \notin Token
    /\ NoThread \notin Thread
    /\ CacheType \in {"RedisCache", "SimpleCache"}
    /\ SessionTTL \in Nat \ {0}
    /\ MaxLag \in Nat

VARIABLES request,   \* what each thread is doing
          breaker,   \* _AUTH_BREAKER of each worker process
          lock,      \* the thread inside each worker's breaker, or NoThread
          ttl,       \* ticks each cached entry still has to live, 0 if absent
          redisUp,   \* does Redis answer?
          healthy,   \* does the backend answer within _AUTH_TIMEOUT?
          valid,     \* would the backend accept the token now?
          since      \* ticks since it stopped accepting it (up to SinceCap)

vars == <<request, breaker, lock, ttl, redisUp, healthy, valid, since>>
environment == <<redisUp, healthy, valid, since>>
-----------------------------------------------------------------------------
(* CACHE_CONFIG: one Redis for every worker, or a dictionary per worker.   *)
Store == IF CacheType = "RedisCache" THEN {"redis"} ELSE Worker

StoreOf(w) == IF CacheType = "RedisCache" THEN "redis" ELSE w

CacheReachable == CacheType = "RedisCache" => redisUp

NoEntries == [s \in Store |-> [t \in Token |-> 0]]

SinceCap == SessionTTL + MaxLag

Requests == [pc : {"idle", "lookup", "call", "wait", "answered", "handle",
                   "replied"},
             tok : Token \cup {NoToken},
             sendable : BOOLEAN,
             answer : {"none", "accept", "reject", "error"},
             age : 0 .. MaxLag,
             reply : {"none", "handled", "401", "500", "503", "503open"}]

At(th, label) == request[th].pc = label

Moved(r, label) == [r EXCEPT !.pc = label]

Answered(r, a) == [r EXCEPT !.pc = "answered", !.answer = a]

(* A response is on its way, or received and not yet acted upon.           *)
HoldsAnswer(r) == r.pc \in {"answered", "handle"}

Aging(r) == IF HoldsAnswer(r) THEN [r EXCEPT !.age = @ + 1] ELSE r

Fresh(label, t, code) == [pc |-> label, tok |-> t, sendable |-> TRUE,
                          answer |-> "none", age |-> 0, reply |-> code]

Incoming(t, s) == [Fresh("lookup", t, "none") EXCEPT !.sendable = s]

Idle == Fresh("idle", NoToken, "none")

Become(th, r) == request' = [request EXCEPT ![th] = r]

Reply(th, code) == Become(th, Fresh("replied", request[th].tok, code))

-----------------------------------------------------------------------------
Init ==
    /\ request = [th \in Thread |-> Idle]
    /\ breaker = [w \in Worker |-> ClosedBreaker]
    /\ lock = [w \in Worker |-> NoThread]
    /\ ttl = NoEntries
    /\ redisUp = TRUE
    /\ healthy = TRUE
    /\ valid \in [Token -> BOOLEAN]
    /\ since = [t \in Token |-> 0]

(* A request reaches require_auth, with a cookie and an X-Request-Id that  *)
(* httpx may or may not be able to put into a request of its own.          *)
Arrive(th) ==
    /\ At(th, "idle")
    /\ \E t \in Token \cup {NoToken}, s \in BOOLEAN :
          Become(th, Incoming(t, s))
    /\ UNCHANGED <<breaker, lock, ttl, environment>>

(* Mutant: a hit renews the entry.                                         *)
CacheLookupSliding(th) ==
    LET tok == request[th].tok
        s   == StoreOf(WorkerOf[th])
    IN
    /\ At(th, "lookup")
    /\ \/ /\ tok = NoToken
          /\ Reply(th, "401")
          /\ UNCHANGED ttl
       \/ /\ tok # NoToken
          /\ CacheReachable
          /\ ttl[s][tok] > 0
          /\ ttl' = [ttl EXCEPT ![s][tok] = SessionTTL]
          /\ Reply(th, "handled")
       \/ /\ tok # NoToken
          /\ CacheReachable
          /\ ttl[s][tok] = 0
          /\ Become(th, Moved(request[th], "call"))
          /\ UNCHANGED ttl
    /\ UNCHANGED <<breaker, lock, environment>>

(* _validate_session up to the call: no cookie, cache hit, cache miss, or  *)
(* an exception of the Redis client, which nothing catches.                *)
CacheLookup(th) ==
    LET tok == request[th].tok IN
    /\ At(th, "lookup")
    /\ \/ /\ tok = NoToken
          /\ Reply(th, "401")
       \/ /\ tok # NoToken
          /\ ~CacheReachable
          /\ Reply(th, "500")
       \/ /\ tok # NoToken
          /\ CacheReachable
          /\ ttl[StoreOf(WorkerOf[th])][tok] > 0
          /\ Reply(th, "handled")
       \/ /\ tok # NoToken
          /\ CacheReachable
          /\ ttl[StoreOf(WorkerOf[th])][tok] = 0
          /\ Become(th, Moved(request[th], "call"))
    /\ UNCHANGED <<breaker, lock, ttl, environment>>

(* Mutant: the lock is taken without looking who has it.                   *)
EnterBreakerUnlocked(th) ==
    LET w == WorkerOf[th] IN
    /\ At(th, "call")
    /\ MayCall(breaker[w])
    /\ breaker' = [breaker EXCEPT ![w] = BeforeCall(@)]
    /\ lock' = [lock EXCEPT ![w] = th]
    /\ Become(th, Moved(request[th], "wait"))
    /\ UNCHANGED <<ttl, environment>>

(* Mutant: a call that an open breaker refuses counts as one more failure. *)
EnterBreakerCountsRefusals(th) ==
    LET w == WorkerOf[th] IN
    /\ At(th, "call")
    /\ lock[w] = NoThread
    /\ \/ /\ MayCall(breaker[w])
          /\ breaker' = [breaker EXCEPT ![w] = BeforeCall(@)]
          /\ lock' = [lock EXCEPT ![w] = th]
          /\ Become(th, Moved(request[th], "wait"))
       \/ /\ ~MayCall(breaker[w])
          /\ breaker' = [breaker EXCEPT ![w] = AfterFailure(@)]
          /\ Reply(th, "503open")
          /\ UNCHANGED lock
    /\ UNCHANGED <<ttl, environment>>

(* The decorated _call_auth_backend takes the breaker's lock for the whole *)
(* call.                                                                   *)
EnterBreaker(th) ==
    LET w == WorkerOf[th] IN
    /\ At(th, "call")
    /\ lock[w] = NoThread
    /\ \/ /\ MayCall(breaker[w])
          /\ breaker' = [breaker EXCEPT ![w] = BeforeCall(@)]
          /\ lock' = [lock EXCEPT ![w] = th]
          /\ Become(th, Moved(request[th], "wait"))
       \/ /\ ~MayCall(breaker[w])
          /\ Reply(th, "503open")
          /\ UNCHANGED <<breaker, lock>>
    /\ UNCHANGED <<ttl, environment>>

(* The backend decides: 200 with a user for a token it accepts, 401/403    *)
(* for the others, and for any token 429, 5xx or an unusable payload.      *)
BackendDecides(th) ==
    /\ At(th, "wait")
    /\ request[th].sendable
    /\ \E a \in {IF valid[request[th].tok] THEN "accept" ELSE "reject", "error"} :
          Become(th, Answered(request[th], a))
    /\ UNCHANGED <<breaker, lock, ttl, environment>>

(* The call returns: a success for the breaker whatever the status.        *)
ResponseArrives(th) ==
    LET w == WorkerOf[th] IN
    /\ At(th, "answered")
    /\ breaker' = [breaker EXCEPT ![w] = AfterSuccess(@)]
    /\ lock' = [lock EXCEPT ![w] = NoThread]
    /\ Become(th, Moved(request[th], "handle"))
    /\ UNCHANGED <<ttl, environment>>

(* Mutant: an exception leaves the lock taken.                             *)
EndInExceptionLocked(th, code) ==
    LET w == WorkerOf[th] IN
    /\ breaker' = [breaker EXCEPT ![w] = AfterFailure(@)]
    /\ Reply(th, IF Trips(breaker[w]) THEN "503open" ELSE code)
    /\ UNCHANGED <<lock, ttl, environment>>

(* An exception leaves the decorated function: it counts, whatever it is,  *)
(* and the one that opens the breaker becomes a CircuitBreakerError.       *)
EndInException(th, code) ==
    LET w == WorkerOf[th] IN
    /\ breaker' = [breaker EXCEPT ![w] = AfterFailure(@)]
    /\ lock' = [lock EXCEPT ![w] = NoThread]
    /\ Reply(th, IF Trips(breaker[w]) THEN "503open" ELSE code)
    /\ UNCHANGED <<ttl, environment>>

(* Mutant: a call that fails is taken for a session that is not valid.     *)
CallFailsRefuses(th) ==
    /\ At(th, "wait") \/ At(th, "answered")
    /\ ~healthy
    /\ EndInException(th, "401")

(* TimeoutException or RequestError, also when the backend has decided and *)
(* its response comes too late.                                            *)
CallFails(th) ==
    /\ At(th, "wait") \/ At(th, "answered")
    /\ ~healthy
    /\ EndInException(th, "503")

(* httpx cannot send what the client gave it: an X-Request-Id that is not  *)
(* ASCII (UnicodeEncodeError, which nothing catches) or a control          *)
(* character in a header (LocalProtocolError, a RequestError).             *)
CallRaises(th) ==
    /\ At(th, "wait")
    /\ ~request[th].sendable
    /\ \E code \in {"500", "503"} : EndInException(th, code)

(* Mutant: the answer is cached before its status is looked at.            *)
HandleResponseCachesAll(th) ==
    LET s == StoreOf(WorkerOf[th]) IN
    /\ At(th, "handle")
    /\ CacheReachable
    /\ ttl' = [ttl EXCEPT ![s][request[th].tok] = SessionTTL]
    /\ Reply(th, IF request[th].answer = "accept" THEN "handled" ELSE "401")
    /\ UNCHANGED <<breaker, lock, environment>>

(* 200 with a valid payload: cache it, then run the view.  The try block   *)
(* around cache.set turns an unreachable Redis into None, hence 401.       *)
HandleResponse(th) ==
    LET tok == request[th].tok
        s   == StoreOf(WorkerOf[th])
    IN
    /\ At(th, "handle")
    /\ \/ /\ request[th].answer = "accept"
          /\ CacheReachable
          /\ ttl' = [ttl EXCEPT ![s][tok] = SessionTTL]
          /\ Reply(th, "handled")
       \/ /\ request[th].answer = "accept" => ~CacheReachable
          /\ Reply(th, "401")
          /\ UNCHANGED ttl
    /\ UNCHANGED <<breaker, lock, environment>>

(* The response has left; the thread takes the next connection.            *)
Finish(th) ==
    /\ At(th, "replied")
    /\ Become(th, Idle)
    /\ UNCHANGED <<breaker, lock, ttl, environment>>

(* POST /internal/cache/invalidate served by worker w, with the full hash  *)
(* of t.  (A hash of 10 to 31 characters names no entry: no change.)       *)
InvalidateSessionCache(w, t) ==
    /\ CacheReachable
    /\ ttl' = [ttl EXCEPT ![StoreOf(w)][t] = 0]
    /\ UNCHANGED <<request, breaker, lock, environment>>
-----------------------------------------------------------------------------
(* max_requests reached, or the worker was killed: its threads' requests   *)
(* end without an answer; the forked successor starts afresh.              *)
WorkerRestart(w) ==
    /\ request' = [th \in Thread |-> IF WorkerOf[th] = w THEN Idle
                                                         ELSE request[th]]
    /\ breaker' = [breaker EXCEPT ![w] = ClosedBreaker]
    /\ lock' = [lock EXCEPT ![w] = NoThread]
    /\ ttl' = IF CacheType = "SimpleCache"
                 THEN [ttl EXCEPT ![w] = [t \in Token |-> 0]] ELSE ttl
    /\ UNCHANGED environment

(* allkeys-lru: Redis makes room for another entry.                        *)
Evict(s, t) ==
    /\ ttl[s][t] > 0
    /\ ttl' = [ttl EXCEPT ![s][t] = 0]
    /\ UNCHANGED <<request, breaker, lock, environment>>

(* Redis stops or starts answering; a restart comes back empty, because    *)
(* the server is started with no snapshots and no append-only file.        *)
RedisFlips ==
    /\ CacheType = "RedisCache"
    /\ redisUp' = ~redisUp
    /\ ttl' \in {ttl, NoEntries}
    /\ UNCHANGED <<request, breaker, lock, healthy, valid, since>>

BackendFlips ==
    /\ healthy' = ~healthy
    /\ UNCHANGED <<request, breaker, lock, ttl, redisUp, valid, since>>

(* The backend stops accepting t, for good.                                *)
Revoke(t) ==
    /\ valid[t]
    /\ valid' = [valid EXCEPT ![t] = FALSE]
    /\ UNCHANGED <<request, breaker, lock, ttl, redisUp, healthy, since>>

(* Time passes for cache entries, cooldowns and answers on their way; no   *)
(* answer gets older than MaxLag before it is acted upon.                  *)
Tick ==
    /\ \A th \in Thread : HoldsAnswer(request[th]) => request[th].age < MaxLag
    /\ request' = [th \in Thread |-> Aging(request[th])]
    /\ breaker' = [w \in Worker |-> Aged(breaker[w])]
    /\ ttl' = [s \in Store |-> [t \in Token |->
                 IF ttl[s][t] = 0 THEN 0 ELSE ttl[s][t] - 1]]
    /\ since' = [t \in Token |->
                   IF valid[t] \/ since[t] = SinceCap THEN since[t]
                                                      ELSE since[t] + 1]
    /\ UNCHANGED <<lock, redisUp, healthy, valid>>
-----------------------------------------------------------------------------
ThreadStep(th) ==
    \/ CacheLookup(th) \/ EnterBreaker(th) \/ BackendDecides(th)
    \/ ResponseArrives(th) \/ CallFails(th) \/ CallRaises(th)
    \/ HandleResponse(th) \/ Finish(th)

Environment ==
    \/ \E w \in Worker : WorkerRestart(w)
    \/ \E s \in Store, t \in Token : Evict(s, t)
    \/ \E t \in Token : Revoke(t)
    \/ RedisFlips \/ BackendFlips \/ Tick

Next ==
    \/ \E th \in Thread : Arrive(th) \/ ThreadStep(th)
    \/ \E w \in Worker, t \in Token : InvalidateSessionCache(w, t)
    \/ Environment

Spec == Init /\ [][Next]_vars

(* A thread that can move does, httpx's timeout included; time passes.     *)
FairSpec == Spec /\ (\A th \in Thread : WF_vars(ThreadStep(th))) /\ WF_vars(Tick)
-----------------------------------------------------------------------------
(* Types of the variables.                                                 *)
TypeOK ==
    /\ request \in [Thread -> Requests]
    /\ breaker \in [Worker -> Breakers]
    /\ lock \in [Worker -> Thread \cup {NoThread}]
    /\ ttl \in [Store -> [Token -> 0 .. SessionTTL]]
    /\ redisUp \in BOOLEAN
    /\ healthy \in BOOLEAN
    /\ valid \in [Token -> BOOLEAN]
    /\ since \in [Token -> 0 .. SinceCap]

InCall(th) == At(th, "wait") \/ At(th, "answered")

(* A worker has at most one call to the backend in flight, none while its  *)
(* breaker is open, and exactly one, the trial, while it is half open:     *)
(* the other threads of the worker wait outside _call_auth_backend.        *)
OneCallPerWorker ==
    \A w \in Worker :
        /\ \A th1, th2 \in Thread :
              /\ WorkerOf[th1] = w /\ WorkerOf[th2] = w
              /\ InCall(th1) /\ InCall(th2)
              => th1 = th2
        /\ breaker[w].mode = "open" =>
              ~ \E th \in Thread : WorkerOf[th] = w /\ InCall(th)
        /\ breaker[w].mode = "half_open" =>
              \E th \in Thread : WorkerOf[th] = w /\ InCall(th)

(* A cached session never outlives the backend's acceptance of its token   *)
(* by more than the TTL plus the age of the answer it was cached from.     *)
EntriesExpire ==
    \A s \in Store, t \in Token :
        ttl[s][t] > 0 /\ ~valid[t] => since[t] + ttl[s][t] <= SinceCap

Admits(th) == request[th].reply # "handled" /\ request'[th].reply = "handled"

AdmissionIsFresh ==
    \A th \in Thread : Admits(th) => \/ valid[request[th].tok]
                                    \/ since[request[th].tok] < SinceCap

(* No view runs for a token the backend stopped accepting SessionTTL +     *)
(* MaxLag ticks ago or earlier, whichever thread, worker or cache serves   *)
(* it and however often the entry was refilled.                            *)
StaleAdmissionBounded == [][AdmissionIsFresh]_vars

(* Nothing in reports-api still vouches for t.                             *)
Forgotten(t) ==
    /\ ~valid[t]
    /\ \A s \in Store : ttl[s][t] = 0
    /\ \A th \in Thread : request[th].tok = t => request[th].answer # "accept"

ForgottenStaysOut ==
    \A t \in Token : Forgotten(t) =>
       Forgotten(t)' /\ \A th \in Thread : Admits(th) => request[th].tok # t

(* Once no cache entry and no answer under way vouches for a token the     *)
(* backend rejects, no step brings one back or runs a view for it.         *)
ForgottenForGood == [][ForgottenStaysOut]_vars

Refuses(th) == request[th].reply # "401" /\ request'[th].reply = "401"

RefusalIsFounded ==
    \A th \in Thread, t \in Token :
        Refuses(th) /\ request[th].tok = t /\ valid[t]
          => request[th].answer = "error" \/ ~CacheReachable

(* A token that the backend accepts is called invalid (401) only after an  *)
(* answer that was neither 200 nor 401 or 403, or when the cache could not *)
(* be written; a call that fails, a lookup that fails and an open breaker  *)
(* never do it, however the backend and Redis come and go meanwhile.       *)
RefusedForACause == [][RefusalIsFounded]_vars

(* Each worker's breaker, lock and threads implement the call policy the   *)
(* backend is promised.                                                    *)
Policy(w) == INSTANCE CallPolicy WITH calling <- lock[w] # NoThread,
                                      bad <- breaker[w].fails,
                                      pause <- breaker[w].cooldown

PolicyStart == \A w \in Worker : Policy(w)!PolicyInit

PolicyStep == \A w \in Worker : [Policy(w)!PolicyNext]_(Policy(w)!policyVars)

CallPolicyHolds == PolicyStart /\ [][PolicyStep]_vars

(* What the client of a request has come to know.                          *)
Outcome(r) ==
    CASE r.pc = "idle" -> "none"
      [] r.pc = "replied" /\ r.reply = "handled" -> "admitted"
      [] r.pc = "replied" /\ r.reply = "401" -> "refused"
      [] r.pc = "replied" /\ r.reply \notin {"handled", "401"} -> "failed"
      [] HoldsAnswer(r) /\ r.answer = "error" -> "unsure"
      [] r.pc \in {"lookup", "call", "wait"} /\ ~r.sendable -> "odd"
      [] OTHER -> "due"

(* Tokens that the backend accepts, or that an entry or an answer under    *)
(* way still vouches for.                                                  *)
Trusted ==
    {t \in Token : \/ valid[t]
                   \/ \E s \in Store : ttl[s][t] # 0
                   \/ \E th \in Thread : /\ request[th].tok = t
                                         /\ request[th].answer = "accept"}

Asked == [th \in Thread |-> request[th].tok]

Outcomes == [th \in Thread |-> Outcome(request[th])]

Pauses == [w \in Worker |-> breaker[w].cooldown]

Promise == INSTANCE SessionPromise
    WITH Client <- Thread, Process <- Worker, ProcessOf <- WorkerOf,
         Tokens <- Token, Grace <- SinceCap, Pause <- ResetTimeout,
         asked <- Asked, outcome <- Outcomes, accepted <- valid, age <- since,
         trusted <- Trusted, paused <- Pauses,
         backendUp <- healthy, cacheUp <- CacheReachable

(* What a client sees of session validation is one atomic decision on its  *)
(* own token, whatever caches, breakers and other threads do meanwhile: an *)
(* admission is backed, a refusal is founded, and 500 or 503 comes only    *)
(* while Redis or the backend is away, to a request that cannot be sent    *)
(* on, or within reset_timeout of a call of this worker that failed for    *)
(* one of these reasons.                                                   *)
ClientsSeePromise == Promise!PromiseSpec

Pending(w) == \E th \in Thread : WorkerOf[th] = w /\ At(th, "call")

Ended(th) == At(th, "replied") \/ At(th, "idle")

(* A thread inside the call gets its answer, and a worker whose threads    *)
(* queue for the breaker answers one of them: the lock is never left with  *)
(* a thread that has gone, whether its call succeeded, failed or died.     *)
(* (Which of the queueing threads comes next is up to the lock.)           *)
WorkerAnswers ==
    /\ \A th \in Thread : InCall(th) ~> Ended(th)
    /\ \A w \in Worker :
          Pending(w) ~> \/ \E th \in Thread : WorkerOf[th] = w /\ At(th, "replied")
                        \/ \A th \in Thread : WorkerOf[th] = w => At(th, "idle")

CallsCanSucceed(w) ==
    healthy /\ \A th \in Thread : WorkerOf[th] = w => request[th].sendable

(* When calls stop failing (the backend stays healthy and no request comes *)
(* that cannot be sent) and requests keep needing it, the breaker closes   *)
(* and stays closed.                                                       *)
BreakerRecovers ==
    \A w \in Worker :
        (<>[]CallsCanSucceed(w) /\ []<>Pending(w))
            => <>[](breaker[w].mode = "closed")
-----------------------------------------------------------------------------
(* The lock is held by exactly the thread that is inside the call, and the *)
(* breaker's counters agree with its mode and with the lock.               *)
BreakerInv ==
    /\ \A th \in Thread : InCall(th) <=> lock[WorkerOf[th]] = th
    /\ \A w \in Worker :
          /\ lock[w] # NoThread => WorkerOf[lock[w]] = w
          /\ Consistent(breaker[w])
          /\ breaker[w].mode = "open" => lock[w] = NoThread
          /\ breaker[w].mode = "half_open" => lock[w] # NoThread

(* An accepting answer not yet acted upon is about a cookie's token, and   *)
(* that token was good when the answer was MaxLag ticks younger or less.   *)
AnswerInv ==
    \A th \in Thread :
        /\ request[th].pc \in {"call", "wait", "answered", "handle"} =>
              request[th].tok \in Token
        /\ request[th].answer = "accept" =>
              /\ HoldsAnswer(request[th])
              /\ \/ valid[request[th].tok]
                 \/ since[request[th].tok] <= request[th].age

(* An answer under way is one, and a rejected token stays rejected.        *)
RejectInv ==
    \A th \in Thread :
        /\ HoldsAnswer(request[th]) => request[th].answer # "none"
        /\ \A t \in Token : request[th].answer = "reject" /\ request[th].tok = t
                            => ~valid[t]

(* The clock of a token starts when the backend stops accepting it.        *)
ClockInv == \A t \in Token : valid[t] => since[t] = 0

(* The inductive invariant behind the safety properties above;             *)
(* RefusedForACause takes RejectInv as well.                               *)
IndInv == TypeOK /\ BreakerInv /\ ClockInv /\ AnswerInv /\ EntriesExpire
=============================================================================
