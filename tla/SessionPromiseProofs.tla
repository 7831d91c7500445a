------------------------ MODULE SessionPromiseProofs ------------------------
(***************************************************************************)
(* SessionAuth implements SessionPromise, for any number of workers,       *)
(* threads and tokens, any timing constants and both cache types.          *)
(***************************************************************************)
EXTENDS SessionAuthProofs

(* What a client knows at each point of its request.                       *)
LEMMA OutcomeFacts ==
    ASSUME NEW r \in Requests
    PROVE  /\ r.pc = "idle" => Outcome(r) = "none"
           /\ r.pc \in {"lookup", "call", "wait"} =>
                 Outcome(r) = IF r.sendable THEN "due" ELSE "odd"
           /\ r.pc = "replied" =>
                 /\ r.reply = "handled" => Outcome(r) = "admitted"
                 /\ r.reply = "401" => Outcome(r) = "refused"
                 /\ r.reply \notin {"handled", "401"} => Outcome(r) = "failed"
           /\ HoldsAnswer(r) =>
                 Outcome(r) = IF r.answer = "error" THEN "unsure" ELSE "due"
<1>1. r.pc \in {"idle", "lookup", "call", "wait", "answered", "handle", "replied"}
  BY DEF Requests
<1>2. CASE r.pc = "idle"
  BY <1>2 DEF Outcome, HoldsAnswer
<1>3. CASE r.pc \in {"lookup", "call", "wait"}
  BY <1>3 DEF Outcome, HoldsAnswer
<1>4. CASE r.pc = "replied"
  BY <1>4 DEF Outcome, HoldsAnswer
<1>5. CASE r.pc \in {"answered", "handle"}
  BY <1>5 DEF Outcome, HoldsAnswer
<1> QED BY <1>1, <1>2, <1>3, <1>4, <1>5

(* A thread's own step changes what its own client knows.                  *)
LEMMA OneMoves ==
    ASSUME TypeOK, NEW th \in Thread, NEW r \in Requests, Become(th, r)
    PROVE  /\ Outcomes' = [Outcomes EXCEPT ![th] = Outcome(r)]
           /\ Asked' = [Asked EXCEPT ![th] = r.tok]
           /\ r.tok = request[th].tok => Asked' = Asked
           /\ Outcome(r) = Outcome(request[th]) => Outcomes' = Outcomes
<1>1. \A u \in Thread : request'[u] = IF u = th THEN r ELSE request[u]
  BY DEF Become, TypeOK
<1>2. /\ Outcomes' = [u \in Thread |-> Outcome(request'[u])]
      /\ Asked' = [u \in Thread |-> request'[u].tok]
  BY DEF Outcomes, Asked
<1>3. Outcomes' = [Outcomes EXCEPT ![th] = Outcome(r)]
  BY <1>1, <1>2 DEF Outcomes
<1>4. Asked' = [Asked EXCEPT ![th] = r.tok]
  BY <1>1, <1>2 DEF Asked
<1>5. ASSUME r.tok = request[th].tok PROVE Asked' = Asked
  BY <1>1, <1>2, <1>5 DEF Asked
<1>6. ASSUME Outcome(r) = Outcome(request[th]) PROVE Outcomes' = Outcomes
  BY <1>1, <1>2, <1>6 DEF Outcomes
<1> QED BY <1>3, <1>4, <1>5, <1>6

LEMMA ReplyMoves ==
    ASSUME TypeOK, NEW th \in Thread,
           NEW c \in {"handled", "401", "500", "503", "503open"}, Reply(th, c)
    PROVE  /\ Outcomes' = [Outcomes EXCEPT ![th] =
                              IF c = "handled" THEN "admitted"
                              ELSE IF c = "401" THEN "refused" ELSE "failed"]
           /\ Asked' = Asked
<1>1. PICK r \in Requests : /\ Become(th, r)
                            /\ r.pc = "replied"
                            /\ r.tok = request[th].tok
                            /\ r.reply = c
  BY ReplyFacts
<1>2. Outcome(r) = IF c = "handled" THEN "admitted"
                   ELSE IF c = "401" THEN "refused" ELSE "failed"
  BY <1>1, OutcomeFacts
<1> QED BY <1>1, <1>2, OneMoves

(* A step that no client sees.                                             *)
LEMMA Unseen ==
    ASSUME Outcomes' = Outcomes, Asked' = Asked, Pauses' = Pauses,
           valid' = valid, since' = since, healthy' = healthy, redisUp' = redisUp
    PROVE  Promise!Forget
BY DEF Promise!Forget, Promise!tokens, Promise!services, CacheReachable

(* What the abstract state is, where the actions below look at it.         *)
LEMMA Seen ==
    ASSUME TypeOK, NEW th \in Thread
    PROVE  /\ Outcomes[th] = Outcome(request[th])
           /\ Asked[th] = request[th].tok
           /\ Pauses[WorkerOf[th]] = breaker[WorkerOf[th]].cooldown
BY RequestFacts DEF Outcomes, Asked, Pauses
-----------------------------------------------------------------------------
(* One lemma per handler: what the client of the thread sees of it.        *)
LEMMA ArriveAsks ==
    ASSUME TypeOK, NEW th \in Thread, Arrive(th)
    PROVE  \E t \in Token \cup {NoToken} : Promise!Ask(th, t)
<1>1. PICK t \in Token \cup {NoToken}, s \in BOOLEAN :
         Become(th, Incoming(t, s))
  BY DEF Arrive
<1> DEFINE r == Incoming(t, s)
<1>2. r \in Requests /\ r.tok = t /\ Outcome(r) \in Promise!Open
  BY IncomingRequest, OutcomeFacts DEF Promise!Open
<1>3. /\ Outcomes' = [Outcomes EXCEPT ![th] = Outcome(r)]
      /\ Asked' = [Asked EXCEPT ![th] = t]
  BY <1>1, <1>2, OneMoves
<1>4. Outcomes[th] = "none"
  BY Seen, RequestFacts, OutcomeFacts DEF Arrive, At
<1>5. /\ Pauses' = Pauses /\ CacheReachable' = CacheReachable
      /\ UNCHANGED <<valid, since, healthy>>
  BY DEF Arrive, environment, Pauses, CacheReachable
<1>6. Promise!Ask(th, t)
  BY <1>2, <1>3, <1>4, <1>5 DEF Promise!Ask, Promise!tokens, Promise!services
<1> QED BY <1>6

LEMMA LookupSeen ==
    ASSUME IndInv, NEW th \in Thread, CacheLookup(th)
    PROVE  Promise!Refuse(th) \/ Promise!Fail(th) \/ Promise!Admit(th) \/ Promise!Forget
<1> DEFINE t == request[th].tok
           s == StoreOf(WorkerOf[th])
<1>0. TypeOK
  BY DEF IndInv
<1>1. /\ Pauses' = Pauses /\ CacheReachable' = CacheReachable
      /\ UNCHANGED <<valid, since, healthy, redisUp>>
  BY DEF CacheLookup, environment, Pauses, CacheReachable
<1>2. Outcomes[th] \in Promise!Open /\ Asked[th] = t
  BY <1>0, Seen, RequestFacts, OutcomeFacts DEF CacheLookup, At, Promise!Open
<1>3. CASE t = NoToken /\ Reply(th, "401")
  <2>1. Outcomes' = [Outcomes EXCEPT ![th] = "refused"] /\ Asked' = Asked
    BY <1>0, <1>3, ReplyMoves
  <2>2. Promise!Refuse(th)
    BY <1>1, <1>2, <1>3, <2>1, SessionAssumption
       DEF Promise!Refuse, Promise!Ends, Promise!tokens, Promise!services
  <2> QED BY <2>2
<1>4. CASE ~CacheReachable /\ Reply(th, "500")
  <2>1. Outcomes' = [Outcomes EXCEPT ![th] = "failed"] /\ Asked' = Asked
    BY <1>0, <1>4, ReplyMoves
  <2>2. Promise!Fail(th)
    BY <1>1, <1>2, <1>4, <2>1
       DEF Promise!Fail, Promise!AskingFails, Promise!Ends, Promise!tokens, Promise!services
  <2> QED BY <2>2
<1>5. CASE t # NoToken /\ ttl[s][t] > 0 /\ Reply(th, "handled")
  <2>1. Outcomes' = [Outcomes EXCEPT ![th] = "admitted"] /\ Asked' = Asked
    BY <1>0, <1>5, ReplyMoves
  <2>2. s \in Store /\ t \in Token
    BY <1>0, <1>5, RequestFacts
  <2>3. valid[t] \/ since[t] < SinceCap
    BY <1>5, <2>2, EntryIsFresh
  <2>4. ttl[s][t] # 0
    BY <1>0, <1>5, <2>2 DEF TypeOK
  <2>5. t \in Trusted
    BY <2>2, <2>4 DEF Trusted
  <2>6. Promise!Admit(th)
    BY <1>1, <1>2, <2>1, <2>3, <2>5
       DEF Promise!Admit, Promise!Ends, Promise!tokens, Promise!services
  <2> QED BY <2>6
<1>6. CASE Become(th, Moved(request[th], "call"))
  <2>1. Outcome(Moved(request[th], "call")) = Outcome(request[th])
    BY <1>0, MovedRequest, RequestFacts, OutcomeFacts DEF CacheLookup, At
  <2>2. Outcomes' = Outcomes /\ Asked' = Asked
    BY <1>0, <1>6, <2>1, OneMoves, MovedRequest, RequestFacts
  <2> QED BY <1>1, <2>2, Unseen
<1> QED BY <1>3, <1>4, <1>5, <1>6 DEF CacheLookup

LEMMA EnterSeen ==
    ASSUME IndInv, NEW th \in Thread, EnterBreaker(th)
    PROVE  Promise!Fail(th) \/ Promise!Forget
<1> DEFINE w == WorkerOf[th]
<1>0. TypeOK
  BY DEF IndInv
<1>1. /\ CacheReachable' = CacheReachable
      /\ UNCHANGED <<valid, since, healthy, redisUp>>
  BY DEF EnterBreaker, environment, CacheReachable
<1>2. Outcomes[th] \in Promise!Open
  BY <1>0, Seen, RequestFacts, OutcomeFacts DEF EnterBreaker, At, Promise!Open
<1>3. w \in Worker /\ breaker[w] \in Breakers /\ Consistent(breaker[w])
  BY <1>0, RequestFacts DEF IndInv, BreakerInv
<1>4. CASE MayCall(breaker[w])
  <2>1. /\ breaker' = [breaker EXCEPT ![w] = BeforeCall(breaker[w])]
        /\ Become(th, Moved(request[th], "wait"))
    BY <1>4 DEF EnterBreaker
  <2>2. Pauses' = Pauses
    BY <1>0, <1>3, <1>4, <2>1, BreakerPolicy DEF Pauses, TypeOK
  <2>3. Outcome(Moved(request[th], "wait")) = Outcome(request[th])
    BY <1>0, MovedRequest, RequestFacts, OutcomeFacts DEF EnterBreaker, At
  <2>4. Outcomes' = Outcomes /\ Asked' = Asked
    BY <1>0, <2>1, <2>3, OneMoves, MovedRequest, RequestFacts
  <2> QED BY <1>1, <2>2, <2>4, Unseen
<1>5. CASE ~MayCall(breaker[w])
  <2>1. Reply(th, "503open") /\ UNCHANGED breaker
    BY <1>5 DEF EnterBreaker
  <2>2. Outcomes' = [Outcomes EXCEPT ![th] = "failed"] /\ Asked' = Asked
    BY <1>0, <2>1, ReplyMoves
  <2>3. breaker[w].cooldown > 0
    BY <1>3, <1>5, BreakerAssumption DEF MayCall, Breakers
  <2>4. Pauses' = Pauses /\ Pauses[w] > 0
    BY <1>0, <2>1, <2>3, Seen DEF Pauses
  <2>5. Promise!Fail(th)
    BY <1>1, <1>2, <2>2, <2>4
       DEF Promise!Fail, Promise!AskingFails, Promise!Ends, Promise!tokens, Promise!services
  <2> QED BY <2>5
<1> QED BY <1>4, <1>5

LEMMA DecisionSeen ==
    ASSUME IndInv, NEW th \in Thread, BackendDecides(th)
    PROVE  Promise!Puzzle(th) \/ Promise!Forget
<1>0. TypeOK
  BY DEF IndInv
<1>1. /\ CacheReachable' = CacheReachable /\ Pauses' = Pauses
      /\ UNCHANGED <<valid, since, healthy, redisUp>>
  BY DEF BackendDecides, environment, CacheReachable, Pauses
<1>2. Outcomes[th] = "due"
  BY <1>0, Seen, RequestFacts, OutcomeFacts DEF BackendDecides, At
<1>3. PICK a \in {"accept", "reject", "error"} : Become(th, Answered(request[th], a))
  BY DEF BackendDecides
<1> DEFINE r == Answered(request[th], a)
<1>4. /\ r \in Requests /\ r.tok = request[th].tok
      /\ Outcome(r) = IF a = "error" THEN "unsure" ELSE "due"
  BY <1>0, RequestFacts, AnsweredRequest, OutcomeFacts DEF HoldsAnswer
<1>5. Asked' = Asked /\ Outcomes' = [Outcomes EXCEPT ![th] = Outcome(r)]
  BY <1>0, <1>3, <1>4, OneMoves
<1>6. CASE a = "error"
  <2>1. Promise!Puzzle(th)
    BY <1>1, <1>2, <1>4, <1>5, <1>6
       DEF Promise!Puzzle, Promise!Ends, Promise!tokens, Promise!services
  <2> QED BY <2>1
<1>7. CASE a # "error"
  <2>1. Outcomes' = Outcomes
    BY <1>0, <1>2, <1>3, <1>4, <1>7, Seen, OneMoves
  <2> QED BY <1>1, <1>5, <2>1, Unseen
<1> QED BY <1>6, <1>7

LEMMA ResponseUnseen ==
    ASSUME IndInv, NEW th \in Thread, ResponseArrives(th)
    PROVE  Promise!Forget
<1> DEFINE w == WorkerOf[th]
           r == Moved(request[th], "handle")
<1>0. TypeOK
  BY DEF IndInv
<1>1. w \in Worker /\ breaker[w].mode # "open" /\ Consistent(breaker[w])
  <2>1. w \in Worker /\ lock[w] = th /\ th # NoThread
    BY <1>0, RequestFacts, SessionAssumption
       DEF ResponseArrives, InCall, IndInv, BreakerInv
  <2> QED BY <2>1 DEF IndInv, BreakerInv
<1>2. Pauses' = Pauses
  <2>1. breaker[w].cooldown = 0 /\ AfterSuccess(breaker[w]).cooldown = 0
    BY <1>1 DEF Consistent, AfterSuccess, ClosedBreaker
  <2> QED BY <1>0, <1>1, <2>1 DEF ResponseArrives, Pauses, TypeOK
<1>3. /\ Become(th, r) /\ r \in Requests /\ r.tok = request[th].tok
      /\ Outcome(r) = Outcome(request[th])
  BY <1>0, RequestFacts, MovedRequest, OutcomeFacts DEF ResponseArrives, At, HoldsAnswer
<1>4. Outcomes' = Outcomes /\ Asked' = Asked
  BY <1>0, <1>3, OneMoves
<1> QED BY <1>2, <1>4, Unseen DEF ResponseArrives, environment

LEMMA FailureSeen ==
    ASSUME IndInv, NEW th \in Thread, CallFails(th) \/ CallRaises(th)
    PROVE  Promise!Fail(th)
<1> DEFINE w == WorkerOf[th]
           b == AfterFailure(breaker[w])
<1>0. TypeOK
  BY DEF IndInv
<1>d. PICK code \in {"500", "503"} : InCall(th) /\ EndInException(th, code)
  BY DEF CallFails, CallRaises, InCall
<1>1. /\ w \in Worker /\ breaker[w] \in Breakers /\ Consistent(breaker[w])
      /\ breaker[w].mode # "open"
  <2>1. w \in Worker /\ lock[w] = th /\ th # NoThread
    BY <1>0, RequestFacts, <1>d, SessionAssumption DEF IndInv, BreakerInv
  <2> QED BY <1>0, <2>1, RequestFacts DEF IndInv, BreakerInv
<1>2. b.cooldown = ResetTimeout \/ b.cooldown = breaker[w].cooldown
  BY <1>1, BreakerPolicy DEF Consistent
<1>3. breaker' = [breaker EXCEPT ![w] = b]
  BY <1>d DEF EndInException
<1>4. Pauses' = Pauses \/ Pauses' = [Pauses EXCEPT ![w] = ResetTimeout]
  <2> HIDE DEF b, w
  <2> QED BY <1>0, <1>1, <1>2, <1>3 DEF Pauses, TypeOK
<1>5. Outcomes' = [Outcomes EXCEPT ![th] = "failed"] /\ Asked' = Asked
  BY <1>0, <1>d, ReplyMoves DEF EndInException
<1>6. /\ Outcomes[th] \in Promise!Open \cup {"unsure"}
      /\ ~healthy \/ Outcomes[th] = "odd"
  BY <1>0, Seen, RequestFacts, OutcomeFacts
     DEF CallFails, CallRaises, At, HoldsAnswer, Promise!Open
<1>7. CacheReachable' = CacheReachable /\ UNCHANGED <<valid, since, healthy>>
  BY <1>d DEF EndInException, environment, CacheReachable
<1> QED BY <1>4, <1>5, <1>6, <1>7
        DEF Promise!Fail, Promise!AskingFails, Promise!Ends, Promise!tokens, Promise!services

LEMMA VerdictSeen ==
    ASSUME IndInv, RejectInv, NEW th \in Thread, HandleResponse(th)
    PROVE  Promise!Admit(th) \/ Promise!Refuse(th)
<1> DEFINE t == request[th].tok
<1>0. TypeOK
  BY DEF IndInv
<1>1. /\ CacheReachable' = CacheReachable /\ Pauses' = Pauses
      /\ UNCHANGED <<valid, since, healthy>>
  BY DEF HandleResponse, environment, CacheReachable, Pauses
<1>2. /\ Outcomes[th] = IF request[th].answer = "error" THEN "unsure" ELSE "due"
      /\ Asked[th] = t /\ t \in Token
  <2>1. t \in Token
    BY DEF HandleResponse, At, IndInv, AnswerInv
  <2> QED BY <1>0, <2>1, Seen, RequestFacts, OutcomeFacts DEF HandleResponse, At, HoldsAnswer
<1>3. CASE request[th].answer = "accept" /\ Reply(th, "handled")
  <2>1. Outcomes' = [Outcomes EXCEPT ![th] = "admitted"] /\ Asked' = Asked
    BY <1>0, <1>3, ReplyMoves
  <2>2. (valid[t] \/ since[t] < SinceCap) /\ t \in Trusted
    BY <1>2, <1>3, AnswerIsFresh DEF HandleResponse, Trusted
  <2>3. Promise!Admit(th)
    BY <1>1, <1>2, <1>3, <2>1, <2>2
       DEF Promise!Admit, Promise!Open, Promise!Ends, Promise!tokens, Promise!services
  <2> QED BY <2>3
<1>4. CASE (request[th].answer = "accept" => ~CacheReachable) /\ Reply(th, "401")
  <2>1. Outcomes' = [Outcomes EXCEPT ![th] = "refused"] /\ Asked' = Asked
    BY <1>0, <1>4, ReplyMoves
  <2>2. request[th].answer \in {"accept", "reject", "error"}
    BY <1>0, RequestFacts DEF Requests, HandleResponse, At, HoldsAnswer, RejectInv
  <2>3. request[th].answer = "reject" => ~valid[t]
    BY <1>2 DEF RejectInv
  <2>4. \/ Outcomes[th] = "unsure"
        \/ Outcomes[th] = "due" /\ (valid[t] => ~CacheReachable)
    BY <1>2, <1>4, <2>2, <2>3
  <2>5. Promise!Refuse(th)
    BY <1>1, <1>2, <2>1, <2>4
       DEF Promise!Refuse, Promise!Open, Promise!Ends, Promise!tokens, Promise!services
  <2> QED BY <2>5
<1> QED BY <1>3, <1>4 DEF HandleResponse

LEMMA FinishLeaves ==
    ASSUME TypeOK, NEW th \in Thread, Finish(th)
    PROVE  Promise!Leave(th)
<1>1. Outcome(Idle) = "none" /\ Become(th, Idle)
  BY IdleRequest, OutcomeFacts DEF Finish
<1>2. /\ Outcomes' = [Outcomes EXCEPT ![th] = "none"]
      /\ Asked' = [Asked EXCEPT ![th] = NoToken]
  BY <1>1, OneMoves, IdleRequest
<1>3. Outcomes[th] \in {"admitted", "refused", "failed"}
  BY Seen, RequestFacts, OutcomeFacts DEF Finish, At
<1>4. /\ CacheReachable' = CacheReachable /\ Pauses' = Pauses
      /\ UNCHANGED <<valid, since, healthy>>
  BY DEF Finish, environment, CacheReachable, Pauses
<1> QED BY <1>2, <1>3, <1>4 DEF Promise!Leave, Promise!tokens, Promise!services

LEMMA RestartSeen ==
    ASSUME TypeOK, NEW w \in Worker, WorkerRestart(w)
    PROVE  Promise!Restart(w)
<1>1. \A th \in Thread : request'[th] = IF WorkerOf[th] = w THEN Idle ELSE request[th]
  BY DEF WorkerRestart
<1>2. Outcome(Idle) = "none" /\ Idle.tok = NoToken
  BY IdleRequest, OutcomeFacts
<1>3. Outcomes' = [th \in Thread |-> IF WorkerOf[th] = w THEN "none" ELSE Outcomes[th]]
  BY <1>1, <1>2 DEF Outcomes
<1>4. Asked' = [th \in Thread |-> IF WorkerOf[th] = w THEN NoToken ELSE Asked[th]]
  BY <1>1, <1>2 DEF Asked
<1>5. Pauses' = [Pauses EXCEPT ![w] = 0]
  BY DEF WorkerRestart, Pauses, TypeOK, ClosedBreaker
<1>6. CacheReachable' = CacheReachable /\ UNCHANGED <<valid, since, healthy>>
  BY DEF WorkerRestart, environment, CacheReachable
<1> QED BY <1>3, <1>4, <1>5, <1>6 DEF Promise!Restart, Promise!tokens, Promise!services

LEMMA TickPasses ==
    ASSUME TypeOK, BreakerInv, Tick
    PROVE  Promise!Pass
<1>1. \A th \in Thread : /\ Outcome(request'[th]) = Outcome(request[th])
                         /\ request'[th].tok = request[th].tok
  <2> TAKE th \in Thread
  <2>1. request'[th] = Aging(request[th]) /\ request[th] \in Requests
    BY RequestFacts DEF Tick
  <2> QED BY <2>1, AgingRequest DEF Tick, Outcome, HoldsAnswer
<1>2. Outcomes' = Outcomes /\ Asked' = Asked
  BY <1>1 DEF Outcomes, Asked
<1>3. Pauses' = [w \in Worker |-> IF Pauses[w] = 0 THEN 0 ELSE Pauses[w] - 1]
  BY BreakerPolicy DEF Tick, Pauses, TypeOK, BreakerInv
<1>4. CacheReachable' = CacheReachable
  BY DEF Tick, CacheReachable
<1> QED BY <1>2, <1>3, <1>4 DEF Tick, Promise!Pass, Promise!tokens, Promise!services
-----------------------------------------------------------------------------
(* No step makes a token trusted again.                                    *)
LEMMA TrustOnlyShrinks ==
    ASSUME IndInv, [Next]_vars
    PROVE  Promise!NoNewTrust
<1>1. \A t \in Token : valid'[t] => valid[t]
  BY NotBack DEF IndInv
<1>2. ASSUME NEW t \in Token, t \in Trusted' PROVE t \in Trusted
  <2>1. CASE valid'[t]
    BY <1>1, <2>1 DEF Trusted
  <2>2. CASE \E s \in Store : ttl'[s][t] # 0
    BY <2>2, EntryOrigin DEF Trusted
  <2>3. CASE \E th \in Thread : request'[th].tok = t /\ request'[th].answer = "accept"
    BY <2>3, AnswerOrigin DEF Trusted
  <2> QED BY <1>2, <2>1, <2>2, <2>3 DEF Trusted
<1>3. Trusted' \subseteq Trusted /\ {t \in Token : valid'[t]} \subseteq Trusted'
  BY <1>2 DEF Trusted
<1> QED BY <1>3 DEF Promise!NoNewTrust

(* Session validation, as its clients see it: requests, admissions,        *)
(* refusals and failures are those of SessionPromise.                      *)
THEOREM PromiseKept == Spec => ClientsSeePromise
<1>1. Init => Promise!PromiseInit
  <2> SUFFICES ASSUME Init PROVE Promise!PromiseInit OBVIOUS
  <2>1. Outcome(Idle) = "none" /\ Idle.tok = NoToken /\ Idle.answer = "none"
    BY IdleRequest, OutcomeFacts
  <2>2. /\ Outcomes = [th \in Thread |-> "none"]
        /\ Asked = [th \in Thread |-> NoToken]
    BY <2>1 DEF Init, Outcomes, Asked
  <2>3. Pauses = [w \in Worker |-> 0]
    BY DEF Init, Pauses, ClosedBreaker
  <2>4. Trusted = {t \in Token : valid[t]}
    BY <2>1 DEF Init, Trusted, NoEntries
  <2>5. CacheReachable = TRUE
    BY DEF Init, CacheReachable
  <2> QED BY <2>2, <2>3, <2>4, <2>5 DEF Init, Promise!PromiseInit
<1>2. IndInv /\ RejectInv /\ [Next]_vars => [Promise!PromiseNext]_(Promise!promiseVars)
  <2> SUFFICES ASSUME IndInv, RejectInv, [Next]_vars PROVE Promise!PromiseNext
    OBVIOUS
  <2>0. TypeOK /\ BreakerInv /\ Promise!NoNewTrust
    BY TrustOnlyShrinks DEF IndInv
  <2>1. ASSUME NEW th \in Thread, Arrive(th) \/ ThreadStep(th)
        PROVE  \/ \E t \in Token \cup {NoToken} : Promise!Ask(th, t)
               \/ Promise!Admit(th) \/ Promise!Puzzle(th) \/ Promise!Refuse(th)
               \/ Promise!Fail(th) \/ Promise!Leave(th) \/ Promise!Forget
    BY <2>0, <2>1, ArriveAsks, LookupSeen, EnterSeen, DecisionSeen, ResponseUnseen,
       FailureSeen, VerdictSeen, FinishLeaves DEF ThreadStep
  <2>2. ASSUME UNCHANGED <<request, breaker, environment>> PROVE Promise!Forget
    BY <2>2, Unseen DEF Outcomes, Asked, Pauses, environment
  <2>3. ASSUME NEW t \in Token, Revoke(t) PROVE Promise!Withdraw(t)
    BY <2>3 DEF Revoke, Promise!Withdraw, Promise!tokens, Promise!services, Outcomes,
                Asked, Pauses, CacheReachable
  <2>4. ASSUME RedisFlips \/ BackendFlips PROVE Promise!ServicesChange
    <3>1. /\ Outcomes' = Outcomes /\ Asked' = Asked /\ Pauses' = Pauses
          /\ UNCHANGED <<valid, since>>
      BY <2>4 DEF RedisFlips, BackendFlips, Outcomes, Asked, Pauses
    <3>2. healthy' # healthy \/ CacheReachable' # CacheReachable
      <4>1. CASE RedisFlips
        BY <2>0, <4>1 DEF RedisFlips, CacheReachable, TypeOK
      <4>2. CASE BackendFlips
        BY <2>0, <4>2 DEF BackendFlips, TypeOK
      <4> QED BY <2>4, <4>1, <4>2
    <3> QED BY <3>1, <3>2 DEF Promise!ServicesChange, Promise!tokens, Promise!services
  <2> QED BY <2>0, <2>1, <2>2, <2>3, <2>4, RestartSeen, TickPasses
          DEF Next, Environment, InvalidateSessionCache, Evict, vars, environment,
              Promise!PromiseNext
<1> QED BY <1>1, <1>2, Invariance, RejectInvariance, PTL
        DEF Spec, ClientsSeePromise, Promise!PromiseSpec
=============================================================================
