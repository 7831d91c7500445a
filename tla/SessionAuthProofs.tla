------------------------- MODULE SessionAuthProofs -------------------------
(***************************************************************************)
(* Safety of SessionAuth for any number of workers, threads and tokens,    *)
(* any FailMax, ResetTimeout, SessionTTL and MaxLag, and both cache types. *)
(***************************************************************************)
EXTENDS SessionAuth, TLAPS

(* The operators of Breaker stay within its type.                          *)
LEMMA BreakerTypes ==
    ASSUME NEW x \in Breakers
    PROVE  /\ ClosedBreaker \in Breakers
           /\ OpenBreaker \in Breakers
           /\ BeforeCall(x) \in Breakers
           /\ AfterSuccess(x) \in Breakers
           /\ AfterFailure(x) \in Breakers
           /\ Aged(x) \in Breakers
<1> USE BreakerAssumption DEF Breakers
<1>1. ClosedBreaker \in Breakers /\ OpenBreaker \in Breakers
  BY DEF ClosedBreaker, OpenBreaker
<1>2. BeforeCall(x) \in Breakers /\ AfterSuccess(x) \in Breakers
  BY <1>1 DEF BeforeCall, AfterSuccess
<1>3. AfterFailure(x) \in Breakers
  BY <1>1 DEF AfterFailure, Trips
<1>4. Aged(x) \in Breakers
  BY DEF Aged
<1> QED BY <1>1, <1>2, <1>3, <1>4

(* The requests the actions write are requests, with the fields one reads. *)
LEMMA FreshRequest ==
    ASSUME NEW l \in {"idle", "lookup", "replied"},
           NEW t \in Token \cup {NoToken},
           NEW c \in {"none", "handled", "401", "500", "503", "503open"}
    PROVE  /\ Fresh(l, t, c) \in Requests
           /\ Fresh(l, t, c).pc = l
           /\ Fresh(l, t, c).tok = t
           /\ Fresh(l, t, c).sendable
           /\ Fresh(l, t, c).answer = "none"
           /\ Fresh(l, t, c).reply = c
BY SessionAssumption DEF Requests, Fresh

LEMMA IncomingRequest ==
    ASSUME NEW t \in Token \cup {NoToken}, NEW s \in BOOLEAN
    PROVE  /\ Incoming(t, s) \in Requests
           /\ Incoming(t, s).pc = "lookup"
           /\ Incoming(t, s).tok = t
           /\ Incoming(t, s).sendable = s
           /\ Incoming(t, s).answer = "none"
           /\ Incoming(t, s).reply = "none"
BY SessionAssumption DEF Requests, Fresh, Incoming

LEMMA ArriveFacts ==
    ASSUME NEW th \in Thread, Arrive(th)
    PROVE  \E r \in Requests : /\ Become(th, r)
                               /\ r.pc = "lookup"
                               /\ r.answer = "none"
                               /\ r.reply = "none"
BY IncomingRequest DEF Arrive

LEMMA IdleRequest ==
    /\ Idle \in Requests
    /\ Idle.pc = "idle"
    /\ Idle.tok = NoToken
    /\ Idle.answer = "none"
    /\ Idle.reply = "none"
BY FreshRequest DEF Idle

LEMMA MovedRequest ==
    ASSUME NEW r \in Requests, NEW l \in {"call", "wait", "handle"}
    PROVE  /\ Moved(r, l) \in Requests
           /\ Moved(r, l).pc = l
           /\ Moved(r, l).tok = r.tok
           /\ Moved(r, l).sendable = r.sendable
           /\ Moved(r, l).answer = r.answer
           /\ Moved(r, l).age = r.age
           /\ Moved(r, l).reply = r.reply
BY DEF Requests, Moved

LEMMA AnsweredRequest ==
    ASSUME NEW r \in Requests, NEW a \in {"accept", "reject", "error"}
    PROVE  /\ Answered(r, a) \in Requests
           /\ Answered(r, a).pc = "answered"
           /\ Answered(r, a).tok = r.tok
           /\ Answered(r, a).sendable = r.sendable
           /\ Answered(r, a).answer = a
           /\ Answered(r, a).age = r.age
           /\ Answered(r, a).reply = r.reply
BY DEF Requests, Answered

LEMMA AgingRequest ==
    ASSUME NEW r \in Requests, HoldsAnswer(r) => r.age < MaxLag
    PROVE  /\ Aging(r) \in Requests
           /\ Aging(r).pc = r.pc
           /\ Aging(r).tok = r.tok
           /\ Aging(r).sendable = r.sendable
           /\ Aging(r).answer = r.answer
           /\ Aging(r).age = IF HoldsAnswer(r) THEN r.age + 1 ELSE r.age
           /\ Aging(r).reply = r.reply
BY SessionAssumption DEF Requests, Aging, HoldsAnswer

(* A call ends in an exception, of whatever origin.                        *)
CallDies(th) == InCall(th) /\ \E code \in {"500", "503"} : EndInException(th, code)

LEMMA ThreadSteps ==
    ASSUME NEW th \in Thread, ThreadStep(th)
    PROVE  \/ CacheLookup(th) \/ EnterBreaker(th) \/ BackendDecides(th)
           \/ ResponseArrives(th) \/ CallDies(th)
           \/ HandleResponse(th) \/ Finish(th)
BY DEF ThreadStep, CallFails, CallRaises, CallDies, InCall

(* The store a worker uses is one of the stores.                           *)
LEMMA StoreType ==
    ASSUME NEW w \in Worker
    PROVE  StoreOf(w) \in Store
BY DEF StoreOf, Store

(* Writing one thread's request keeps the type of all.                     *)
LEMMA BecomeTyped ==
    ASSUME TypeOK, NEW th \in Thread, NEW r \in Requests, Become(th, r)
    PROVE  request' \in [Thread -> Requests]
BY DEF Become, TypeOK

LEMMA RequestFacts ==
    ASSUME TypeOK, NEW th \in Thread
    PROVE  /\ request[th] \in Requests
           /\ request[th].tok \in Token \cup {NoToken}
           /\ WorkerOf[th] \in Worker
           /\ breaker[WorkerOf[th]] \in Breakers
           /\ StoreOf(WorkerOf[th]) \in Store
BY SessionAssumption, StoreType DEF TypeOK, Requests

LEMMA InitTyped == Init => TypeOK
<1> SUFFICES ASSUME Init PROVE TypeOK OBVIOUS
<1>1. ClosedBreaker \in Breakers
  BY BreakerAssumption DEF ClosedBreaker, Breakers
<1> QED BY <1>1, IdleRequest, SessionAssumption DEF Init, NoEntries, TypeOK, SinceCap

LEMMA NextTyped == TypeOK /\ [Next]_vars => TypeOK'
<1> SUFFICES ASSUME TypeOK, [Next]_vars PROVE TypeOK' OBVIOUS
<1> USE SessionAssumption
<1>1. ASSUME NEW th \in Thread, Arrive(th) PROVE TypeOK'
  <2>1. request' \in [Thread -> Requests]
    BY <1>1, RequestFacts, BecomeTyped, IncomingRequest DEF Arrive
  <2> QED BY <1>1, <2>1 DEF Arrive, TypeOK, environment
<1>2. ASSUME NEW th \in Thread, CacheLookup(th) PROVE TypeOK'
  <2>1. request' \in [Thread -> Requests]
    BY <1>2, RequestFacts, BecomeTyped, FreshRequest, MovedRequest DEF CacheLookup, Reply
  <2> QED BY <1>2, <2>1 DEF CacheLookup, TypeOK, environment
<1>3. ASSUME NEW th \in Thread, EnterBreaker(th) PROVE TypeOK'
  <2>1. request' \in [Thread -> Requests]
    BY <1>3, RequestFacts, BecomeTyped, FreshRequest, MovedRequest DEF EnterBreaker, Reply
  <2>2. breaker' \in [Worker -> Breakers] /\ lock' \in [Worker -> Thread \cup {NoThread}]
    <3> DEFINE w == WorkerOf[th]
    <3>1. w \in Worker /\ BeforeCall(breaker[w]) \in Breakers
      BY RequestFacts, BreakerTypes
    <3>2. CASE MayCall(breaker[w])
      BY <1>3, <3>1, <3>2 DEF EnterBreaker, TypeOK
    <3>3. CASE ~MayCall(breaker[w])
      BY <1>3, <3>3 DEF EnterBreaker, TypeOK
    <3> QED BY <3>2, <3>3
  <2> QED BY <1>3, <2>1, <2>2 DEF EnterBreaker, TypeOK, environment
<1>4. ASSUME NEW th \in Thread, BackendDecides(th) PROVE TypeOK'
  <2>1. request' \in [Thread -> Requests]
    BY <1>4, RequestFacts, BecomeTyped, AnsweredRequest DEF BackendDecides
  <2> QED BY <1>4, <2>1 DEF BackendDecides, TypeOK, environment
<1>5. ASSUME NEW th \in Thread, ResponseArrives(th) PROVE TypeOK'
  <2>1. request' \in [Thread -> Requests]
    BY <1>5, RequestFacts, BecomeTyped, MovedRequest DEF ResponseArrives
  <2>2. breaker' \in [Worker -> Breakers] /\ lock' \in [Worker -> Thread \cup {NoThread}]
    BY <1>5, RequestFacts, BreakerTypes DEF ResponseArrives, TypeOK
  <2> QED BY <1>5, <2>1, <2>2 DEF ResponseArrives, TypeOK, environment
<1>6. ASSUME NEW th \in Thread, CallDies(th) PROVE TypeOK'
  <2>1. request' \in [Thread -> Requests]
    BY <1>6, RequestFacts, BecomeTyped, FreshRequest DEF CallDies, EndInException, Reply
  <2>2. breaker' \in [Worker -> Breakers] /\ lock' \in [Worker -> Thread \cup {NoThread}]
    BY <1>6, RequestFacts, BreakerTypes DEF CallDies, EndInException, TypeOK
  <2> QED BY <1>6, <2>1, <2>2 DEF CallDies, EndInException, TypeOK, environment
<1>7. ASSUME NEW th \in Thread, HandleResponse(th) PROVE TypeOK'
  <2>1. request' \in [Thread -> Requests]
    BY <1>7, RequestFacts, BecomeTyped, FreshRequest DEF HandleResponse, Reply
  <2>2. ttl' \in [Store -> [Token -> 0 .. SessionTTL]]
    <3> DEFINE s == StoreOf(WorkerOf[th])
               tok == request[th].tok
    <3>1. s \in Store /\ ttl[s] \in [Token -> 0 .. SessionTTL]
      BY RequestFacts DEF TypeOK
    <3>2. [ttl[s] EXCEPT ![tok] = SessionTTL] \in [Token -> 0 .. SessionTTL]
      <4>1. SessionTTL \in 0 .. SessionTTL
        OBVIOUS
      <4> HIDE DEF s, tok
      <4> QED BY <3>1, <4>1
    <3>3. ttl' = [ttl EXCEPT ![s] = [ttl[s] EXCEPT ![tok] = SessionTTL]] \/ ttl' = ttl
      BY <1>7 DEF HandleResponse
    <3> HIDE DEF s, tok
    <3> QED BY <3>1, <3>2, <3>3 DEF TypeOK
  <2> QED BY <1>7, <2>1, <2>2 DEF HandleResponse, TypeOK, environment
<1>8. ASSUME NEW th \in Thread, Finish(th) PROVE TypeOK'
  <2>1. request' \in [Thread -> Requests]
    BY <1>8, RequestFacts, BecomeTyped, IdleRequest DEF Finish
  <2> QED BY <1>8, <2>1 DEF Finish, TypeOK, environment
<1>9. ASSUME NEW w \in Worker, NEW t \in Token, InvalidateSessionCache(w, t)
      PROVE  TypeOK'
  BY <1>9, StoreType DEF InvalidateSessionCache, TypeOK, environment
<1>10. ASSUME NEW w \in Worker, WorkerRestart(w) PROVE TypeOK'
  <2>1. request' \in [Thread -> Requests]
    BY <1>10, IdleRequest DEF WorkerRestart, TypeOK
  <2>2. ClosedBreaker \in Breakers
    BY BreakerAssumption DEF ClosedBreaker, Breakers
  <2>3. ttl' \in [Store -> [Token -> 0 .. SessionTTL]]
    BY <1>10 DEF WorkerRestart, TypeOK, Store
  <2> QED BY <1>10, <2>1, <2>2, <2>3 DEF WorkerRestart, TypeOK, environment
<1>11. ASSUME NEW s \in Store, NEW t \in Token, Evict(s, t) PROVE TypeOK'
  BY <1>11 DEF Evict, TypeOK, environment
<1>12. ASSUME NEW t \in Token, Revoke(t) PROVE TypeOK'
  BY <1>12 DEF Revoke, TypeOK
<1>13. CASE RedisFlips
  <2>1. ttl' \in [Store -> [Token -> 0 .. SessionTTL]]
    BY <1>13 DEF RedisFlips, NoEntries, TypeOK
  <2> QED BY <1>13, <2>1 DEF RedisFlips, TypeOK
<1>14. CASE BackendFlips
  BY <1>14 DEF BackendFlips, TypeOK
<1>15. CASE Tick
  <2>1. request' \in [Thread -> Requests]
    BY <1>15, AgingRequest DEF Tick, TypeOK
  <2>2. breaker' \in [Worker -> Breakers]
    BY <1>15, BreakerTypes DEF Tick, TypeOK
  <2>3. ttl' \in [Store -> [Token -> 0 .. SessionTTL]]
    <3>1. \A s \in Store, t \in Token :
             (IF ttl[s][t] = 0 THEN 0 ELSE ttl[s][t] - 1) \in 0 .. SessionTTL
      <4> TAKE s \in Store, t \in Token
      <4>1. ttl[s][t] \in 0 .. SessionTTL
        BY DEF TypeOK
      <4> QED BY <4>1
    <3> QED BY <1>15, <3>1 DEF Tick
  <2>4. since' \in [Token -> 0 .. SinceCap]
    <3>1. \A t \in Token : since[t] # SinceCap => since[t] + 1 \in 0 .. SinceCap
      <4> TAKE t \in Token
      <4>1. since[t] \in 0 .. SinceCap /\ SinceCap \in Nat
        BY DEF TypeOK, SinceCap
      <4> HIDE DEF SinceCap
      <4> QED BY <4>1
    <3> HIDE DEF SinceCap
    <3> QED BY <1>15, <3>1 DEF Tick, TypeOK
  <2> QED BY <1>15, <2>1, <2>2, <2>3, <2>4 DEF Tick, TypeOK
<1>16. CASE UNCHANGED vars
  BY <1>16 DEF vars, TypeOK
<1> QED BY <1>1, <1>2, <1>3, <1>4, <1>5, <1>6, <1>7, <1>8, <1>9, <1>10, <1>11,
           <1>12, <1>13, <1>14, <1>15, <1>16, ThreadSteps DEF Next, Environment

(* Every variable of reports-api keeps its type.                           *)
THEOREM TypeCorrect == Spec => []TypeOK
BY InitTyped, NextTyped, PTL DEF Spec
-----------------------------------------------------------------------------
(* What the operators of Breaker do to a consistent breaker.               *)
LEMMA BreakerModes ==
    ASSUME NEW x \in Breakers, Consistent(x)
    PROVE  /\ Consistent(ClosedBreaker) /\ ClosedBreaker.mode = "closed"
           /\ MayCall(x) => /\ Consistent(BeforeCall(x))
                            /\ BeforeCall(x).mode # "open"
           /\ Consistent(AfterSuccess(x)) /\ AfterSuccess(x).mode = "closed"
           /\ Consistent(AfterFailure(x)) /\ AfterFailure(x).mode # "half_open"
           /\ Consistent(Aged(x)) /\ Aged(x).mode = x.mode
<1> USE BreakerAssumption DEF Breakers, Consistent
<1>1. Consistent(ClosedBreaker) /\ ClosedBreaker.mode = "closed"
  BY DEF ClosedBreaker
<1>2. MayCall(x) => Consistent(BeforeCall(x)) /\ BeforeCall(x).mode # "open"
  BY DEF MayCall, BeforeCall
<1>3. Consistent(AfterFailure(x)) /\ AfterFailure(x).mode # "half_open"
  BY DEF AfterFailure, Trips, OpenBreaker
<1>4. Consistent(Aged(x)) /\ Aged(x).mode = x.mode
  BY DEF Aged
<1> QED BY <1>1, <1>2, <1>3, <1>4 DEF AfterSuccess

(* A thread that stays out of the call leaves everybody where they are.     *)
LEMMA OutOfCall ==
    ASSUME TypeOK, NEW th \in Thread, NEW r \in Requests, Become(th, r),
           ~InCall(th), r.pc \notin {"wait", "answered"}
    PROVE  \A u \in Thread : InCall(u)' <=> InCall(u)
BY DEF Become, InCall, At, TypeOK

(* What a thread may become when it replies.                               *)
LEMMA ReplyFacts ==
    ASSUME TypeOK, NEW th \in Thread,
           NEW c \in {"none", "handled", "401", "500", "503", "503open"},
           Reply(th, c)
    PROVE  \E r \in Requests : /\ Become(th, r)
                               /\ r.pc = "replied"
                               /\ r.tok = request[th].tok
                               /\ r.answer = "none"
                               /\ r.reply = c
<1> DEFINE r == Fresh("replied", request[th].tok, c)
<1>1. Become(th, r)
  BY DEF Reply
<1>2. r \in Requests /\ r.pc = "replied" /\ r.tok = request[th].tok
      /\ r.answer = "none" /\ r.reply = c
  BY FreshRequest, RequestFacts
<1> QED BY <1>1, <1>2

LEMMA InitBreakerInv == Init => BreakerInv
<1> SUFFICES ASSUME Init PROVE BreakerInv OBVIOUS
<1>1. Consistent(ClosedBreaker) /\ ClosedBreaker.mode = "closed"
  BY BreakerAssumption DEF ClosedBreaker, Consistent
<1> QED BY <1>1, IdleRequest, SessionAssumption DEF Init, BreakerInv, InCall, At

LEMMA NextBreakerInv == TypeOK /\ BreakerInv /\ [Next]_vars => BreakerInv'
<1> SUFFICES ASSUME TypeOK, BreakerInv, [Next]_vars PROVE BreakerInv' OBVIOUS
<1> USE SessionAssumption
<1>1. ASSUME NEW th \in Thread, Arrive(th) PROVE BreakerInv'
  <2>1. \A u \in Thread : InCall(u)' <=> InCall(u)
    BY <1>1, IncomingRequest DEF Arrive, Become, InCall, At, TypeOK
  <2> QED BY <1>1, <2>1 DEF Arrive, BreakerInv
<1>2. ASSUME NEW th \in Thread, CacheLookup(th) PROVE BreakerInv'
  <2>1. \A u \in Thread : InCall(u)' <=> InCall(u)
    <3>1. ~InCall(th)
      BY <1>2 DEF CacheLookup, InCall, At
    <3>2. CASE Become(th, Moved(request[th], "call"))
      BY <3>1, <3>2, MovedRequest, RequestFacts, OutOfCall
    <3>3. CASE \E c \in {"401", "500", "handled"} : Reply(th, c)
      BY <3>1, <3>3, ReplyFacts, OutOfCall
    <3> QED BY <1>2, <3>2, <3>3 DEF CacheLookup
  <2> QED BY <1>2, <2>1 DEF CacheLookup, BreakerInv
<1>3. ASSUME NEW th \in Thread, EnterBreaker(th) PROVE BreakerInv'
  <2> DEFINE w == WorkerOf[th]
  <2>1. w \in Worker /\ breaker[w] \in Breakers /\ Consistent(breaker[w])
    BY RequestFacts DEF BreakerInv
  <2>2. CASE MayCall(breaker[w])
    <3>1. /\ breaker' = [breaker EXCEPT ![w] = BeforeCall(breaker[w])]
          /\ lock' = [lock EXCEPT ![w] = th]
          /\ lock[w] = NoThread
          /\ Become(th, Moved(request[th], "wait"))
          /\ At(th, "call")
      BY <1>3, <2>2 DEF EnterBreaker
    <3>2. \A u \in Thread : InCall(u)' <=> (InCall(u) \/ u = th)
      BY <3>1, MovedRequest, RequestFacts DEF Become, InCall, At, TypeOK
    <3>3. Consistent(BeforeCall(breaker[w])) /\ BeforeCall(breaker[w]).mode # "open"
      BY <2>1, <2>2, BreakerModes
    <3> QED BY <2>1, <3>1, <3>2, <3>3 DEF BreakerInv, TypeOK
  <2>3. CASE ~MayCall(breaker[w])
    <3>1. \A u \in Thread : InCall(u)' <=> InCall(u)
      <4>1. ~InCall(th) /\ Reply(th, "503open")
        BY <1>3, <2>3 DEF EnterBreaker, InCall, At
      <4> QED BY <4>1, ReplyFacts, OutOfCall
    <3> QED BY <1>3, <2>3, <3>1 DEF EnterBreaker, BreakerInv
  <2> QED BY <2>2, <2>3
<1>4. ASSUME NEW th \in Thread, BackendDecides(th) PROVE BreakerInv'
  <2>1. \A u \in Thread : InCall(u)' <=> InCall(u)
    BY <1>4, AnsweredRequest, RequestFacts
       DEF BackendDecides, Become, InCall, At, TypeOK
  <2> QED BY <1>4, <2>1 DEF BackendDecides, BreakerInv
<1>5. ASSUME NEW th \in Thread, NEW b \in Breakers,
             InCall(th), Consistent(b), b.mode # "half_open",
             breaker' = [breaker EXCEPT ![WorkerOf[th]] = b],
             lock' = [lock EXCEPT ![WorkerOf[th]] = NoThread],
             \A u \in Thread : InCall(u)' <=> InCall(u) /\ u # th
      PROVE  BreakerInv'
  <2>1. WorkerOf[th] \in Worker
    BY RequestFacts
  <2> QED BY <1>5, <2>1 DEF BreakerInv, TypeOK
<1>6. ASSUME NEW th \in Thread, ResponseArrives(th) PROVE BreakerInv'
  <2> DEFINE b == AfterSuccess(breaker[WorkerOf[th]])
  <2>1. Consistent(breaker[WorkerOf[th]])
    BY RequestFacts DEF BreakerInv
  <2>2. b \in Breakers /\ Consistent(b) /\ b.mode # "half_open"
    BY <2>1, BreakerTypes, BreakerModes, RequestFacts
  <2>3. \A u \in Thread : InCall(u)' <=> InCall(u) /\ u # th
    BY <1>6, MovedRequest, RequestFacts
       DEF ResponseArrives, Become, InCall, At, TypeOK
  <2>4. InCall(th)
    BY <1>6 DEF ResponseArrives, InCall
  <2> QED BY <1>5, <1>6, <2>2, <2>3, <2>4 DEF ResponseArrives
<1>7. ASSUME NEW th \in Thread, CallDies(th) PROVE BreakerInv'
  <2> DEFINE b == AfterFailure(breaker[WorkerOf[th]])
  <2>1. Consistent(breaker[WorkerOf[th]])
    BY RequestFacts DEF BreakerInv
  <2>2. b \in Breakers /\ Consistent(b) /\ b.mode # "half_open"
    BY <2>1, BreakerTypes, BreakerModes, RequestFacts
  <2>3. \A u \in Thread : InCall(u)' <=> InCall(u) /\ u # th
    BY <1>7, FreshRequest, RequestFacts
       DEF CallDies, EndInException, Reply, Become, InCall, At, TypeOK
  <2>4. InCall(th)
    BY <1>7 DEF CallDies, EndInException, InCall
  <2> QED BY <1>5, <1>7, <2>2, <2>3, <2>4 DEF CallDies, EndInException
<1>8. ASSUME NEW th \in Thread, HandleResponse(th) PROVE BreakerInv'
  <2>1. \A u \in Thread : InCall(u)' <=> InCall(u)
    <3>1. ~InCall(th) /\ \E c \in {"handled", "401"} : Reply(th, c)
      BY <1>8 DEF HandleResponse, InCall, At
    <3> QED BY <3>1, ReplyFacts, OutOfCall
  <2> QED BY <1>8, <2>1 DEF HandleResponse, BreakerInv
<1>9. ASSUME NEW th \in Thread, Finish(th) PROVE BreakerInv'
  <2>1. \A u \in Thread : InCall(u)' <=> InCall(u)
    BY <1>9, IdleRequest, RequestFacts DEF Finish, Become, InCall, At, TypeOK
  <2> QED BY <1>9, <2>1 DEF Finish, BreakerInv
<1>10. ASSUME NEW w \in Worker, WorkerRestart(w) PROVE BreakerInv'
  <2>1. Consistent(ClosedBreaker) /\ ClosedBreaker.mode = "closed"
    BY BreakerAssumption DEF ClosedBreaker, Consistent
  <2>2. \A u \in Thread : InCall(u)' <=> InCall(u) /\ WorkerOf[u] # w
    BY <1>10, IdleRequest DEF WorkerRestart, InCall, At
  <2>3. lock' = [lock EXCEPT ![w] = NoThread]
        /\ breaker' = [breaker EXCEPT ![w] = ClosedBreaker]
    BY <1>10 DEF WorkerRestart
  <2>4. \A u \in Thread : InCall(u)' <=> lock'[WorkerOf[u]] = u
    BY <2>2, <2>3 DEF BreakerInv, TypeOK
  <2>5. \A v \in Worker :
          /\ lock'[v] # NoThread => WorkerOf[lock'[v]] = v
          /\ Consistent(breaker'[v])
          /\ breaker'[v].mode = "open" => lock'[v] = NoThread
          /\ breaker'[v].mode = "half_open" => lock'[v] # NoThread
    BY <2>1, <2>3 DEF BreakerInv, TypeOK
  <2> QED BY <2>4, <2>5 DEF BreakerInv
<1>11. CASE Tick
  <2>1. \A u \in Thread : InCall(u)' <=> InCall(u)
    BY <1>11, AgingRequest DEF Tick, InCall, At, TypeOK
  <2>2. \A v \in Worker : Consistent(breaker'[v]) /\ breaker'[v].mode = breaker[v].mode
    BY <1>11, BreakerModes DEF Tick, BreakerInv, TypeOK
  <2> QED BY <1>11, <2>1, <2>2 DEF Tick, BreakerInv
<1>12. ASSUME UNCHANGED <<request, breaker, lock>> PROVE BreakerInv'
  BY <1>12 DEF BreakerInv, InCall, At
<1> QED BY <1>1, <1>2, <1>3, <1>4, <1>6, <1>7, <1>8, <1>9, <1>10, <1>11, <1>12, ThreadSteps
        DEF Next, Environment, InvalidateSessionCache, Evict,
            RedisFlips, BackendFlips, Revoke, vars
-----------------------------------------------------------------------------
Freshness == ClockInv /\ AnswerInv /\ EntriesExpire

(* What AnswerInv says of one thread's request.                            *)
AnswerOK(r) ==
    /\ r.pc \in {"call", "wait", "answered", "handle"} => r.tok \in Token
    /\ r.answer = "accept" => /\ HoldsAnswer(r)
                              /\ valid[r.tok] \/ since[r.tok] <= r.age

(* One thread moves to a request that is as good, time standing still.     *)
LEMMA AnswerStep ==
    ASSUME TypeOK, AnswerInv, UNCHANGED <<valid, since>>,
           NEW th \in Thread, NEW r \in Requests, Become(th, r), AnswerOK(r)
    PROVE  AnswerInv'
<1>1. \A u \in Thread : AnswerOK(request[u])
  BY DEF AnswerInv, AnswerOK
<1>2. \A u \in Thread : request'[u] = IF u = th THEN r ELSE request[u]
  BY DEF Become, TypeOK
<1> QED BY <1>1, <1>2 DEF AnswerInv, AnswerOK, HoldsAnswer

LEMMA InitFresh == Init => Freshness
<1> SUFFICES ASSUME Init PROVE Freshness OBVIOUS
<1>1. ClockInv
  BY DEF Init, ClockInv
<1>2. AnswerInv
  BY IdleRequest DEF Init, AnswerInv
<1>3. EntriesExpire
  BY DEF Init, NoEntries, EntriesExpire
<1> QED BY <1>1, <1>2, <1>3 DEF Freshness

(* A cached entry is written only from an accepting answer, whose age      *)
(* leaves it SessionTTL ticks at most beyond MaxLag.                       *)
LEMMA HandleFresh ==
    ASSUME TypeOK, Freshness, NEW th \in Thread, HandleResponse(th)
    PROVE  EntriesExpire'
<1> DEFINE tok == request[th].tok
           s == StoreOf(WorkerOf[th])
<1>1. CASE request[th].answer = "accept" /\ CacheReachable
  <2>1. ttl' = [ttl EXCEPT ![s][tok] = SessionTTL] /\ UNCHANGED <<valid, since>>
    BY <1>1 DEF HandleResponse, environment
  <2>2. tok \in Token /\ (valid[tok] \/ since[tok] <= request[th].age)
    BY <1>1 DEF HandleResponse, At, Freshness, AnswerInv
  <2>3. request[th].age \in 0 .. MaxLag /\ since[tok] \in Nat /\ MaxLag \in Nat
        /\ SessionTTL \in Nat /\ SinceCap = SessionTTL + MaxLag
    BY <2>2, RequestFacts, SessionAssumption DEF Requests, TypeOK, SinceCap
  <2>4. valid[tok] \/ since[tok] + SessionTTL <= SinceCap
    BY <2>2, <2>3
  <2>5. \A q \in Store, t \in Token :
           ttl'[q][t] = IF q = s /\ t = tok THEN SessionTTL ELSE ttl[q][t]
    BY <2>1, <2>2, RequestFacts DEF TypeOK
  <2> HIDE DEF tok, s
  <2> QED BY <2>1, <2>4, <2>5 DEF EntriesExpire, Freshness, SinceCap
<1>2. CASE ~(request[th].answer = "accept" /\ CacheReachable)
  <2>1. UNCHANGED <<ttl, valid, since>>
    BY <1>2 DEF HandleResponse, environment
  <2> QED BY <2>1 DEF EntriesExpire, Freshness, SinceCap
<1> QED BY <1>1, <1>2

(* Time passes equally for tokens, answers and entries.                    *)
LEMMA TickFresh ==
    ASSUME TypeOK, Freshness, Tick
    PROVE  Freshness'
<1> USE SessionAssumption
<1>1. \A t \in Token : /\ since[t] \in Nat
                       /\ valid'[t] = valid[t]
                       /\ valid[t] => since'[t] = since[t]
                       /\ since'[t] = since[t] \/ since'[t] = since[t] + 1
  BY DEF Tick, TypeOK
<1>2. \A q \in Store, t \in Token :
         /\ ttl[q][t] \in Nat
         /\ ttl'[q][t] > 0 => ttl[q][t] > 0 /\ ttl'[q][t] = ttl[q][t] - 1
  BY DEF Tick, TypeOK
<1>3. ClockInv'
  BY <1>1 DEF Freshness, ClockInv
<1>4. AnswerInv'
  <2> SUFFICES ASSUME NEW th \in Thread PROVE AnswerOK(request[th])'
    BY DEF AnswerInv, AnswerOK
  <2> DEFINE r == request[th]
             x == request'[th]
  <2>1. r \in Requests /\ r.age \in Nat /\ r.tok \in Token \cup {NoToken}
    BY DEF TypeOK, Requests
  <2>2. x = Aging(r) /\ (HoldsAnswer(r) => r.age < MaxLag)
    BY DEF Tick
  <2>3. /\ x.pc = r.pc /\ x.tok = r.tok /\ x.answer = r.answer
        /\ HoldsAnswer(r) => x.age = r.age + 1
    BY <2>1, <2>2, AgingRequest
  <2>4. AnswerOK(r)
    BY DEF Freshness, AnswerInv, AnswerOK
  <2>5. r.answer = "accept" => r.tok \in Token /\ HoldsAnswer(r)
    BY <2>4 DEF AnswerOK, HoldsAnswer
  <2>6. r.answer = "accept" => valid'[r.tok] \/ since'[r.tok] <= x.age
    BY <1>1, <2>1, <2>3, <2>4, <2>5 DEF AnswerOK
  <2> QED BY <2>3, <2>4, <2>6 DEF AnswerOK, HoldsAnswer
<1>5. EntriesExpire'
  <2> SUFFICES ASSUME NEW q \in Store, NEW t \in Token,
                      ttl'[q][t] > 0, ~valid'[t]
               PROVE  since'[t] + ttl'[q][t] <= SinceCap
    BY DEF EntriesExpire, SinceCap
  <2>1. since[t] + ttl[q][t] <= SinceCap
    BY <1>1, <1>2 DEF Freshness, EntriesExpire
  <2> QED BY <1>1, <1>2, <2>1 DEF SinceCap
<1> QED BY <1>3, <1>4, <1>5 DEF Freshness

LEMMA NextFresh == TypeOK /\ Freshness /\ [Next]_vars => Freshness'
<1> SUFFICES ASSUME TypeOK, Freshness, [Next]_vars PROVE Freshness' OBVIOUS
<1> USE SessionAssumption
<1>1. ASSUME UNCHANGED <<valid, since>>,
             \A q \in Store, t \in Token : ttl'[q][t] \in {0, ttl[q][t]}
      PROVE  ClockInv' /\ EntriesExpire'
  BY <1>1 DEF Freshness, ClockInv, EntriesExpire, SinceCap
<1>2. ASSUME NEW th \in Thread, NEW r \in Requests, Become(th, r), AnswerOK(r),
             UNCHANGED <<ttl, valid, since>>
      PROVE  Freshness'
  BY <1>1, <1>2, AnswerStep DEF Freshness
<1>3. ASSUME NEW th \in Thread, NEW r \in Requests,
             r.answer = "none",
             r.pc \in {"call", "wait", "answered", "handle"} => r.tok \in Token
      PROVE  AnswerOK(r)
  BY <1>3 DEF AnswerOK
<1>4. ASSUME NEW th \in Thread,
             NEW c \in {"none", "handled", "401", "500", "503", "503open"},
             Reply(th, c), UNCHANGED <<valid, since>>
      PROVE  AnswerInv'
  BY <1>3, <1>4, ReplyFacts, AnswerStep DEF Freshness
<1>5. ASSUME NEW th \in Thread, Arrive(th) PROVE Freshness'
  <2>1. PICK r \in Requests : Become(th, r) /\ r.pc = "lookup" /\ r.answer = "none"
    BY <1>5, ArriveFacts
  <2>2. AnswerOK(r)
    BY <1>3, <2>1
  <2> QED BY <1>2, <1>5, <2>1, <2>2 DEF Arrive, environment
<1>6. ASSUME NEW th \in Thread, CacheLookup(th) PROVE Freshness'
  <2>1. UNCHANGED <<ttl, valid, since>>
    BY <1>6 DEF CacheLookup, environment
  <2>2. CASE Become(th, Moved(request[th], "call")) /\ request[th].tok # NoToken
    <3>1. request[th].answer # "accept"
      BY <1>6 DEF CacheLookup, At, Freshness, AnswerInv, HoldsAnswer
    <3>2. AnswerOK(Moved(request[th], "call"))
      BY <2>2, <3>1, MovedRequest, RequestFacts DEF AnswerOK
    <3> QED BY <1>2, <2>1, <2>2, <3>2, MovedRequest, RequestFacts
  <2>3. CASE \E c \in {"401", "500", "handled"} : Reply(th, c)
    BY <1>1, <1>4, <2>1, <2>3 DEF Freshness
  <2> QED BY <1>6, <2>2, <2>3 DEF CacheLookup
<1>7. ASSUME NEW th \in Thread, EnterBreaker(th) PROVE Freshness'
  <2>1. UNCHANGED <<ttl, valid, since>>
    BY <1>7 DEF EnterBreaker, environment
  <2>2. CASE Become(th, Moved(request[th], "wait"))
    <3>1. request[th].answer # "accept" /\ request[th].tok \in Token
      BY <1>7 DEF EnterBreaker, At, Freshness, AnswerInv, HoldsAnswer
    <3>2. AnswerOK(Moved(request[th], "wait"))
      BY <3>1, MovedRequest, RequestFacts DEF AnswerOK
    <3> QED BY <1>2, <2>1, <2>2, <3>2, MovedRequest, RequestFacts
  <2>3. CASE Reply(th, "503open")
    BY <1>1, <1>4, <2>1, <2>3 DEF Freshness
  <2> QED BY <1>7, <2>2, <2>3 DEF EnterBreaker
<1>8. ASSUME NEW th \in Thread, BackendDecides(th) PROVE Freshness'
  <2>1. UNCHANGED <<ttl, valid, since>> /\ At(th, "wait")
    BY <1>8 DEF BackendDecides, environment
  <2>2. PICK a \in {"accept", "reject", "error"} :
           /\ Become(th, Answered(request[th], a))
           /\ a = "accept" => valid[request[th].tok]
    BY <1>8 DEF BackendDecides
  <2>3. request[th].tok \in Token
    BY <2>1 DEF At, Freshness, AnswerInv
  <2>4. AnswerOK(Answered(request[th], a))
    BY <2>2, <2>3, AnsweredRequest, RequestFacts DEF AnswerOK, HoldsAnswer
  <2> QED BY <1>2, <2>1, <2>2, <2>4, AnsweredRequest, RequestFacts
<1>9. ASSUME NEW th \in Thread, ResponseArrives(th) PROVE Freshness'
  <2>1. /\ UNCHANGED <<ttl, valid, since>> /\ At(th, "answered")
        /\ Become(th, Moved(request[th], "handle"))
    BY <1>9 DEF ResponseArrives, environment
  <2>2. AnswerOK(request[th]) /\ request[th].tok \in Token
    BY <2>1 DEF At, Freshness, AnswerInv, AnswerOK
  <2>3. AnswerOK(Moved(request[th], "handle"))
    BY <2>2, MovedRequest, RequestFacts DEF AnswerOK, HoldsAnswer
  <2> QED BY <1>2, <2>1, <2>3, MovedRequest, RequestFacts
<1>10. ASSUME NEW th \in Thread, CallDies(th) PROVE Freshness'
  <2>1. UNCHANGED <<ttl, valid, since>> /\ \E c \in {"503open", "500", "503"} : Reply(th, c)
    BY <1>10 DEF CallDies, EndInException, environment
  <2> QED BY <1>1, <1>4, <2>1 DEF Freshness
<1>11. ASSUME NEW th \in Thread, HandleResponse(th) PROVE Freshness'
  <2>1. UNCHANGED <<valid, since>> /\ \E c \in {"handled", "401"} : Reply(th, c)
    BY <1>11 DEF HandleResponse, environment
  <2>2. ClockInv'
    BY <2>1 DEF Freshness, ClockInv
  <2> QED BY <1>4, <1>11, <2>1, <2>2, HandleFresh DEF Freshness
<1>12. ASSUME NEW th \in Thread, Finish(th) PROVE Freshness'
  BY <1>2, <1>3, <1>12, IdleRequest DEF Finish, environment
<1>13. ASSUME NEW w \in Worker, WorkerRestart(w) PROVE Freshness'
  <2>1. \A th \in Thread : request'[th] \in {Idle, request[th]}
    BY <1>13 DEF WorkerRestart
  <2>2. UNCHANGED <<valid, since>>
    BY <1>13 DEF WorkerRestart, environment
  <2>3. \A q \in Store, t \in Token : ttl'[q][t] \in {0, ttl[q][t]}
    BY <1>13 DEF WorkerRestart, TypeOK, Store
  <2>4. AnswerInv'
    BY <2>1, <2>2, IdleRequest DEF Freshness, AnswerInv, HoldsAnswer
  <2> QED BY <1>1, <2>2, <2>3, <2>4 DEF Freshness
<1>14. ASSUME UNCHANGED <<request, valid, since>>,
              \A q \in Store, t \in Token : ttl'[q][t] \in {0, ttl[q][t]}
       PROVE  Freshness'
  <2>1. AnswerInv'
    BY <1>14 DEF Freshness, AnswerInv, HoldsAnswer
  <2> QED BY <1>1, <1>14, <2>1 DEF Freshness
<1>15. ASSUME NEW w \in Worker, NEW t \in Token, InvalidateSessionCache(w, t)
       PROVE  Freshness'
  BY <1>14, <1>15, StoreType DEF InvalidateSessionCache, environment, TypeOK
<1>16. ASSUME NEW s \in Store, NEW t \in Token, Evict(s, t) PROVE Freshness'
  BY <1>14, <1>16 DEF Evict, environment, TypeOK
<1>17. ASSUME NEW t \in Token, Revoke(t) PROVE Freshness'
  <2>1. /\ UNCHANGED <<request, ttl, since>>
        /\ \A u \in Token : valid'[u] = (valid[u] /\ u # t)
        /\ since[t] = 0
    BY <1>17 DEF Revoke, TypeOK, Freshness, ClockInv
  <2>2. ClockInv'
    BY <2>1 DEF Freshness, ClockInv
  <2>3. AnswerInv'
    <3> SUFFICES ASSUME NEW th \in Thread PROVE AnswerOK(request[th])'
      BY DEF AnswerInv, AnswerOK
    <3>1. request'[th] = request[th] /\ request[th].age \in Nat
      BY <2>1 DEF TypeOK, Requests
    <3>2. AnswerOK(request[th])
      BY DEF Freshness, AnswerInv, AnswerOK
    <3>3. request[th].answer = "accept" => request[th].tok \in Token
      BY <3>2 DEF AnswerOK, HoldsAnswer
    <3>4. request[th].answer = "accept" =>
             \/ valid'[request[th].tok]
             \/ since'[request[th].tok] <= request[th].age
      <4> SUFFICES ASSUME request[th].answer = "accept"
                   PROVE  \/ valid'[request[th].tok]
                          \/ since'[request[th].tok] <= request[th].age
        OBVIOUS
      <4> DEFINE u == request[th].tok
      <4>1. u \in Token /\ (valid[u] \/ since[u] <= request[th].age)
        BY <3>2, <3>3 DEF AnswerOK
      <4>2. CASE u = t
        BY <2>1, <3>1, <4>2
      <4>3. CASE u # t
        BY <2>1, <4>1, <4>3
      <4> QED BY <4>2, <4>3
    <3> QED BY <3>1, <3>2, <3>4 DEF AnswerOK, HoldsAnswer
  <2>4. EntriesExpire'
    <3>1. \A s \in Store : since[t] + ttl[s][t] <= SinceCap
      BY <2>1 DEF TypeOK, SinceCap
    <3>2. \A s \in Store, u \in Token :
             u # t /\ ttl[s][u] > 0 /\ ~valid'[u] => since[u] + ttl[s][u] <= SinceCap
      BY <2>1 DEF Freshness, EntriesExpire
    <3> QED BY <2>1, <3>1, <3>2 DEF EntriesExpire, SinceCap
  <2> QED BY <2>2, <2>3, <2>4 DEF Freshness
<1>18. CASE BackendFlips \/ UNCHANGED vars
  BY <1>14, <1>18 DEF BackendFlips, vars
<1>19. CASE RedisFlips
  BY <1>14, <1>19 DEF RedisFlips, NoEntries
<1> QED BY <1>5, <1>6, <1>7, <1>8, <1>9, <1>10, <1>11, <1>12, <1>13, <1>15, <1>16,
           <1>17, <1>18, <1>19, TickFresh, ThreadSteps DEF Next, Environment
-----------------------------------------------------------------------------
LEMMA InitIndInv == Init => IndInv
BY InitTyped, InitBreakerInv, InitFresh DEF IndInv, Freshness

LEMMA NextIndInv == IndInv /\ [Next]_vars => IndInv'
BY NextTyped, NextBreakerInv, NextFresh DEF IndInv, Freshness

(* The inductive invariant holds in every reachable state.                 *)
THEOREM Invariance == Spec => []IndInv
BY InitIndInv, NextIndInv, PTL DEF Spec

(* At most one backend call per worker, none while its breaker is open,    *)
(* one while it is half open.                                              *)
THEOREM OneCall == Spec => []OneCallPerWorker
<1>1. IndInv => OneCallPerWorker
  <2> SUFFICES ASSUME IndInv, NEW w \in Worker
               PROVE  /\ \A th1, th2 \in Thread :
                            /\ WorkerOf[th1] = w /\ WorkerOf[th2] = w
                            /\ InCall(th1) /\ InCall(th2)
                            => th1 = th2
                      /\ breaker[w].mode = "open" =>
                            ~ \E th \in Thread : WorkerOf[th] = w /\ InCall(th)
                      /\ breaker[w].mode = "half_open" =>
                            \E th \in Thread : WorkerOf[th] = w /\ InCall(th)
    BY DEF OneCallPerWorker
  <2>1. \A th \in Thread : WorkerOf[th] = w => (InCall(th) <=> lock[w] = th)
    BY DEF IndInv, BreakerInv
  <2>2. lock[w] \in Thread \cup {NoThread}
    BY DEF IndInv, TypeOK
  <2>3. breaker[w].mode = "half_open" => lock[w] \in Thread /\ WorkerOf[lock[w]] = w
    BY <2>2 DEF IndInv, BreakerInv
  <2>4. breaker[w].mode = "open" => lock[w] \notin Thread
    BY SessionAssumption DEF IndInv, BreakerInv
  <2> QED BY <2>1, <2>3, <2>4
<1> QED BY <1>1, Invariance, PTL

(* A cached session outlives the backend's acceptance of its token by      *)
(* SessionTTL + MaxLag ticks at most.                                      *)
THEOREM EntriesExpireInTime == Spec => []EntriesExpire
<1>1. IndInv => EntriesExpire
  BY DEF IndInv
<1> QED BY <1>1, Invariance, PTL

(* Who admits: a cache hit for a live entry, or an accepting answer.       *)
LEMMA Admission ==
    ASSUME IndInv, [Next]_vars, NEW th \in Thread, Admits(th)
    PROVE  \/ /\ CacheLookup(th)
              /\ request[th].tok \in Token
              /\ ttl[StoreOf(WorkerOf[th])][request[th].tok] > 0
           \/ HandleResponse(th) /\ request[th].answer = "accept"
<1> USE DEF Admits
<1>0. TypeOK
  BY DEF IndInv
<1>1. ASSUME NEW u \in Thread, NEW r \in Requests, Become(u, r),
             u = th => r.reply # "handled"
      PROVE  FALSE
  BY <1>0, <1>1 DEF Become, TypeOK
<1>2. ASSUME NEW u \in Thread, CacheLookup(u), ~CacheLookup(th) \/ u # th
      PROVE  FALSE
  <2>1. u # th
    BY <1>2
  <2>2. \E r \in Requests : Become(u, r)
    BY <1>0, <1>2, ReplyFacts, MovedRequest, RequestFacts DEF CacheLookup
  <2> QED BY <1>1, <2>1, <2>2
<1>3. ASSUME CacheLookup(th)
      PROVE  /\ request[th].tok \in Token
             /\ ttl[StoreOf(WorkerOf[th])][request[th].tok] > 0
  <2>1. CASE Become(th, Moved(request[th], "call"))
    BY <1>0, <1>1, <2>1, MovedRequest, RequestFacts
  <2>2. CASE \E c \in {"401", "500"} : Reply(th, c)
    <3>1. PICK r \in Requests : Become(th, r) /\ r.reply \in {"401", "500"}
      BY <1>0, <2>2, ReplyFacts
    <3> QED BY <1>1, <3>1
  <2>3. CASE /\ request[th].tok # NoToken
             /\ ttl[StoreOf(WorkerOf[th])][request[th].tok] > 0
    BY <1>0, <2>3, RequestFacts
  <2> QED BY <1>3, <2>1, <2>2, <2>3 DEF CacheLookup
<1>4. ASSUME NEW u \in Thread, HandleResponse(u)
      PROVE  u = th /\ request[th].answer = "accept"
  <2>1. CASE Reply(u, "handled") /\ request[u].answer = "accept"
    <3>1. PICK r \in Requests : Become(u, r)
      BY <1>0, <2>1, ReplyFacts
    <3> QED BY <1>1, <2>1, <3>1
  <2>2. CASE Reply(u, "401")
    <3>1. PICK r \in Requests : Become(u, r) /\ r.reply = "401"
      BY <1>0, <2>2, ReplyFacts
    <3> QED BY <1>1, <3>1
  <2> QED BY <1>4, <2>1, <2>2 DEF HandleResponse
<1>5. ASSUME NEW u \in Thread,
             Arrive(u) \/ EnterBreaker(u) \/ BackendDecides(u)
             \/ ResponseArrives(u) \/ CallDies(u) \/ Finish(u)
      PROVE  FALSE
  <2>1. CASE Arrive(u)
    BY <1>1, <2>1, ArriveFacts
  <2>2. CASE EnterBreaker(u)
    <3>1. CASE Become(u, Moved(request[u], "wait"))
      BY <1>0, <1>1, <3>1, MovedRequest, RequestFacts
    <3>2. CASE Reply(u, "503open")
      <4>1. PICK r \in Requests : Become(u, r) /\ r.reply = "503open"
        BY <1>0, <3>2, ReplyFacts
      <4> QED BY <1>1, <4>1
    <3> QED BY <2>2, <3>1, <3>2 DEF EnterBreaker
  <2>3. CASE BackendDecides(u)
    <3>1. PICK a \in {"accept", "reject", "error"} :
             Become(u, Answered(request[u], a))
      BY <2>3 DEF BackendDecides
    <3> QED BY <1>0, <1>1, <3>1, AnsweredRequest, RequestFacts
  <2>4. CASE ResponseArrives(u)
    BY <1>0, <1>1, <2>4, MovedRequest, RequestFacts DEF ResponseArrives
  <2>5. CASE CallDies(u)
    <3>1. \E c \in {"503open", "500", "503"} : Reply(u, c)
      BY <2>5 DEF CallDies, EndInException
    <3>2. PICK r \in Requests : Become(u, r) /\ r.reply \in {"503open", "500", "503"}
      BY <1>0, <3>1, ReplyFacts
    <3> QED BY <1>1, <3>2
  <2>6. CASE Finish(u)
    BY <1>1, <2>6, IdleRequest DEF Finish
  <2> QED BY <1>5, <2>1, <2>2, <2>3, <2>4, <2>5, <2>6
<1>6. ASSUME NEW w \in Worker, WorkerRestart(w) PROVE FALSE
  BY <1>6, IdleRequest DEF WorkerRestart
<1>7. ASSUME Tick PROVE FALSE
  BY <1>0, <1>7, AgingRequest DEF Tick, TypeOK
<1>8. ASSUME UNCHANGED request PROVE FALSE
  BY <1>8
<1> QED BY <1>2, <1>3, <1>4, <1>5, <1>6, <1>7, <1>8, ThreadSteps
        DEF Next, Environment, InvalidateSessionCache, Evict, Revoke,
            RedisFlips, BackendFlips, vars

(* What an entry or an accepting answer vouches for is recent enough.      *)
LEMMA EntryIsFresh ==
    ASSUME IndInv, NEW s \in Store, NEW t \in Token, ttl[s][t] > 0
    PROVE  valid[t] \/ since[t] < SinceCap
<1>1. /\ SessionTTL \in Nat \ {0} /\ MaxLag \in Nat /\ SinceCap = SessionTTL + MaxLag
      /\ since[t] \in Nat /\ ttl[s][t] \in Nat
  BY SessionAssumption DEF IndInv, TypeOK, SinceCap
<1>2. valid[t] \/ since[t] + ttl[s][t] <= SinceCap
  BY DEF IndInv, EntriesExpire
<1> QED BY <1>1, <1>2

LEMMA AnswerIsFresh ==
    ASSUME IndInv, NEW th \in Thread, At(th, "handle"), request[th].answer = "accept"
    PROVE  /\ request[th].tok \in Token
           /\ valid[request[th].tok] \/ since[request[th].tok] < SinceCap
<1> DEFINE t == request[th].tok
<1>1. SessionTTL \in Nat \ {0} /\ MaxLag \in Nat /\ SinceCap = SessionTTL + MaxLag
  BY SessionAssumption DEF SinceCap
<1>2. t \in Token /\ (valid[t] \/ since[t] <= request[th].age)
  BY DEF At, IndInv, AnswerInv
<1>3. request[th].age \in 0 .. MaxLag /\ since[t] \in Nat
  BY <1>2 DEF IndInv, TypeOK, Requests
<1> QED BY <1>1, <1>2, <1>3

(* No view runs for a token the backend stopped accepting SessionTTL +     *)
(* MaxLag ticks ago or earlier.                                            *)
THEOREM StaleAdmission == Spec => StaleAdmissionBounded
<1>1. IndInv /\ [Next]_vars =>
         [AdmissionIsFresh]_vars
  <2> SUFFICES ASSUME IndInv, [Next]_vars, NEW th \in Thread, Admits(th)
               PROVE  valid[request[th].tok] \/ since[request[th].tok] < SinceCap
    BY DEF AdmissionIsFresh
  <2>1. CASE request[th].tok \in Token /\ ttl[StoreOf(WorkerOf[th])][request[th].tok] > 0
    BY <2>1, EntryIsFresh, RequestFacts DEF IndInv
  <2>2. CASE HandleResponse(th) /\ request[th].answer = "accept"
    BY <2>2, AnswerIsFresh DEF HandleResponse
  <2> QED BY <2>1, <2>2, Admission
<1> QED BY <1>1, Invariance, PTL DEF Spec, StaleAdmissionBounded
-----------------------------------------------------------------------------
(* A verdict comes from the step before or from the backend.               *)
LEMMA AnswerOrigin ==
    ASSUME IndInv, [Next]_vars, NEW th \in Thread,
           NEW v \in {"accept", "reject"}, request'[th].answer = v
    PROVE  /\ request'[th].tok = request[th].tok
           /\ request[th].answer = v \/ (valid[request[th].tok] <=> v = "accept")
<1>0. TypeOK
  BY DEF IndInv
<1>1. ASSUME NEW u \in Thread, NEW r \in Requests, Become(u, r),
             \/ r.answer = "none"
             \/ r.tok = request[u].tok /\ r.answer = request[u].answer
             \/ r.tok = request[u].tok /\ r.answer = "accept" /\ valid[request[u].tok]
             \/ r.tok = request[u].tok /\ r.answer = "reject" /\ ~valid[request[u].tok]
             \/ r.answer = "error"
      PROVE  /\ request'[th].tok = request[th].tok
             /\ request[th].answer = v \/ (valid[request[th].tok] <=> v = "accept")
  BY <1>0, <1>1 DEF Become, TypeOK
<1>2. ASSUME NEW u \in Thread,
             \E c \in {"handled", "401", "500", "503", "503open"} : Reply(u, c)
      PROVE  /\ request'[th].tok = request[th].tok
             /\ request[th].answer = v \/ (valid[request[th].tok] <=> v = "accept")
  BY <1>0, <1>1, <1>2, ReplyFacts
<1>3. ASSUME NEW u \in Thread,
             \E l \in {"call", "wait", "handle"} : Become(u, Moved(request[u], l))
      PROVE  /\ request'[th].tok = request[th].tok
             /\ request[th].answer = v \/ (valid[request[th].tok] <=> v = "accept")
  BY <1>0, <1>1, <1>3, MovedRequest, RequestFacts
<1>4. ASSUME NEW u \in Thread, Arrive(u) \/ ThreadStep(u)
      PROVE  /\ request'[th].tok = request[th].tok
             /\ request[th].answer = v \/ (valid[request[th].tok] <=> v = "accept")
  <2>1. CASE Arrive(u)
    BY <1>1, <2>1, ArriveFacts
  <2>2. CASE BackendDecides(u)
    <3>1. PICK a \in {"accept", "reject", "error"} :
             /\ Become(u, Answered(request[u], a))
             /\ a = "accept" => valid[request[u].tok]
             /\ a = "reject" => ~valid[request[u].tok]
      BY <2>2 DEF BackendDecides
    <3> QED BY <1>0, <1>1, <3>1, AnsweredRequest, RequestFacts
  <2>3. CASE Finish(u)
    BY <1>1, <2>3, IdleRequest DEF Finish
  <2>4. CASE CacheLookup(u)
    BY <1>2, <1>3, <2>4 DEF CacheLookup
  <2>5. CASE EnterBreaker(u)
    BY <1>2, <1>3, <2>5 DEF EnterBreaker
  <2>6. CASE ResponseArrives(u)
    BY <1>3, <2>6 DEF ResponseArrives
  <2>7. CASE CallDies(u)
    BY <1>2, <2>7 DEF CallDies, EndInException
  <2>8. CASE HandleResponse(u)
    BY <1>2, <2>8 DEF HandleResponse
  <2> QED BY <1>4, <2>1, <2>2, <2>3, <2>4, <2>5, <2>6, <2>7, <2>8, ThreadSteps
<1>5. ASSUME NEW w \in Worker, WorkerRestart(w)
      PROVE  request'[th] = request[th]
  BY <1>5, IdleRequest DEF WorkerRestart
<1>6. ASSUME Tick
      PROVE  request'[th].tok = request[th].tok /\ request[th].answer = v
  BY <1>0, <1>6, AgingRequest DEF Tick, TypeOK
<1> QED BY <1>4, <1>5, <1>6
        DEF Next, Environment, InvalidateSessionCache, Evict, Revoke,
            RedisFlips, BackendFlips, vars

(* An entry comes from the step before or from an accepting answer.        *)
LEMMA EntryOrigin ==
    ASSUME IndInv, [Next]_vars, NEW s \in Store, NEW t \in Token, ttl'[s][t] # 0
    PROVE  \/ ttl[s][t] # 0
           \/ \E th \in Thread : request[th].tok = t /\ request[th].answer = "accept"
<1>0. TypeOK
  BY DEF IndInv
<1>1. ASSUME NEW th \in Thread, HandleResponse(th), ttl' # ttl
      PROVE  \/ ttl[s][t] # 0
             \/ request[th].tok = t /\ request[th].answer = "accept"
  <2> DEFINE q == StoreOf(WorkerOf[th])
             tok == request[th].tok
  <2>1. /\ request[th].answer = "accept"
        /\ ttl' = [ttl EXCEPT ![q] = [ttl[q] EXCEPT ![tok] = SessionTTL]]
    BY <1>1 DEF HandleResponse
  <2>2. tok # t => ttl'[s][t] = ttl[s][t]
    <3> HIDE DEF q, tok
    <3> QED BY <1>0, <2>1 DEF TypeOK
  <2> QED BY <2>1, <2>2
<1>2. ASSUME NEW w \in Worker, WorkerRestart(w) PROVE ttl[s][t] # 0
  BY <1>0, <1>2 DEF WorkerRestart, TypeOK, Store
<1>3. ASSUME NEW w \in Worker, NEW u \in Token, InvalidateSessionCache(w, u)
      PROVE  ttl[s][t] # 0
  <2> DEFINE q == StoreOf(w)
  <2>1. ttl' = [ttl EXCEPT ![q] = [ttl[q] EXCEPT ![u] = 0]]
    BY <1>3 DEF InvalidateSessionCache
  <2> HIDE DEF q
  <2> QED BY <1>0, <2>1 DEF TypeOK
<1>4. ASSUME NEW q \in Store, NEW u \in Token, Evict(q, u) PROVE ttl[s][t] # 0
  BY <1>0, <1>4 DEF Evict, TypeOK
<1>5. ASSUME Tick PROVE ttl[s][t] # 0
  BY <1>5 DEF Tick
<1>6. ASSUME RedisFlips PROVE ttl[s][t] # 0
  BY <1>6 DEF RedisFlips, NoEntries
<1> QED BY <1>1, <1>2, <1>3, <1>4, <1>5, <1>6, ThreadSteps
        DEF Next, Environment, Arrive, CacheLookup, EnterBreaker,
            BackendDecides, ResponseArrives, CallDies, EndInException, Finish, Revoke,
            BackendFlips, vars

(* The backend never accepts again what it has stopped accepting.          *)
LEMMA NotBack ==
    ASSUME TypeOK, [Next]_vars, NEW t \in Token, ~valid[t]
    PROVE  ~valid'[t]
BY ThreadSteps DEF Next, Environment, Arrive, CacheLookup, EnterBreaker,
       BackendDecides, ResponseArrives, CallDies, EndInException, HandleResponse, Finish,
       InvalidateSessionCache, WorkerRestart, Evict, Revoke, RedisFlips,
       BackendFlips, Tick, environment, vars, TypeOK

(* Once nothing vouches for a token the backend rejects, no step brings    *)
(* an entry or an answer back, or runs a view for it.                      *)
THEOREM ForgottenStays == Spec => ForgottenForGood
<1>1. IndInv /\ [Next]_vars => [ForgottenStaysOut]_vars
  <2> SUFFICES ASSUME IndInv, [Next]_vars, NEW t \in Token, Forgotten(t)
               PROVE  /\ Forgotten(t)'
                      /\ \A th \in Thread : Admits(th) => request[th].tok # t
    BY DEF ForgottenStaysOut
  <2>1. ~valid'[t]
    BY NotBack DEF Forgotten, IndInv
  <2>2. \A s \in Store : ttl'[s][t] = 0
    BY EntryOrigin DEF Forgotten
  <2>3. \A th \in Thread : request'[th].tok = t => request'[th].answer # "accept"
    BY AnswerOrigin DEF Forgotten
  <2>4. ASSUME NEW th \in Thread, Admits(th) PROVE request[th].tok # t
    BY <2>4, Admission, RequestFacts DEF Forgotten, IndInv
  <2> QED BY <2>1, <2>2, <2>3, <2>4 DEF Forgotten
<1> QED BY <1>1, Invariance, PTL DEF Spec, ForgottenForGood
-----------------------------------------------------------------------------
(* Whoever holds an answer has had it before, or gets it now.              *)
LEMMA AnswerHeld ==
    ASSUME IndInv, [Next]_vars, NEW th \in Thread, HoldsAnswer(request'[th]),
           HoldsAnswer(request[th]) => request[th].answer # "none"
    PROVE  request'[th].answer # "none"
<1> USE DEF HoldsAnswer
<1>0. TypeOK
  BY DEF IndInv
<1>1. ASSUME NEW u \in Thread, NEW r \in Requests, Become(u, r),
             \/ r.pc \notin {"answered", "handle"}
             \/ r.answer # "none"
      PROVE  request'[th].answer # "none"
  BY <1>0, <1>1 DEF Become, TypeOK
<1>2. ASSUME NEW u \in Thread,
             \E c \in {"handled", "401", "500", "503", "503open"} : Reply(u, c)
      PROVE  request'[th].answer # "none"
  BY <1>0, <1>1, <1>2, ReplyFacts
<1>3. ASSUME NEW u \in Thread, \E l \in {"call", "wait"} : Become(u, Moved(request[u], l))
      PROVE  request'[th].answer # "none"
  BY <1>0, <1>1, <1>3, MovedRequest, RequestFacts
<1>4. ASSUME NEW u \in Thread, Arrive(u) \/ ThreadStep(u)
      PROVE  request'[th].answer # "none"
  <2>1. CASE Arrive(u)
    BY <1>1, <2>1, ArriveFacts
  <2>2. CASE BackendDecides(u)
    <3>1. PICK a \in {"accept", "reject", "error"} : Become(u, Answered(request[u], a))
      BY <2>2 DEF BackendDecides
    <3> QED BY <1>0, <1>1, <3>1, AnsweredRequest, RequestFacts
  <2>3. CASE Finish(u)
    BY <1>1, <2>3, IdleRequest DEF Finish
  <2>4. CASE CacheLookup(u)
    BY <1>2, <1>3, <2>4 DEF CacheLookup
  <2>5. CASE EnterBreaker(u)
    BY <1>2, <1>3, <2>5 DEF EnterBreaker
  <2>6. CASE ResponseArrives(u)
    <3>1. request[u].pc = "answered" /\ Become(u, Moved(request[u], "handle"))
      BY <2>6 DEF ResponseArrives, At
    <3>2. CASE u = th
      BY <1>0, <1>1, <3>1, <3>2, MovedRequest, RequestFacts
    <3>3. CASE u # th
      BY <1>0, <3>1, <3>3 DEF Become, TypeOK
    <3> QED BY <3>2, <3>3
  <2>7. CASE CallDies(u)
    BY <1>2, <2>7 DEF CallDies, EndInException
  <2>8. CASE HandleResponse(u)
    BY <1>2, <2>8 DEF HandleResponse
  <2> QED BY <1>4, <2>1, <2>2, <2>3, <2>4, <2>5, <2>6, <2>7, <2>8, ThreadSteps
<1>5. ASSUME NEW w \in Worker, WorkerRestart(w)
      PROVE  request'[th] = request[th]
  BY <1>5, IdleRequest DEF WorkerRestart
<1>6. ASSUME Tick
      PROVE  request'[th].pc = request[th].pc /\ request'[th].answer = request[th].answer
  BY <1>0, <1>6, AgingRequest DEF Tick, TypeOK
<1> QED BY <1>4, <1>5, <1>6
        DEF Next, Environment, InvalidateSessionCache, Evict, Revoke,
            RedisFlips, BackendFlips, vars

LEMMA RejectInvariance == Spec => []RejectInv
<1>1. Init => RejectInv
  BY IdleRequest DEF Init, RejectInv, HoldsAnswer
<1>2. IndInv /\ RejectInv /\ [Next]_vars => RejectInv'
  <2> SUFFICES ASSUME IndInv, RejectInv, [Next]_vars, NEW th \in Thread
               PROVE  /\ HoldsAnswer(request'[th]) => request'[th].answer # "none"
                      /\ \A t \in Token : request'[th].answer = "reject" /\ request'[th].tok = t
                                          => ~valid'[t]
    BY DEF RejectInv, HoldsAnswer
  <2>1. HoldsAnswer(request'[th]) => request'[th].answer # "none"
    BY AnswerHeld DEF RejectInv
  <2>2. ASSUME NEW t \in Token, request'[th].answer = "reject", request'[th].tok = t
        PROVE  ~valid'[t]
    <3>1. request[th].tok = t /\ (request[th].answer = "reject" \/ ~valid[t])
      BY <2>2, AnswerOrigin
    <3>2. ~valid[t]
      BY <3>1 DEF RejectInv
    <3> QED BY <3>2, NotBack DEF IndInv
  <2> QED BY <2>1, <2>2
<1> QED BY <1>1, <1>2, Invariance, PTL DEF Spec

(* Who refuses with 401: a lookup without a cookie, or one that has an     *)
(* answer and does not admit.                                              *)
LEMMA Refusing ==
    ASSUME IndInv, [Next]_vars, NEW th \in Thread, Refuses(th)
    PROVE  \/ request[th].tok = NoToken
           \/ /\ HoldsAnswer(request[th])
              /\ request[th].answer = "accept" => ~CacheReachable
<1> USE DEF Refuses
<1>0. TypeOK
  BY DEF IndInv
<1>1. ASSUME NEW u \in Thread, NEW r \in Requests, Become(u, r),
             u = th => r.reply # "401"
      PROVE  FALSE
  BY <1>0, <1>1 DEF Become, TypeOK
<1>2. ASSUME NEW u \in Thread,
             \E c \in {"handled", "500", "503", "503open"} : Reply(u, c)
      PROVE  FALSE
  BY <1>0, <1>1, <1>2, ReplyFacts
<1>3. ASSUME NEW u \in Thread,
             \E l \in {"call", "wait", "handle"} : Become(u, Moved(request[u], l))
      PROVE  FALSE
  BY <1>0, <1>1, <1>3, MovedRequest, RequestFacts
<1>4. ASSUME NEW u \in Thread, Reply(u, "401")
      PROVE  u = th
  BY <1>0, <1>1, <1>4, ReplyFacts
<1>5. ASSUME NEW u \in Thread, CacheLookup(u)
      PROVE  request[th].tok = NoToken
  BY <1>2, <1>3, <1>4, <1>5 DEF CacheLookup
<1>6. ASSUME NEW u \in Thread, HandleResponse(u)
      PROVE  HoldsAnswer(request[th]) /\ (request[th].answer = "accept" => ~CacheReachable)
  BY <1>2, <1>4, <1>6 DEF HandleResponse, HoldsAnswer, At
<1>7. ASSUME NEW u \in Thread,
             Arrive(u) \/ EnterBreaker(u) \/ BackendDecides(u)
             \/ ResponseArrives(u) \/ CallDies(u) \/ Finish(u)
      PROVE  FALSE
  <2>1. CASE Arrive(u)
    BY <1>1, <2>1, ArriveFacts
  <2>2. CASE EnterBreaker(u)
    BY <1>2, <1>3, <2>2 DEF EnterBreaker
  <2>3. CASE BackendDecides(u)
    <3>1. PICK a \in {"accept", "reject", "error"} : Become(u, Answered(request[u], a))
      BY <2>3 DEF BackendDecides
    <3> QED BY <1>0, <1>1, <3>1, AnsweredRequest, RequestFacts
  <2>4. CASE ResponseArrives(u)
    BY <1>3, <2>4 DEF ResponseArrives
  <2>5. CASE CallDies(u)
    BY <1>2, <2>5 DEF CallDies, EndInException
  <2>6. CASE Finish(u)
    BY <1>1, <2>6, IdleRequest DEF Finish
  <2> QED BY <1>7, <2>1, <2>2, <2>3, <2>4, <2>5, <2>6
<1>8. ASSUME NEW w \in Worker, WorkerRestart(w) PROVE FALSE
  BY <1>8, IdleRequest DEF WorkerRestart
<1>9. ASSUME Tick PROVE FALSE
  BY <1>0, <1>9, AgingRequest DEF Tick, TypeOK
<1>10. ASSUME UNCHANGED request PROVE FALSE
  BY <1>10
<1> QED BY <1>5, <1>6, <1>7, <1>8, <1>9, <1>10, ThreadSteps
        DEF Next, Environment, InvalidateSessionCache, Evict, Revoke,
            RedisFlips, BackendFlips, vars

(* A token that the backend accepts is refused with 401 only after an      *)
(* answer that says nothing of it, or when the cache cannot be written.    *)
THEOREM RefusalsHaveACause == Spec => RefusedForACause
<1>1. IndInv /\ RejectInv /\ [Next]_vars => [RefusalIsFounded]_vars
  <2> SUFFICES ASSUME IndInv, RejectInv, [Next]_vars, NEW th \in Thread, NEW t \in Token,
                      Refuses(th), request[th].tok = t, valid[t]
               PROVE  request[th].answer = "error" \/ ~CacheReachable
    BY DEF RefusalIsFounded
  <2>1. HoldsAnswer(request[th]) /\ (request[th].answer = "accept" => ~CacheReachable)
    BY Refusing, SessionAssumption
  <2>2. request[th].answer # "none" /\ request[th].answer # "reject"
    BY <2>1 DEF RejectInv
  <2>3. request[th].answer \in {"none", "accept", "reject", "error"}
    BY DEF IndInv, TypeOK, Requests
  <2> QED BY <2>1, <2>2, <2>3
<1> QED BY <1>1, Invariance, RejectInvariance, PTL DEF Spec, RefusedForACause
-----------------------------------------------------------------------------
(* What each operator of Breaker is to the call policy.                    *)
LEMMA BreakerPolicy ==
    ASSUME NEW x \in Breakers, Consistent(x)
    PROVE  /\ ClosedBreaker.fails = 0 /\ ClosedBreaker.cooldown = 0
           /\ MayCall(x) => /\ x.cooldown = 0
                            /\ BeforeCall(x).fails = x.fails
                            /\ BeforeCall(x).cooldown = x.cooldown
           /\ x.mode # "open" =>
                 /\ AfterFailure(x).fails =
                       IF x.fails = FailMax THEN FailMax ELSE x.fails + 1
                 /\ AfterFailure(x).cooldown =
                       IF AfterFailure(x).fails = FailMax THEN ResetTimeout ELSE 0
           /\ Aged(x).fails = x.fails
           /\ Aged(x).cooldown = IF x.cooldown = 0 THEN 0 ELSE x.cooldown - 1
<1> USE BreakerAssumption DEF Breakers, Consistent
<1>1. ClosedBreaker.fails = 0 /\ ClosedBreaker.cooldown = 0
  BY DEF ClosedBreaker
<1>2. MayCall(x) => /\ x.cooldown = 0
                    /\ BeforeCall(x).fails = x.fails
                    /\ BeforeCall(x).cooldown = x.cooldown
  BY DEF MayCall, BeforeCall
<1>3. x.mode # "open" =>
         /\ AfterFailure(x).fails =
               IF x.fails = FailMax THEN FailMax ELSE x.fails + 1
         /\ AfterFailure(x).cooldown =
               IF AfterFailure(x).fails = FailMax THEN ResetTimeout ELSE 0
  BY DEF AfterFailure, Trips, OpenBreaker
<1>4. /\ Aged(x).fails = x.fails
      /\ Aged(x).cooldown = IF x.cooldown = 0 THEN 0 ELSE x.cooldown - 1
  BY DEF Aged
<1> QED BY <1>1, <1>2, <1>3, <1>4

(* Each worker's breaker and lock implement CallPolicy.                    *)
THEOREM PolicyImplemented == Spec => CallPolicyHolds
<1>1. Init => PolicyStart
  BY DEF Init, PolicyStart, Policy!PolicyInit, ClosedBreaker
<1>2. IndInv /\ [Next]_vars => [PolicyStep]_vars
  <2> SUFFICES ASSUME IndInv, [Next]_vars, NEW w \in Worker
               PROVE  [Policy(w)!PolicyNext]_(Policy(w)!policyVars)
    BY DEF PolicyStep
  <2> USE DEF Policy!PolicyNext, Policy!policyVars
  <2>1. /\ TypeOK /\ breaker[w] \in Breakers /\ Consistent(breaker[w])
        /\ lock[w] \in Thread \cup {NoThread}
        /\ breaker[w].mode = "open" => lock[w] = NoThread
    BY DEF IndInv, TypeOK, BreakerInv
  <2>2. ASSUME UNCHANGED <<breaker, lock>>
        PROVE  [Policy(w)!PolicyNext]_(Policy(w)!policyVars)
    BY <2>2
  <2>3. ASSUME NEW th \in Thread, EnterBreaker(th)
        PROVE  [Policy(w)!PolicyNext]_(Policy(w)!policyVars)
    <3>1. CASE WorkerOf[th] = w /\ MayCall(breaker[w])
      <4>1. /\ breaker'[w] = BeforeCall(breaker[w])
            /\ lock'[w] = th /\ lock[w] = NoThread
        BY <2>1, <2>3, <3>1 DEF EnterBreaker, TypeOK
      <4>2. Policy(w)!Begin
        BY <2>1, <4>1, <3>1, BreakerPolicy, SessionAssumption DEF Policy!Begin
      <4> QED BY <4>2
    <3>2. CASE WorkerOf[th] = w /\ ~MayCall(breaker[w])
      BY <2>3, <3>2, <2>2 DEF EnterBreaker
    <3>3. CASE WorkerOf[th] # w
      <4>1. breaker'[w] = breaker[w] /\ lock'[w] = lock[w]
        BY <2>1, <2>3, <3>3 DEF EnterBreaker, TypeOK
      <4> QED BY <4>1
    <3> QED BY <3>1, <3>2, <3>3
  <2>4. ASSUME NEW th \in Thread, ResponseArrives(th)
        PROVE  [Policy(w)!PolicyNext]_(Policy(w)!policyVars)
    <3>1. CASE WorkerOf[th] = w
      <4>1. breaker'[w] = ClosedBreaker /\ lock'[w] = NoThread
        BY <2>1, <2>4, <3>1 DEF ResponseArrives, TypeOK, AfterSuccess
      <4>2. lock[w] = th
        BY <2>4, <3>1 DEF ResponseArrives, InCall, IndInv, BreakerInv
      <4>3. Policy(w)!Succeed
        BY <2>1, <4>1, <4>2, BreakerPolicy, SessionAssumption DEF Policy!Succeed
      <4> QED BY <4>3
    <3>2. CASE WorkerOf[th] # w
      <4>1. breaker'[w] = breaker[w] /\ lock'[w] = lock[w]
        BY <2>1, <2>4, <3>2 DEF ResponseArrives, TypeOK
      <4> QED BY <4>1
    <3> QED BY <3>1, <3>2
  <2>5. ASSUME NEW th \in Thread, CallDies(th)
        PROVE  [Policy(w)!PolicyNext]_(Policy(w)!policyVars)
    <3>1. CASE WorkerOf[th] = w
      <4>1. breaker'[w] = AfterFailure(breaker[w]) /\ lock'[w] = NoThread
        BY <2>1, <2>5, <3>1 DEF CallDies, EndInException, TypeOK
      <4>2. lock[w] = th /\ th # NoThread
        BY <2>5, <3>1, SessionAssumption DEF CallDies, EndInException, InCall, IndInv, BreakerInv
      <4>3. Policy(w)!Fail
        BY <2>1, <4>1, <4>2, BreakerPolicy DEF Policy!Fail
      <4> QED BY <4>3
    <3>2. CASE WorkerOf[th] # w
      <4>1. breaker'[w] = breaker[w] /\ lock'[w] = lock[w]
        BY <2>1, <2>5, <3>2 DEF CallDies, EndInException, TypeOK
      <4> QED BY <4>1
    <3> QED BY <3>1, <3>2
  <2>6. ASSUME NEW v \in Worker, WorkerRestart(v)
        PROVE  [Policy(w)!PolicyNext]_(Policy(w)!policyVars)
    <3>1. CASE v = w
      <4>1. breaker'[w] = ClosedBreaker /\ lock'[w] = NoThread
        BY <2>1, <2>6, <3>1 DEF WorkerRestart, TypeOK
      <4>2. Policy(w)!Forget
        BY <2>1, <4>1, BreakerPolicy DEF Policy!Forget
      <4> QED BY <4>2
    <3>2. CASE v # w
      <4>1. breaker'[w] = breaker[w] /\ lock'[w] = lock[w]
        BY <2>1, <2>6, <3>2 DEF WorkerRestart, TypeOK
      <4> QED BY <4>1
    <3> QED BY <3>1, <3>2
  <2>7. ASSUME Tick
        PROVE  [Policy(w)!PolicyNext]_(Policy(w)!policyVars)
    <3>1. breaker'[w] = Aged(breaker[w]) /\ lock'[w] = lock[w]
      BY <2>7 DEF Tick
    <3>2. breaker[w].cooldown \in Nat
      BY <2>1 DEF Breakers
    <3>3. CASE breaker[w].cooldown = 0
      BY <2>1, <3>1, <3>3, BreakerPolicy
    <3>4. CASE breaker[w].cooldown > 0
      <4>1. Policy(w)!Elapse
        BY <2>1, <3>1, <3>4, BreakerPolicy DEF Policy!Elapse
      <4> QED BY <4>1
    <3> QED BY <3>2, <3>3, <3>4
  <2> QED BY <2>2, <2>3, <2>4, <2>5, <2>6, <2>7, ThreadSteps
          DEF Next, Environment, Arrive, CacheLookup, BackendDecides,
              HandleResponse, Finish, InvalidateSessionCache, Evict, Revoke,
              RedisFlips, BackendFlips, vars
<1> QED BY <1>1, <1>2, Invariance, PTL DEF Spec, CallPolicyHolds
=============================================================================
