-------------------------- MODULE ApiClientProofs --------------------------
(***************************************************************************)
(* Safety of ApiClient for any set of calls, any use of the clients and    *)
(* any answers of the refresh endpoint among the declared ones.            *)
(***************************************************************************)
EXTENDS ApiClient, TLAPS

Modes == {"development", "real"}

AnswerRecords == [status : Statuses, ran : BOOLEAN, trouble : BOOLEAN]

(* What every answer's status says about the handler's work.               *)
Candid(a) == /\ a \in AnswerRecords
             /\ Ok(a.status) => a.ran
             /\ a.status \in RefusedStatuses => ~a.ran

(* The answers that do not depend on the guards.           *)
LEMMA UnexpectedCandid ==
    ASSUME NEW a \in Unexpected
    PROVE  Candid(a) /\ a.status = 500 /\ a.trouble
<1>1. PICK ran \in BOOLEAN : a = Answer(500, ran, TRUE)
  BY ZenonT(60) DEF Unexpected, Filtered
<1> QED BY <1>1 DEF Candid, Answer, AnswerRecords, Ok, Statuses, RefusedStatuses

LEMMA ThrottledCandid ==
    ASSUME NEW route, NEW a \in Throttled(route)
    PROVE  Candid(a) /\ a.status = 429 /\ a.trouble
<1>1. a = Answer(429, FALSE, TRUE)
  BY DEF Throttled, Filtered
<1> QED BY <1>1 DEF Candid, Answer, AnswerRecords, Ok, Statuses, RefusedStatuses

(* A guard refuses with 403 only where nobody is accepted or the network   *)
(* is asked for: in development the roles are satisfied by the user that   *)
(* JwtAuthGuard has set.                                                   *)
LEMMA RefusalGrounds ==
    ASSUME NEW route \in Routes, NEW mode \in Modes, NEW r \in RequestsTo(route)
    PROVE  /\ Refusal(r, mode) \in {Pass, 400, 403}
           /\ Refusal(r, mode) = 403 => mode = "real" \/ route = "health/ready"
<1>1. r.route = route
  BY DEF RequestsTo
<1>2. route = "metrics" => Prefixed(route)
  BY DEF Prefixed, HealthRoutes
<1>3. MetricsAllow(route, r.basicAuth)
  BY <1>2 DEF MetricsAllow
<1>4. HasRequiredRole("VIEWER", Roles(route)) \/ Roles(route) = {}
  BY DEF HasRequiredRole, Roles, EffectiveRoles
<1>5. mode = "development" => RolesAllow(route, UserOf(route, mode))
  BY <1>4 DEF RolesAllow, UserOf, NoUser, Roles, Public, Routes
<1>6. mode = "development" => JwtAllows(route, mode)
  BY DEF JwtAllows
<1>7. LocalOnlyAllows(route, r.local) \/ route = "health/ready"
  BY DEF LocalOnlyAllows
<1> QED BY <1>1, <1>3, <1>5, <1>6, <1>7 DEF Refusal, Pass, Modes

LEMMA AdmittedGrounds ==
    ASSUME NEW route \in Routes, NEW mode \in Modes, NEW r \in RequestsTo(route),
           NEW a \in Admitted(r, mode)
    PROVE  /\ Candid(a)
           /\ a.status = 403 => mode = "real" \/ route = "health/ready"
           /\ a.status = 401 => route = "refresh"
           /\ a.status # 429
<1>1. CASE Refusal(r, mode) # Pass
  <2>1. PICK s \in {400, 403} : s = Refusal(r, mode) /\ a = Answer(s, FALSE, FALSE)
    <3>1. Refusal(r, mode) \in {400, 403}
      BY <1>1, RefusalGrounds
    <3>2. a = Answer(Refusal(r, mode), FALSE, FALSE)
      BY <1>1 DEF Admitted, Filtered
    <3> QED BY ZenonT(60), <3>1, <3>2
  <2>2. s = 403 => mode = "real" \/ route = "health/ready"
    <3>1. Refusal(r, mode) = 403 => mode = "real" \/ route = "health/ready"
      BY RefusalGrounds
    <3> QED BY <2>1, <3>1
  <2> QED
    BY <2>1, <2>2 DEF Candid, Answer, AnswerRecords, Ok, Statuses, RefusedStatuses
<1>2. CASE Refusal(r, mode) = Pass
  <2>1. r.route = route
    BY DEF RequestsTo
  <2>2. PICK s \in HandlerStatuses(route) : a = Answer(s, s # 401, FALSE)
    BY <1>2, <2>1 DEF Admitted
  <2>3. /\ s \in {200, 204, 401, 501, 503}
        /\ s = 401 => route = "refresh"
    BY <2>2, BackendAssumption 
       DEF HandlerStatuses, AuthStatuses, HealthStatuses, CspStatuses,
           Routes, AuthRoutes, HealthRoutes
  <2>4. CASE s = 401
    <3>1. a = Answer(401, FALSE, FALSE)
      BY ZenonT(60), <2>2, <2>4
    <3> QED BY <2>3, <2>4, <3>1 DEF Candid, Answer, AnswerRecords, Ok, Statuses, RefusedStatuses
  <2>5. CASE s # 401
    <3>1. a = Answer(s, TRUE, FALSE)
      BY <2>2, <2>5
    <3> QED BY <2>3, <2>5, <3>1 DEF Candid, Answer, AnswerRecords, Ok, Statuses, RefusedStatuses
  <2> QED BY <2>4, <2>5
<1> QED BY <1>1, <1>2

(* A backend's refusal has one of the causes the properties name.          *)
LEMMA BackendGrounds ==
    ASSUME NEW route \in Routes, NEW mode \in Modes,
           NEW a \in BackendAnswers(route, mode)
    PROVE  /\ Candid(a)
           /\ a.status = 403 => mode = "real" \/ route = "health/ready"
           /\ a.status = 401 => route = "refresh"
           /\ a.status = 429 => a.trouble
<1>1. CASE a \in Throttled(route)
  BY <1>1, ThrottledCandid
<1>2. CASE a \in Unexpected
  BY <1>2, UnexpectedCandid
<1>3. CASE \E r \in RequestsTo(route) : a \in Admitted(r, mode)
  BY <1>3, AdmittedGrounds
<1> QED BY <1>1, <1>2, <1>3 DEF BackendAnswers

(* GET /api/auth/me: a user, nobody, or trouble.                           *)
LEMMA MeStatuses ==
    ASSUME NEW mode \in Modes, NEW me \in BackendAnswers("me", mode)
    PROVE  me.status \in {200, 403} \/ me.trouble
<1>1. CASE me \in Throttled("me")
  BY <1>1, ThrottledCandid
<1>2. CASE me \in Unexpected
  BY <1>2, UnexpectedCandid
<1>3. CASE \E r \in RequestsTo("me") : me \in Admitted(r, mode)
  <2>1. PICK r \in RequestsTo("me") : me \in Admitted(r, mode)
    BY <1>3
  <2>2. r.route = "me"
    BY DEF RequestsTo
  <2>3. Refusal(r, mode) \in {Pass, 403}
    BY <2>2, RefusalGrounds DEF Refusal, PipeAllows, HasDto, Routes, AuthRoutes
  <2>4. HandlerStatuses("me") = {200}
    <3>1. /\ "me" \in AuthRoutes /\ "me" \notin HealthRoutes
          /\ "me" # "csp-report" /\ "me" # "metrics"
      BY DEF AuthRoutes, HealthRoutes
    <3>2. HandlerStatuses("me") = AuthStatuses("me")
      BY <3>1 DEF HandlerStatuses
    <3>3. AuthStatuses("me") = {200}
      BY DEF AuthStatuses
    <3> QED BY <3>2, <3>3
  <2>5. me.status = 403 \/ me.status = 200
    BY <2>1, <2>2, <2>3, <2>4 DEF Admitted, Answer, Filtered, Pass
  <2> QED BY <2>5
<1> QED BY <1>1, <1>2, <1>3 DEF BackendAnswers

(* reports-api refuses a session for want of a cookie, because the backend *)
(* accepts nobody, or because something failed or refused for load.        *)
LEMMA ReportGrounds ==
    ASSUME NEW mode \in Modes, NEW cookie \in BOOLEAN,
           NEW a \in ReportAnswers(mode, cookie)
    PROVE  /\ Candid(a)
           /\ a.status # 403
           /\ a.status = 401 => ~cookie \/ mode = "real" \/ a.trouble
<1>1. CASE a \in Unexpected
  BY <1>1, UnexpectedCandid
<1>2. CASE ~cookie /\ a = Answer(401, FALSE, FALSE)
  BY <1>2 DEF Candid, Answer, AnswerRecords, Ok, Statuses, RefusedStatuses
<1>3. CASE a \in AuthFailures
  <2>1. a = Answer(500, FALSE, TRUE) \/ a = Answer(503, FALSE, TRUE)
    BY ZenonT(60), <1>3 DEF AuthFailures
  <2>2. CASE a = Answer(500, FALSE, TRUE)
    BY <2>2 DEF Candid, Answer, AnswerRecords, Ok, Statuses, RefusedStatuses
  <2>3. CASE a = Answer(503, FALSE, TRUE)
    BY <2>3 DEF Candid, Answer, AnswerRecords, Ok, Statuses, RefusedStatuses
  <2> QED BY <2>1, <2>2, <2>3
<1>4. CASE \E me \in BackendAnswers("me", mode) : a \in AfterMe(me)
  <2>1. PICK me \in BackendAnswers("me", mode) : a \in AfterMe(me)
    BY <1>4
  <2>2. /\ me \in AnswerRecords
        /\ me.status = 403 => mode = "real"
        /\ me.status # 401
    BY BackendGrounds DEF Routes, AuthRoutes, Candid
  <2>3. me.trouble \in BOOLEAN
    BY <2>2 DEF AnswerRecords
  <2>4. me.status \in {200, 403} \/ me.trouble
    BY <2>1, MeStatuses
  <2>5. CASE me.status = 200
    <3>1. \/ a \in Unexpected
          \/ a = Answer(422, FALSE, FALSE)
          \/ a = Answer(501, TRUE, FALSE)
          \/ a = Answer(401, FALSE, TRUE)
      BY ZenonT(60), <2>1, <2>5 DEF AfterMe, View
    <3>2. CASE a \in Unexpected
      BY <3>2, UnexpectedCandid
    <3>3. CASE a = Answer(422, FALSE, FALSE)
      BY <3>3 DEF Candid, Answer, AnswerRecords, Ok, Statuses, RefusedStatuses
    <3>4. CASE a = Answer(501, TRUE, FALSE)
      BY <3>4 DEF Candid, Answer, AnswerRecords, Ok, Statuses, RefusedStatuses
    <3>5. CASE a = Answer(401, FALSE, TRUE)
      BY <3>5 DEF Candid, Answer, AnswerRecords, Ok, Statuses, RefusedStatuses
    <3> QED BY ZenonT(60), <3>1, <3>2, <3>3, <3>4, <3>5
  <2>6. CASE me.status # 200
    <3>1. a = Answer(401, FALSE, me.trouble)
      BY <2>1, <2>6 DEF AfterMe
    <3>2. mode = "real" \/ me.trouble
      BY <2>2, <2>4, <2>6
    <3> QED
      BY <2>3, <3>1, <3>2 DEF Candid, Answer, AnswerRecords, Ok, Statuses, RefusedStatuses
  <2> QED BY <2>5, <2>6
<1> QED BY ZenonT(60), <1>1, <1>2, <1>3, <1>4 DEF ReportAnswers, Limited

(* Whatever answers a call's request, wherever it was sent.                *)
LEMMA AnswerGrounds ==
    ASSUME TypeOK, NEW c \in Calls, NEW a \in AnswersTo(c)
    PROVE  /\ Candid(a)
           /\ ~wire[c].refresh /\ a.status = 401 => Cause(c) \/ a.trouble
           /\ ~wire[c].refresh /\ a.status = 403 => NeedsPermission(c)
<1>1. /\ setting.mode \in Modes
      /\ setting.cookie \in BOOLEAN
      /\ call[c].to \in Routes \cup {"report"}
  BY DEF TypeOK, Modes, CallRecords
<1>2. CASE wire[c].refresh
  <2>1. a \in BackendAnswers("refresh", setting.mode)
    BY <1>2 DEF AnswersTo
  <2> QED BY <1>1, <1>2, <2>1, BackendGrounds DEF Routes, AuthRoutes
<1>3. CASE ~wire[c].refresh /\ call[c].to = "report"
  <2>1. a \in ReportAnswers(setting.mode, setting.cookie)
    BY <1>3 DEF AnswersTo
  <2> QED BY <1>1, <2>1, ReportGrounds DEF Cause
<1>4. CASE ~wire[c].refresh /\ call[c].to # "report"
  <2>1. a \in BackendAnswers(call[c].to, setting.mode)
    BY <1>4 DEF AnswersTo
  <2> QED BY <1>1, <1>4, <2>1, BackendGrounds DEF Cause, NeedsPermission
<1> QED BY <1>2, <1>3, <1>4
-----------------------------------------------------------------------------
(* Nothing that the invariant says of d has changed.                       *)
Same(d) == /\ call'[d] = call[d] /\ wire'[d] = wire[d] /\ timer'[d] = timer[d]
           /\ work'[d] = work[d] /\ trouble'[d] = trouble[d]
           /\ setting' = setting

LEMMA Frame ==
    ASSUME NEW d \in Calls, CallOk(d), Same(d)
    PROVE  CallOk(d)'
BY DEF Same, CallOk, WireOk, TimerOk, WorkOk, CauseOk, Verdict, IsLib, IsOpen,
       Tells, Grounds, Cause, NeedsPermission

(* A step of one call leaves the others' part of the invariant alone.      *)
LEMMA OneCall ==
    ASSUME IndInv, NEW c \in Calls, TypeOK', CallOk(c)',
           \A d \in Calls : d # c => Same(d)
    PROVE  IndInv'
BY Frame DEF IndInv

LEMMA InitInv == Init => IndInv
<1> SUFFICES ASSUME Init PROVE IndInv
  OBVIOUS
<1>1. TypeOK
  BY DEF Init, TypeOK, CallRecords, Wires, NoWire, Vias, Routes,
     HealthRoutes
<1>2. ASSUME NEW c \in Calls PROVE CallOk(c)
  BY DEF Init, NoWire, CallOk, WireOk, TimerOk, WorkOk, CauseOk, Verdict, IsLib,
         IsOpen, Tells, Grounds
<1> QED BY <1>1, <1>2 DEF IndInv

LEMMA StartInv ==
    ASSUME IndInv, NEW c \in Calls, NEW u \in Uses[c], Start(c, u[1], u[2])
    PROVE  IndInv'
<1>1. u[1] \in Vias /\ u[2] \in Routes \cup {"report"}
  BY ClientAssumption DEF Calling
<1>2. TypeOK'
  BY <1>1 DEF IndInv, TypeOK, Start, CallRecords, Wires, Sent, Vias
<1>3. CallOk(c)'
  <2>1. /\ call'[c].via = u[1] /\ call'[c].at = "fetch"
        /\ wire'[c].is = "request" /\ wire'[c].refresh = FALSE
        /\ work'[c] = 0
    BY DEF IndInv, TypeOK, Start, Sent
  <2>2. timer'[c] <=> u[1] \in {"lib", "libSignal"}
    BY DEF IndInv, TypeOK, Start
  <2>3. WireOk(c)' /\ WorkOk(c)' /\ CauseOk(c)'
    BY <2>1 DEF WireOk, WorkOk, CauseOk, Verdict
  <2>4. TimerOk(c)'
    BY <2>1, <2>2 DEF TimerOk, IsLib, IsOpen
  <2> QED BY <2>3, <2>4 DEF CallOk
<1>4. \A d \in Calls : d # c => Same(d)
  BY DEF IndInv, TypeOK, Start, Same
<1> QED BY <1>2, <1>3, <1>4, OneCall

LEMMA SettledRecord ==
    ASSUME NEW r \in CallRecords, NEW status \in Statuses \cup {0},
           NEW result \in {"data", "nothing", "response", "http", "network",
                           "broken", "abandoned"}
    PROVE  [r EXCEPT !.at = "settled", !.result = result, !.status = status]
             \in CallRecords
BY DEF CallRecords

LEMMA OngoingRecord ==
    ASSUME NEW r \in CallRecords, NEW status \in Statuses \cup {0},
           NEW at \in {"body", "refresh", "retry"}
    PROVE  [r EXCEPT !.at = at, !.status = status] \in CallRecords
BY DEF CallRecords

(* Every way a call can end in its own step: what is on the wire goes or   *)
(* is of a call of whose outcome nothing is known, and what the caller is  *)
(* told is what the status says.                                           *)
LEMMA SettleInv ==
    ASSUME IndInv, NEW c \in Calls,
           NEW result \in {"data", "nothing", "response", "http", "network", "broken"},
           NEW status \in Statuses \cup {0}, Settle(c, result, status),
           UNCHANGED <<work, trouble, setting>>, page' \in {"shown", "leaving"},
           \/ wire' = [wire EXCEPT ![c] = NoWire]
           \/ wire' = wire /\ (result = "network" \/ wire[c].is = "none"),
           result # "network" => Tells(status, c),
           result = "http" => Grounds(status, c)
    PROVE  IndInv'
<1>1. TypeOK /\ CallOk(c)
  BY DEF IndInv
<1>2. /\ call'[c].at = "settled" /\ call'[c].result = result
      /\ call'[c].status = status
      /\ call'[c].via = call[c].via /\ call'[c].to = call[c].to
      /\ timer'[c] = FALSE
  BY <1>1 DEF TypeOK, Settle, CallRecords
<1>3. TypeOK'
  <2>1. call' \in [Calls -> CallRecords]
    <3>1. [call[c] EXCEPT !.at = "settled", !.result = result, !.status = status]
            \in CallRecords
      BY <1>1, SettledRecord DEF TypeOK
    <3> QED BY <1>1, <3>1 DEF TypeOK, Settle
  <2>2. wire' \in [Calls -> Wires]
    <3>1. NoWire \in Wires
      BY DEF NoWire, Wires
    <3> QED BY <1>1, <3>1 DEF TypeOK
  <2>3. \A d \in Calls : wire'[d].is = "answer" => wire'[d].status \in Statuses
    BY <1>1 DEF TypeOK, NoWire
  <2>4. timer' \in [Calls -> BOOLEAN]
    BY <1>1 DEF TypeOK, Settle
  <2> QED BY <1>1, <2>1, <2>2, <2>3, <2>4 DEF TypeOK
<1>4. wire'[c].is = "none" \/ (wire'[c] = wire[c] /\ result = "network")
  BY <1>1 DEF TypeOK, NoWire
<1>5. WireOk(c)'
  BY <1>2, <1>4 DEF WireOk, Verdict
<1>6. TimerOk(c)'
  BY <1>2 DEF TimerOk, IsOpen
<1>7. WorkOk(c)'
  <2>1. Tells(status, c)' <=> Tells(status, c)
    BY DEF Tells
  <2> QED BY <1>1, <1>2, <1>4, <2>1 DEF CallOk, WorkOk, Verdict, Tells
<1>8. CauseOk(c)'
  <2>1. /\ Grounds(status, c)' <=> Grounds(status, c)
        /\ Grounds(wire[c].status, c)' <=> (wire'[c].status = 401 => Cause(c))
                                           /\ (wire'[c].status = 403 => NeedsPermission(c))
    BY <1>2 DEF Grounds, Cause, NeedsPermission
  <2> QED BY <1>1, <1>2, <1>4, <2>1 DEF CallOk, CauseOk, Grounds
<1>9. \A d \in Calls : d # c => Same(d)
  BY <1>1 DEF TypeOK, Settle, Same
<1> QED BY <1>3, <1>5, <1>6, <1>7, <1>8, <1>9, OneCall DEF CallOk

(* Every way a call can go on: to its body, its refresh or its retry.      *)
LEMMA ProceedInv ==
    ASSUME IndInv, NEW c \in Calls, NEW at \in {"body", "refresh", "retry"},
           NEW status \in Statuses \cup {0}, Proceed(c, at, status),
           UNCHANGED <<work, trouble, page, setting>>, IsOpen(c),
           \/ at = "body" /\ wire' = [wire EXCEPT ![c] = NoWire]
           \/ at = "refresh" /\ wire' = [wire EXCEPT ![c] = Sent(TRUE)]
           \/ at = "retry" /\ wire' = [wire EXCEPT ![c] = Sent(FALSE)],
           at = "body" => Tells(status, c) /\ Grounds(status, c),
           at = "refresh" => Cause(c),
           at \in {"refresh", "retry"} => work[c] = 0
    PROVE  IndInv'
<1>1. TypeOK /\ CallOk(c)
  BY DEF IndInv
<1>2. /\ call'[c].at = at /\ call'[c].status = status
      /\ call'[c].via = call[c].via /\ call'[c].to = call[c].to
      /\ timer' = timer
  BY <1>1 DEF TypeOK, Proceed, CallRecords
<1>3. TypeOK'
  <2>1. call' \in [Calls -> CallRecords]
    <3>1. [call[c] EXCEPT !.at = at, !.status = status] \in CallRecords
      BY <1>1, OngoingRecord DEF TypeOK
    <3> QED BY <1>1, <3>1 DEF TypeOK, Proceed
  <2>2. wire' \in [Calls -> Wires]
    <3>1. NoWire \in Wires /\ Sent(TRUE) \in Wires /\ Sent(FALSE) \in Wires
      BY DEF NoWire, Sent, Wires
    <3> QED BY <1>1, <3>1 DEF TypeOK
  <2>3. \A d \in Calls : wire'[d].is = "answer" => wire'[d].status \in Statuses
    BY <1>1 DEF TypeOK, NoWire, Sent
  <2> QED BY <1>1, <1>2, <2>1, <2>2, <2>3 DEF TypeOK
<1>4. /\ at = "body" => wire'[c].is = "none"
      /\ at # "body" => wire'[c].is = "request"
      /\ wire'[c].refresh <=> at = "refresh"
  BY <1>1 DEF TypeOK, NoWire, Sent
<1>5. WireOk(c)'
  BY <1>2, <1>4 DEF WireOk
<1>6. TimerOk(c)'
  BY <1>1, <1>2 DEF CallOk, TimerOk, IsOpen, IsLib
<1>7. WorkOk(c)'
  <2>1. Tells(status, c)' <=> Tells(status, c)
    BY DEF Tells
  <2> QED BY <1>1, <1>2, <1>4, <2>1 DEF CallOk, WorkOk, Verdict, Tells
<1>8. CauseOk(c)'
  <2>1. /\ Grounds(status, c)' <=> Grounds(status, c)
        /\ Cause(c)' <=> Cause(c)
    BY <1>2 DEF Grounds, Cause, NeedsPermission
  <2> QED BY <1>2, <1>4, <2>1 DEF CauseOk, Grounds
<1>9. \A d \in Calls : d # c => Same(d)
  BY <1>1, <1>2 DEF TypeOK, Proceed, Same
<1> QED BY <1>3, <1>5, <1>6, <1>7, <1>8, <1>9, OneCall DEF CallOk

LEMMA AbortInv ==
    ASSUME IndInv, NEW c \in Calls, Abort(c),
           UNCHANGED <<wire, work, trouble, page, setting>>
    PROVE  IndInv'
<1>1. TypeOK /\ CallOk(c) /\ call[c] \in CallRecords
  BY DEF IndInv, TypeOK
<1>2. page' \in {"shown", "leaving"} /\ wire' = wire /\ UNCHANGED <<work, trouble, setting>>
  BY <1>1 DEF TypeOK
<1>3. CASE call[c].at = "body"
  <2>1. wire[c].is = "none" /\ Tells(call[c].status, c) /\ Grounds(call[c].status, c)
    BY <1>1, <1>3 DEF CallOk, WireOk, WorkOk, CauseOk
  <2>2. PICK result \in {"nothing", "http"} : Settle(c, result, call[c].status)
    BY <1>3 DEF Abort
  <2>3. call[c].status \in Statuses \cup {0}
    BY <1>1 DEF CallRecords
  <2> QED BY <1>2, <2>1, <2>2, <2>3, SettleInv
<1>4. CASE call[c].at # "body"
  <2>1. Settle(c, "network", 0)
    BY <1>4 DEF Abort
  <2> QED BY <1>2, <2>1, SettleInv
<1> QED BY <1>3, <1>4

LEMMA TimerFiresInv ==
    ASSUME IndInv, NEW c \in Calls, TimerFires(c)
    PROVE  IndInv'
<1>1. UNCHANGED <<wire, work, trouble, page, setting>>
  BY DEF TimerFires
<1>2. CASE call[c].via = "lib" /\ Abort(c)
  BY <1>1, <1>2, AbortInv
<1>3. CASE call[c].via = "libSignal" /\ timer' = [timer EXCEPT ![c] = FALSE]
             /\ UNCHANGED call
  <2>1. TypeOK'
    BY <1>1, <1>3 DEF IndInv, TypeOK
  <2>2. TimerOk(c)'
    BY <1>3 DEF IndInv, TypeOK, TimerOk
  <2>3. WireOk(c)' /\ WorkOk(c)' /\ CauseOk(c)'
    BY <1>1, <1>3 DEF IndInv, CallOk, WireOk, WorkOk, CauseOk, Verdict, Tells,
                      Grounds, Cause, NeedsPermission
  <2>4. \A d \in Calls : d # c => Same(d)
    BY <1>1, <1>3 DEF IndInv, TypeOK, Same
  <2> QED BY <2>1, <2>2, <2>3, <2>4, OneCall DEF CallOk
<1> QED BY <1>2, <1>3 DEF TimerFires

LEMMA CallerAbortsInv ==
    ASSUME IndInv, NEW c \in Calls, CallerAborts(c)
    PROVE  IndInv'
BY AbortInv DEF CallerAborts

(* The status of an answer, and what is known of it.                       *)
LEMMA Answered ==
    ASSUME IndInv, NEW c \in Calls, wire[c].is = "answer"
    PROVE  /\ TypeOK /\ CallOk(c)
           /\ wire[c].status \in Statuses
           /\ page \in {"shown", "leaving"}
           /\ call[c].at \in {"fetch", "retry"}
                => Tells(wire[c].status, c) /\ Grounds(wire[c].status, c)
           /\ call[c].at = "fetch" \/ call[c].at = "refresh" \/ call[c].at = "retry"
                => IsOpen(c)
BY DEF IndInv, TypeOK, CallOk, WireOk, WorkOk, CauseOk, IsOpen

LEMMA LibAnsweredInv ==
    ASSUME IndInv, NEW c \in Calls, LibAnswered(c)
    PROVE  IndInv'
<1>1. /\ Proceed(c, "body", wire[c].status)
      /\ wire' = [wire EXCEPT ![c] = NoWire]
      /\ UNCHANGED <<work, trouble, page, setting>>
      /\ call[c].at = "fetch" /\ wire[c].is = "answer"
  BY DEF LibAnswered
<1> QED BY <1>1, Answered, ProceedInv

LEMMA ApiAnsweredInv ==
    ASSUME IndInv, NEW c \in Calls, ApiAnswered(c)
    PROVE  IndInv'
<1>1. /\ wire' = [wire EXCEPT ![c] = NoWire]
      /\ UNCHANGED <<work, trouble, page, setting>>
      /\ call[c].at = "fetch" /\ wire[c].is = "answer"
  BY DEF ApiAnswered
<1>2. CASE Proceed(c, "body", wire[c].status)
  BY <1>1, <1>2, Answered, ProceedInv
<1>3. CASE Settle(c, "http", wire[c].status)
  BY <1>1, <1>3, Answered, SettleInv
<1> QED BY <1>2, <1>3 DEF ApiAnswered

(* Reading the body, to its end or not.                                    *)
LEMMA BodyInv ==
    ASSUME IndInv, NEW c \in Calls, BodyRead(c) \/ BodyBreaks(c)
    PROVE  IndInv'
<1>1. TypeOK /\ CallOk(c) /\ call[c].status \in Statuses \cup {0}
  BY DEF IndInv, TypeOK, CallRecords
<1>2. /\ call[c].at = "body" /\ UNCHANGED <<wire, work, trouble, page, setting>>
      /\ page' \in {"shown", "leaving"}
  BY <1>1 DEF BodyRead, BodyBreaks, TypeOK
<1>3. wire[c].is = "none" /\ Tells(call[c].status, c) /\ Grounds(call[c].status, c)
  BY <1>1, <1>2 DEF CallOk, WireOk, WorkOk, CauseOk
<1>4. PICK result \in {"data", "nothing", "broken", "http"} :
            Settle(c, result, call[c].status)
  BY DEF BodyRead, BodyBreaks
<1> QED BY <1>1, <1>2, <1>3, <1>4, SettleInv

LEMMA ClientAnsweredInv ==
    ASSUME IndInv, NEW c \in Calls, ClientAnswered(c)
    PROVE  IndInv'
<1>1. /\ call[c].at = "fetch" /\ wire[c].is = "answer"
      /\ UNCHANGED <<work, trouble, page, setting>>
  BY DEF ClientAnswered
<1>2. CASE Refreshes(wire[c].status)
  <2>1. wire[c].status = 401 /\ Proceed(c, "refresh", wire[c].status)
        /\ wire' = [wire EXCEPT ![c] = Sent(TRUE)]
    BY <1>2 DEF ClientAnswered, Refreshes
  <2>2. work[c] = 0 /\ Cause(c)
    BY <1>1, <2>1, Answered DEF Tells, RefusedStatuses, Grounds
  <2>3. wire[c].status \in Statuses \cup {0} /\ IsOpen(c)
    BY <1>1, Answered
  <2> QED BY ZenonT(60), <1>1, <2>1, <2>2, <2>3, ProceedInv
<1>3. CASE ~Refreshes(wire[c].status)
  <2>1. Settle(c, "response", wire[c].status) /\ wire' = [wire EXCEPT ![c] = NoWire]
    BY <1>3 DEF ClientAnswered
  <2> QED BY <1>1, <2>1, Answered, SettleInv
<1> QED BY <1>2, <1>3

LEMMA ToLoginType ==
    ASSUME IndInv, NEW c \in Calls, ToLogin(c) \/ UNCHANGED page
    PROVE  page' \in {"shown", "leaving"}
BY DEF ToLogin, IndInv, TypeOK

LEMMA RefreshAnsweredInv ==
    ASSUME IndInv, NEW c \in Calls, RefreshAnswered(c)
    PROVE  IndInv'
<1>1. /\ call[c].at = "refresh" /\ wire[c].is = "answer"
      /\ UNCHANGED <<work, trouble, setting>>
  BY DEF RefreshAnswered
<1>2. work[c] = 0 /\ Cause(c) /\ IsOpen(c)
  BY <1>1 DEF IndInv, CallOk, WorkOk, CauseOk, IsOpen
<1>3. CASE Ok(wire[c].status)
  <2>1. Proceed(c, "retry", 0) /\ wire' = [wire EXCEPT ![c] = Sent(FALSE)]
        /\ UNCHANGED page
    BY <1>3 DEF RefreshAnswered
  <2> QED BY <1>1, <1>2, <2>1, ProceedInv
<1>4. CASE ~Ok(wire[c].status)
  <2>1. Settle(c, "http", 401) /\ wire' = [wire EXCEPT ![c] = NoWire] /\ ToLogin(c)
    BY <1>4 DEF RefreshAnswered
  <2>2. Tells(401, c) /\ Grounds(401, c)
    BY <1>2 DEF Tells, Ok, Grounds
  <2>3. 401 \in Statuses \cup {0} /\ page' \in {"shown", "leaving"}
    BY <2>1, ToLoginType DEF Statuses
  <2> QED BY ZenonT(60), <1>1, <2>1, <2>2, <2>3, SettleInv
<1> QED BY <1>3, <1>4

LEMMA RetryAnsweredInv ==
    ASSUME IndInv, NEW c \in Calls, RetryAnswered(c)
    PROVE  IndInv'
<1>1. /\ call[c].at = "retry" /\ wire[c].is = "answer"
      /\ Settle(c, "response", wire[c].status)
      /\ wire' = [wire EXCEPT ![c] = NoWire]
      /\ UNCHANGED <<work, trouble, page, setting>>
  BY DEF RetryAnswered
<1> QED BY <1>1, Answered, SettleInv

LEMMA FetchFailsInv ==
    ASSUME IndInv, NEW c \in Calls, FetchFails(c)
    PROVE  IndInv'
<1>1. /\ Settle(c, "network", 0) /\ wire' = [wire EXCEPT ![c] = NoWire]
      /\ UNCHANGED <<work, trouble, setting>>
      /\ ToLogin(c) \/ UNCHANGED page
  BY DEF FetchFails
<1> QED BY <1>1, ToLoginType, SettleInv

(* Trouble that has happened since takes no cause away.                    *)
LEMMA CauseStays ==
    ASSUME NEW c \in Calls, Cause(c), UNCHANGED <<call, setting>>,
           trouble[c] => trouble'[c]
    PROVE  Cause(c)'
BY DEF Cause

LEMMA ServeInv ==
    ASSUME IndInv, NEW c \in Calls, Serve(c)
    PROVE  IndInv'
<1>1. PICK a \in AnswersTo(c) :
        /\ wire' = [wire EXCEPT ![c].is = "answer", ![c].status = a.status]
        /\ work' = [work EXCEPT ![c] = IF a.ran /\ ~wire[c].refresh THEN @ + 1 ELSE @]
        /\ trouble' = [trouble EXCEPT ![c] = @ \/ a.trouble]
  BY DEF Serve
<1>2. /\ wire[c].is = "request" /\ UNCHANGED <<call, timer, page, setting>>
      /\ TypeOK /\ CallOk(c)
  BY DEF Serve, IndInv
<1>3. /\ Candid(a) /\ a.status \in Statuses /\ a.ran \in BOOLEAN /\ a.trouble \in BOOLEAN
      /\ ~wire[c].refresh /\ a.status = 401 => Cause(c) \/ a.trouble
      /\ ~wire[c].refresh /\ a.status = 403 => NeedsPermission(c)
  BY <1>2, AnswerGrounds DEF Candid, AnswerRecords
<1>4. /\ wire'[c].is = "answer" /\ wire'[c].status = a.status
      /\ wire'[c].refresh = wire[c].refresh
  BY <1>1, <1>2 DEF TypeOK, Wires
<1>5. (trouble[c] => trouble'[c]) /\ (a.trouble => trouble'[c])
  BY <1>1, <1>2 DEF TypeOK
<1>6. /\ wire[c].refresh => work'[c] = work[c]
      /\ ~wire[c].refresh => work'[c] = IF a.ran THEN 1 ELSE 0
  BY <1>1, <1>2 DEF TypeOK, CallOk, WorkOk
<1>7. TypeOK'
  <2>1. wire' \in [Calls -> Wires]
    <3>1. [wire[c] EXCEPT !.is = "answer", !.status = a.status] \in Wires
      BY <1>2, <1>3 DEF TypeOK, Wires
    <3> QED BY <1>1, <1>2, <3>1 DEF TypeOK
  <2>2. \A d \in Calls : wire'[d].is = "answer" => wire'[d].status \in Statuses
    BY <1>1, <1>2, <1>3, <1>4 DEF TypeOK
  <2>3. work' \in [Calls -> Nat]
    BY <1>1, <1>2 DEF TypeOK
  <2>4. trouble' \in [Calls -> BOOLEAN]
    BY <1>1, <1>2, <1>3 DEF TypeOK
  <2> QED BY <1>2, <2>1, <2>2, <2>3, <2>4 DEF TypeOK
<1>8. WireOk(c)' /\ TimerOk(c)'
  BY <1>2, <1>4 DEF CallOk, WireOk, TimerOk, IsLib, IsOpen
<1>9. Cause(c) => Cause(c)'
  BY <1>2, <1>5, CauseStays
<1>10. NeedsPermission(c)' <=> NeedsPermission(c)
  BY <1>2 DEF NeedsPermission
<1>11. Verdict(c)' = Verdict(c)
  BY <1>2 DEF Verdict
<1>12. CASE wire[c].refresh
  <2>1. WorkOk(c)'
    BY <1>2, <1>4, <1>6, <1>11, <1>12 DEF CallOk, WorkOk, Tells
  <2>2. CauseOk(c)'
    BY <1>2, <1>4, <1>9, <1>10, <1>12 DEF CallOk, CauseOk, Grounds
  <2> QED BY <1>8, <2>1, <2>2, <1>7, OneCall, <1>1, <1>2 DEF CallOk, Same, TypeOK
<1>13. CASE ~wire[c].refresh
  <2>1. call[c].at \notin {"body", "refresh", "idle"} /\ Verdict(c) \notin {"done", "refused"}
    BY <1>2, <1>13 DEF CallOk, WireOk, Verdict
  <2>2. WorkOk(c)'
    <3>1. Tells(wire[c].status, c)'
      BY <1>3, <1>4, <1>6, <1>13 DEF Tells, Candid
    <3>2. call'[c].at = call[c].at /\ work'[c] \in {0, 1}
      BY <1>2, <1>6, <1>13
    <3> QED BY <2>1, <1>4, <1>11, <3>1, <3>2 DEF WorkOk
  <2>3. CauseOk(c)'
    <3>1. Grounds(wire[c].status, c)'
      BY <1>3, <1>4, <1>5, <1>9, <1>10, <1>13 DEF Grounds, Cause
    <3>2. call'[c] = call[c]
      BY <1>2
    <3> QED BY <2>1, <3>1, <3>2, <1>2, <1>9, <1>10 DEF CallOk, CauseOk, Grounds
  <2> QED BY <1>8, <2>2, <2>3, <1>7, OneCall, <1>1, <1>2 DEF CallOk, Same, TypeOK
<1> QED BY <1>12, <1>13

LEMMA LostWire ==
    ASSUME NEW w \in Wires
    PROVE  [w EXCEPT !.is = "gone", !.status = 0] \in Wires
BY DEF Wires

(* A request or an answer disappears.                                      *)
LEMMA LoseInv ==
    ASSUME IndInv, NEW c \in Calls, Lose(c)
    PROVE  IndInv'
<1>1. /\ TypeOK /\ CallOk(c) /\ UNCHANGED <<call, timer, work, page, setting>>
      /\ wire' = [wire EXCEPT ![c].is = "gone", ![c].status = 0]
      /\ trouble' = [trouble EXCEPT ![c] = TRUE]
      /\ wire[c].is # "none"
  BY DEF Lose, IndInv
<1>2. /\ wire'[c].is = "gone" /\ wire'[c].refresh = wire[c].refresh /\ trouble'[c]
      /\ call'[c] = call[c]
  BY <1>1 DEF TypeOK, Wires
<1>3. TypeOK'
  <2>1. [wire[c] EXCEPT !.is = "gone", !.status = 0] \in Wires
    BY <1>1, LostWire DEF TypeOK
  <2>2. wire' \in [Calls -> Wires] /\ trouble' \in [Calls -> BOOLEAN]
    BY <1>1, <2>1 DEF TypeOK
  <2>3. \A d \in Calls : wire'[d].is = "answer" => wire'[d].status \in Statuses
    BY <1>1, <1>2 DEF TypeOK
  <2> QED BY <1>1, <2>2, <2>3 DEF TypeOK
<1>4. WireOk(c)' /\ TimerOk(c)' /\ WorkOk(c)'
  BY <1>1, <1>2 DEF CallOk, WireOk, TimerOk, WorkOk, Verdict, IsLib, IsOpen, Tells
<1>5. Cause(c)' /\ (NeedsPermission(c)' <=> NeedsPermission(c))
  BY <1>1, <1>2 DEF Cause, NeedsPermission
<1>6. CauseOk(c)'
  BY <1>1, <1>2, <1>5 DEF CallOk, CauseOk, Grounds
<1>7. \A d \in Calls : d # c => Same(d)
  BY <1>1 DEF TypeOK, Same
<1> QED BY <1>3, <1>4, <1>6, <1>7, OneCall DEF CallOk

LEMMA DropInv ==
    ASSUME IndInv, NEW c \in Calls, Drop(c)
    PROVE  IndInv'
<1>1. /\ TypeOK /\ CallOk(c) /\ UNCHANGED <<call, timer, work, trouble, page, setting>>
      /\ wire' = [wire EXCEPT ![c] = NoWire] /\ ~IsOpen(c)
  BY DEF Drop, IndInv
<1>2. wire'[c].is = "none"
  BY <1>1 DEF TypeOK, NoWire
<1>3. TypeOK'
  <2>1. NoWire \in Wires
    BY DEF NoWire, Wires
  <2>2. \A d \in Calls : wire'[d].is = "answer" => wire'[d].status \in Statuses
    BY <1>1 DEF TypeOK, NoWire
  <2> QED BY <1>1, <2>1, <2>2 DEF TypeOK
<1>4. CallOk(c)'
  BY <1>1, <1>2 DEF CallOk, WireOk, TimerOk, WorkOk, CauseOk, Verdict, IsLib, IsOpen,
                    Tells, Grounds, Cause, NeedsPermission
<1>5. \A d \in Calls : d # c => Same(d)
  BY <1>1 DEF TypeOK, Same
<1> QED BY <1>3, <1>4, <1>5, OneCall

(* The calls that end with their page know nothing of their outcome.       *)
LEMMA NavigateInv ==
    ASSUME IndInv, Navigate
    PROVE  IndInv'
<1>1. /\ TypeOK /\ UNCHANGED <<wire, work, trouble, setting>>
      /\ page' = "shown"
  BY DEF IndInv, Navigate
<1>2. TypeOK'
  <2>1. \A c \in Calls :
          [call[c] EXCEPT !.at = "settled", !.result = "abandoned", !.status = 0]
            \in CallRecords
    BY <1>1, SettledRecord DEF TypeOK
  <2>2. call' \in [Calls -> CallRecords]
    BY <1>1, <2>1 DEF TypeOK, Navigate
  <2>3. timer' \in [Calls -> BOOLEAN]
    BY <1>1 DEF TypeOK, Navigate
  <2> QED BY <1>1, <2>2, <2>3 DEF TypeOK
<1>3. ASSUME NEW c \in Calls, InBrowser(c), IsOpen(c)
      PROVE  CallOk(c)'
  <2>1. /\ call'[c].at = "settled" /\ call'[c].result = "abandoned"
        /\ ~timer'[c] /\ wire'[c] = wire[c] /\ work'[c] = work[c]
    BY ZenonT(60), <1>1, <1>3 DEF TypeOK, Navigate, CallRecords
  <2>2. CallOk(c) /\ (Cause(c)' <=> Cause(c))
        /\ (NeedsPermission(c)' <=> NeedsPermission(c))
    BY ZenonT(60), <1>1, <1>3 DEF IndInv, Cause, NeedsPermission, Navigate, TypeOK, CallRecords
  <2>3. Verdict(c)' = "unknown"
    BY <2>1 DEF Verdict
  <2>4. WireOk(c)' /\ TimerOk(c)'
    BY <2>1, <2>3 DEF WireOk, TimerOk, IsOpen
  <2>5. WorkOk(c)'
    BY <2>1, <2>2, <2>3 DEF CallOk, WorkOk, Tells
  <2>6. CauseOk(c)'
    BY <2>1, <2>2 DEF CallOk, CauseOk, Grounds
  <2> QED BY <2>4, <2>5, <2>6 DEF CallOk
<1>4. ASSUME NEW c \in Calls, ~(InBrowser(c) /\ IsOpen(c))
      PROVE  CallOk(c)'
  <2>1. CallOk(c)
    BY DEF IndInv
  <2>2. call'[c] = call[c] /\ (timer'[c] <=> timer[c])
    BY <1>1, <1>4, <2>1 DEF TypeOK, Navigate, CallOk, TimerOk
  <2>3. WireOk(c)' /\ TimerOk(c)' /\ WorkOk(c)' /\ CauseOk(c)'
    BY <1>1, <2>1, <2>2 DEF CallOk, WireOk, TimerOk, WorkOk, CauseOk, Verdict, IsLib,
                            IsOpen, Tells, Grounds, Cause, NeedsPermission
  <2> QED BY <2>3 DEF CallOk
<1> QED BY <1>2, <1>3, <1>4 DEF IndInv
-----------------------------------------------------------------------------
LEMMA NextInv == IndInv /\ [Next]_vars => IndInv'
<1> SUFFICES ASSUME IndInv, [Next]_vars PROVE IndInv'
  OBVIOUS
<1>1. ASSUME NEW c \in Calls, NEW u \in Uses[c], Start(c, u[1], u[2])
      PROVE  IndInv'
  BY <1>1, StartInv
<1>2. ASSUME NEW c \in Calls, Exchange(c)
      PROVE  IndInv'
  BY <1>2, ServeInv, LibAnsweredInv, ApiAnsweredInv, ClientAnsweredInv,
     RefreshAnsweredInv, RetryAnsweredInv, BodyInv, FetchFailsInv DEF Exchange
<1>3. ASSUME NEW c \in Calls, TimerFires(c) \/ CallerAborts(c) \/ Lose(c) \/ Drop(c)
      PROVE  IndInv'
  BY <1>3, TimerFiresInv, CallerAbortsInv, LoseInv, DropInv
<1>4. CASE Navigate
  BY <1>4, NavigateInv
<1>5. CASE UNCHANGED vars
  BY <1>5 DEF vars, IndInv, TypeOK, CallOk, WireOk, TimerOk, WorkOk, CauseOk, Verdict,
              IsLib, IsOpen, Tells, Grounds, Cause, NeedsPermission
<1> QED BY <1>1, <1>2, <1>3, <1>4, <1>5 DEF Next

(* The inductive invariant holds for any calls, uses and refresh statuses. *)
THEOREM Invariance == Spec => []IndInv
<1>1. Init => IndInv
  BY InitInv
<1>2. IndInv /\ [Next]_vars => IndInv'
  BY NextInv
<1> QED BY <1>1, <1>2, PTL DEF Spec

(* Calls, wires and counters stay within their types.                      *)
THEOREM TypeCorrect == Spec => []TypeOK
<1>1. IndInv => TypeOK
  BY DEF IndInv
<1> QED BY <1>1, Invariance, PTL

LEMMA Expired == IndInv => ExpiredIsToldForACause
<1> SUFFICES ASSUME IndInv, NEW c \in Calls, Told(c) = "expired"
             PROVE  Cause(c)
  BY DEF ExpiredIsToldForACause
<1>1. call[c].at = "settled" /\ call[c].result = "http"
  BY DEF Told
<1>2. \/ ErrorMessage(call[c].status) = "expired"
      \/ ReportsErrorMessage(call[c].status) = "expired"
  BY <1>1 DEF Told
<1>3. call[c].status = 401
  BY <1>2 DEF ErrorMessage, ReportsErrorMessage
<1> QED BY <1>1, <1>3 DEF IndInv, CallOk, CauseOk, Grounds

LEMMA Forbidden == IndInv => ForbiddenIsToldForACause
<1> SUFFICES ASSUME IndInv, NEW c \in Calls, Told(c) = "forbidden"
             PROVE  NeedsPermission(c)
  BY DEF ForbiddenIsToldForACause
<1>1. call[c].at = "settled" /\ call[c].result = "http"
  BY DEF Told
<1>2. \/ ErrorMessage(call[c].status) = "forbidden"
      \/ ReportsErrorMessage(call[c].status) = "forbidden"
  BY <1>1 DEF Told
<1>3. call[c].status = 403
  BY <1>2 DEF ErrorMessage, ReportsErrorMessage
<1> QED BY <1>1, <1>3 DEF IndInv, CallOk, CauseOk, Grounds

(* "Tu sesion ha expirado" is shown only when the session had a cause to   *)
(* end, for every route the client may call and either guard mode.         *)
THEOREM ExpiredHasACause == Spec => []ExpiredIsToldForACause
BY Invariance, Expired, PTL

(* "No tienes permisos" is shown only where nobody is admitted, or for the *)
(* route that the network may not reach.                                   *)
THEOREM ForbiddenHasACause == Spec => []ForbiddenIsToldForACause
BY Invariance, Forbidden, PTL

(* The page is given up for /login only by a call whose session had a      *)
(* cause to end.                                                           *)
THEOREM LeavesOnlyForACause == Spec => LeavesForACause
<1>1. ASSUME IndInv, [Next]_vars
      PROVE  [page # page' /\ page' = "leaving" =>
                \E c \in Calls : InBrowser(c) /\ call[c].at = "refresh" /\ Cause(c)]_vars
  <2> SUFFICES ASSUME page # page', page' = "leaving"
               PROVE  \E c \in Calls : InBrowser(c) /\ call[c].at = "refresh" /\ Cause(c)
    OBVIOUS
  <2>1. PICK c \in Calls : RefreshAnswered(c) \/ FetchFails(c)
    BY <1>1 DEF Next, Exchange, Start, TimerFires, CallerAborts, Lose, Drop, Navigate,
                Serve, LibAnswered, ApiAnswered, ClientAnswered, RetryAnswered,
                BodyRead, BodyBreaks, vars
  <2>2. call[c].at = "refresh" /\ ToLogin(c)
    BY <2>1 DEF RefreshAnswered, FetchFails
  <2>3. InBrowser(c) /\ Cause(c)
    BY <1>1, <2>2 DEF ToLogin, IndInv, CallOk, CauseOk
  <2> QED BY <2>2, <2>3
<1> QED BY <1>1, Invariance, PTL DEF Spec, LeavesForACause
-----------------------------------------------------------------------------
(* The refinement of RemoteCall, first for the steps that touch one call.  *)
Phases == [c \in Calls |-> Phase(c)]
Verdicts == [c \in Calls |-> Verdict(c)]

Others(c) == \A d \in Calls : d # c => call'[d] = call[d]

LEMMA Mapped ==
    ASSUME NEW c \in Calls, Others(c)
    PROVE  /\ Phases' = [Phases EXCEPT ![c] = Phase(c)']
           /\ Verdicts' = [Verdicts EXCEPT ![c] = Verdict(c)']
<1>1. \A d \in Calls : d # c => Phase(d)' = Phase(d) /\ Verdict(d)' = Verdict(d)
  BY DEF Others, Phase, Verdict, IsOpen
<1> QED BY <1>1 DEF Phases, Verdicts

LEMMA Unmoved ==
    ASSUME \A d \in Calls : Phase(d)' = Phase(d) /\ Verdict(d)' = Verdict(d), work' = work
    PROVE  UNCHANGED Remote!callVars
BY DEF Remote!callVars

LEMMA GoesOn ==
    ASSUME NEW c \in Calls, IsOpen(c), IsOpen(c)', Others(c), work' = work
    PROVE  UNCHANGED Remote!callVars
<1>1. \A d \in Calls : Phase(d)' = Phase(d) /\ Verdict(d)' = Verdict(d)
  BY DEF Others, Phase, Verdict, IsOpen
<1> QED BY <1>1, Unmoved

LEMMA Closes ==
    ASSUME IndInv', NEW c \in Calls, IsOpen(c), call'[c].at = "settled",
           Others(c), work' = work
    PROVE  Remote!CallNext
<1>1. Phase(c) = "open" /\ Phase(c)' = "closed"
  BY DEF Phase, IsOpen
<1>2. Verdict(c)' \in {"done", "refused", "unknown"}
  BY DEF Verdict
<1>3. /\ Verdict(c)' = "done" => work[c] = 1
      /\ Verdict(c)' = "refused" => work[c] = 0
  BY DEF IndInv, CallOk, WorkOk
<1>4. Remote!Close(c, Verdict(c)')
  BY <1>1, <1>3, Mapped DEF Remote!Close, Phases, Verdicts
<1> QED BY <1>2, <1>4 DEF Remote!CallNext

LEMMA Opens ==
    ASSUME TypeOK, NEW c \in Calls, NEW u \in Uses[c], Start(c, u[1], u[2])
    PROVE  Remote!CallNext
<1>1. Phase(c) # "open" /\ Phase(c)' = "open" /\ Verdict(c)' = "none" /\ Others(c)
  BY DEF Start, TypeOK, Phase, Verdict, IsOpen, Others
<1>2. Remote!Open(c)
  BY <1>1, Mapped DEF Remote!Open, Phases, Verdicts, Start
<1> QED BY <1>2 DEF Remote!CallNext

LEMMA Works ==
    ASSUME IndInv, NEW c \in Calls, Serve(c)
    PROVE  Remote!CallNext \/ UNCHANGED Remote!callVars
<1>1. /\ call' = call /\ wire[c].is = "request"
      /\ \/ work' = work
         \/ ~wire[c].refresh /\ work' = [work EXCEPT ![c] = work[c] + 1]
  <2>1. PICK a \in AnswersTo(c) :
          work' = [work EXCEPT ![c] = IF a.ran /\ ~wire[c].refresh THEN @ + 1 ELSE @]
    BY DEF Serve
  <2> QED BY <2>1 DEF Serve, IndInv, TypeOK
<1>2. \A d \in Calls : Phase(d)' = Phase(d) /\ Verdict(d)' = Verdict(d)
  BY <1>1 DEF Phase, Verdict, IsOpen
<1>3. CASE work' = work
  BY <1>2, <1>3, Unmoved
<1>4. CASE ~wire[c].refresh /\ work' = [work EXCEPT ![c] = work[c] + 1]
  <2>1. work[c] = 0
    BY <1>1, <1>4 DEF IndInv, CallOk, WorkOk
  <2>2. call[c].at \in {"idle", "fetch", "body", "refresh", "retry", "settled"}
    BY DEF IndInv, TypeOK, CallRecords
  <2>3. Phase(c) = "open" \/ Verdict(c) = "unknown"
    BY <1>1, <1>4, <2>2 DEF IndInv, CallOk, WireOk, Phase, IsOpen
  <2>4. Remote!Work(c)
    BY <1>2, <1>4, <2>1, <2>3 DEF Remote!Work
  <2> QED BY <2>4 DEF Remote!CallNext
<1> QED BY <1>1, <1>3, <1>4

LEMMA Abandons ==
    ASSUME IndInv, Navigate
    PROVE  Remote!CallNext
<1> DEFINE S == {c \in Calls : InBrowser(c) /\ IsOpen(c)}
<1>1. \A c \in S : Phase(c) = "open" /\ Phase(c)' = "closed" /\ Verdict(c)' = "unknown"
  <2> SUFFICES ASSUME NEW c \in S
               PROVE  Phase(c) = "open" /\ Phase(c)' = "closed" /\ Verdict(c)' = "unknown"
    OBVIOUS
  <2>1. call'[c].at = "settled" /\ call'[c].result = "abandoned"
    BY ZenonT(60) DEF IndInv, TypeOK, Navigate, CallRecords
  <2> QED BY <2>1 DEF Phase, Verdict, IsOpen
<1>2. \A c \in Calls \ S : Phase(c)' = Phase(c) /\ Verdict(c)' = Verdict(c)
  BY DEF Navigate, Phase, Verdict, IsOpen, InBrowser
<1>3. Remote!Abandon(S)
  BY <1>1, <1>2 DEF Remote!Abandon, Navigate
<1>4. S \in SUBSET Calls
  OBVIOUS
<1> QED BY <1>3, <1>4 DEF Remote!CallNext

LEMMA StepRefines ==
    ASSUME IndInv, IndInv', [Next]_vars
    PROVE  [Remote!CallNext]_Remote!callVars
<1>1. ASSUME NEW c \in Calls, NEW u \in Uses[c], Start(c, u[1], u[2])
      PROVE  Remote!CallNext
  BY <1>1, Opens DEF IndInv
<1>2. ASSUME NEW c \in Calls, NEW result, NEW status, Settle(c, result, status),
             IsOpen(c), work' = work
      PROVE  Remote!CallNext
  <2>1. call'[c].at = "settled" /\ Others(c)
    BY <1>2 DEF Settle, Others, IndInv, TypeOK, CallRecords
  <2> QED BY <1>2, <2>1, Closes
<1>3. ASSUME NEW c \in Calls, NEW at \in {"body", "refresh", "retry"}, NEW status,
             Proceed(c, at, status), IsOpen(c), work' = work
      PROVE  UNCHANGED Remote!callVars
  <2>1. call'[c].at = at /\ Others(c)
    BY <1>3 DEF Proceed, Others, IndInv, TypeOK, CallRecords
  <2> QED BY <1>3, <2>1, GoesOn DEF IsOpen
<1>4. ASSUME UNCHANGED <<call, work>>
      PROVE  UNCHANGED Remote!callVars
  BY <1>4, Unmoved DEF Phase, Verdict, IsOpen
<1>5. ASSUME NEW c \in Calls, Exchange(c)
      PROVE  Remote!CallNext \/ UNCHANGED Remote!callVars
  <2>1. CASE Serve(c)
    BY <2>1, Works
  <2>2. CASE LibAnswered(c)
    BY <2>2, <1>3 DEF LibAnswered, IsOpen
  <2>3. CASE ApiAnswered(c)
    BY <2>3, <1>2, <1>3 DEF ApiAnswered, IsOpen
  <2>4. CASE ClientAnswered(c)
    BY <2>4, <1>2, <1>3 DEF ClientAnswered, IsOpen
  <2>5. CASE RefreshAnswered(c)
    BY <2>5, <1>2, <1>3 DEF RefreshAnswered, IsOpen
  <2>6. CASE RetryAnswered(c)
    BY <2>6, <1>2 DEF RetryAnswered, IsOpen
  <2>7. CASE BodyRead(c) \/ BodyBreaks(c)
    BY <2>7, <1>2 DEF BodyRead, BodyBreaks, IsOpen
  <2>8. CASE FetchFails(c)
    BY <2>8, <1>2 DEF FetchFails, Waiting, IsOpen
  <2> QED BY <1>5, <2>1, <2>2, <2>3, <2>4, <2>5, <2>6, <2>7, <2>8 DEF Exchange
<1>6. ASSUME NEW c \in Calls, IsOpen(c), Abort(c), work' = work
      PROVE  Remote!CallNext
  BY <1>6, <1>2 DEF Abort
<1>7. ASSUME NEW c \in Calls, TimerFires(c) \/ CallerAborts(c)
      PROVE  Remote!CallNext \/ UNCHANGED Remote!callVars
  <2>1. CASE TimerFires(c)
    <3>1. IsOpen(c) /\ work' = work
      BY <2>1 DEF TimerFires, IndInv, CallOk, TimerOk
    <3> QED BY <2>1, <3>1, <1>4, <1>6 DEF TimerFires
  <2>2. CASE CallerAborts(c)
    BY <2>2, <1>6 DEF CallerAborts
  <2> QED BY <1>7, <2>1, <2>2
<1>8. ASSUME NEW c \in Calls, Lose(c) \/ Drop(c)
      PROVE  UNCHANGED Remote!callVars
  BY <1>4, <1>8 DEF Lose, Drop
<1>9. CASE Navigate
  BY <1>9, Abandons
<1>10. CASE UNCHANGED vars
  BY <1>4, <1>10 DEF vars
<1> QED BY <1>1, <1>5, <1>7, <1>8, <1>9, <1>10 DEF Next

(* Any calls with any use of the clients are remote calls: one success,    *)
(* one doing of the work; one refusal, none; anything else, at most one.   *)
THEOREM RemoteCallsImplemented == Spec => CallsAreRemoteCalls
<1>1. Init => Remote!CallInit
  BY DEF Init, Remote!CallInit, Phase, Verdict, IsOpen
<1>2. IndInv /\ IndInv' /\ [Next]_vars => [Remote!CallNext]_Remote!callVars
  BY StepRefines
<1> QED BY <1>1, <1>2, Invariance, PTL DEF Spec, CallsAreRemoteCalls, Remote!CallSpec
=============================================================================
