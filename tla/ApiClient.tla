----------------------------- MODULE ApiClient -----------------------------
(***************************************************************************)
(* The HTTP clients of this repository and the calls a page has open with  *)
(* them, over a network that loses requests and answers:                   *)
(*                                                                         *)
(*   lib      apiRequest of backend/lib/api.ts, with a timeout             *)
(*   libSignal   the same, given a signal in its options, which takes the  *)
(*            place of the timeout's                                       *)
(*   api      apiRequest of frontend/src/lib/api.ts                        *)
(*   client   apiClient.fetch of the same file: refresh and retry on a 401 *)
(*   reports  reportsRequest of frontend/src/lib/reports.ts                *)
(*                                                                         *)
(* An action per place where the event loop can run something else: an     *)
(* answer's headers arrive, its body is read, a fetch fails, a timer       *)
(* fires, the page navigates.                                              *)
(***************************************************************************)
EXTENDS ReportRequests

CONSTANTS Calls,       \* calls that may be open at once
          Uses,        \* the client functions and destinations of each call
          Answering    \* calls whose network always answers or fails in the end

Vias == {"lib", "libSignal", "api", "client", "reports"}

(* The backend's routes, and reports-api's one.                            *)
Destinations(via) == IF via = "reports" THEN {"report"}
                     ELSE IF via = "client" THEN Routes \cup {"report"}
                     ELSE Routes

Calling == {u \in Vias \X (Routes \cup {"report"}) : u[2] \in Destinations(u[1])}

ASSUME ClientAssumption == /\ Uses \in [Calls -> SUBSET Calling]
                           /\ Answering \subseteq Calls

VARIABLES call,      \* each call: client function, destination, progress, outcome
          wire,      \* the request each call has in flight, or its answer
          timer,     \* is the call's abort pending (setTimeout)?
          work,      \* how often the destination's handler has done its work
          trouble,   \* has the network or a service failed, or refused for load?
          page,      \* "shown", or "leaving" for /login
          setting    \* AUTH_MODE, the access_token cookie, calls from a browser

vars == <<call, wire, timer, work, trouble, page, setting>>
-----------------------------------------------------------------------------
Statuses == {200, 204, 400, 401, 403, 422, 429, 500, 501, 503}

Ok(status) == status \in 200 .. 299

CallRecords == [via : Vias, to : Routes \cup {"report"},
                at : {"idle", "fetch", "body", "refresh", "retry", "settled"},
                status : Statuses \cup {0},
                result : {"none", "data", "nothing", "response", "http",
                          "network", "broken", "abandoned"}]

Wires == [is : {"none", "request", "answer", "gone"}, refresh : BOOLEAN,
          status : Statuses \cup {0}]

NoWire == [is |-> "none", refresh |-> FALSE, status |-> 0]

Sent(refresh) == [is |-> "request", refresh |-> refresh, status |-> 0]

IsOpen(c) == call[c].at \in {"fetch", "body", "refresh", "retry"}

Waiting(c) == call[c].at \in {"fetch", "refresh", "retry"}

IsLib(c) == call[c].via \in {"lib", "libSignal"}

InBrowser(c) == c \in setting.browser

TypeOK ==
    /\ call \in [Calls -> CallRecords]
    /\ wire \in [Calls -> Wires]
    /\ \A c \in Calls : wire[c].is = "answer" => wire[c].status \in Statuses
    /\ timer \in [Calls -> BOOLEAN]
    /\ work \in [Calls -> Nat]
    /\ trouble \in [Calls -> BOOLEAN]
    /\ page \in {"shown", "leaving"}
    /\ setting \in [mode : {"development", "real"}, cookie : BOOLEAN,
                    browser : SUBSET Calls]

Init ==
    /\ call = [c \in Calls |-> [via |-> "api", to |-> "health", at |-> "idle",
                                status |-> 0, result |-> "none"]]
    /\ wire = [c \in Calls |-> NoWire]
    /\ timer = [c \in Calls |-> FALSE]
    /\ work = [c \in Calls |-> 0]
    /\ trouble = [c \in Calls |-> FALSE]
    /\ page = "shown"
    /\ setting \in [mode : {"development", "real"}, cookie : BOOLEAN,
                    browser : SUBSET Calls]
-----------------------------------------------------------------------------
(* A call begins; a new one takes the place of one that has ended.         *)
Start(c, via, to) ==
    /\ ~IsOpen(c)
    /\ wire[c].is = "none"
    /\ <<via, to>> \in Uses[c]
    /\ call' = [call EXCEPT ![c] = [via |-> via, to |-> to, at |-> "fetch",
                                    status |-> 0, result |-> "none"]]
    /\ wire' = [wire EXCEPT ![c] = Sent(FALSE)]
    /\ timer' = [timer EXCEPT ![c] = via \in {"lib", "libSignal"}]
    /\ work' = [work EXCEPT ![c] = 0]
    /\ trouble' = [trouble EXCEPT ![c] = FALSE]
    /\ UNCHANGED <<page, setting>>

Settle(c, result, status) ==
    /\ call' = [call EXCEPT ![c].at = "settled", ![c].result = result,
                            ![c].status = status]
    /\ timer' = [timer EXCEPT ![c] = FALSE]

Proceed(c, at, status) ==
    /\ call' = [call EXCEPT ![c].at = at, ![c].status = status]
    /\ UNCHANGED timer

(* Mutant: a call that times out is sent again.                            *)
TimerFiresResends(c) ==
    /\ timer[c]
    /\ timer' = [timer EXCEPT ![c] = FALSE]
    /\ call' = [call EXCEPT ![c].at = "fetch", ![c].status = 0]
    /\ wire' = [wire EXCEPT ![c] = Sent(FALSE)]
    /\ UNCHANGED <<work, trouble, page, setting>>

(* An aborted fetch rejects; an aborted reading of the body does too, and  *)
(* apiRequest takes it for an answer without a body.                       *)
Abort(c) ==
    IF call[c].at = "body"
    THEN Settle(c, IF Ok(call[c].status) THEN "nothing" ELSE "http", call[c].status)
    ELSE Settle(c, "network", 0)

(* controller.abort(), to which a fetch with another signal does not       *)
(* listen.  Whatever is on the wire goes on.                               *)
TimerFires(c) ==
    /\ timer[c]
    /\ \/ call[c].via = "lib" /\ Abort(c)
       \/ /\ call[c].via = "libSignal"
          /\ timer' = [timer EXCEPT ![c] = FALSE]
          /\ UNCHANGED call
    /\ UNCHANGED <<wire, work, trouble, page, setting>>

CallerAborts(c) ==
    /\ call[c].via = "libSignal" /\ IsOpen(c)
    /\ Abort(c)
    /\ UNCHANGED <<wire, work, trouble, page, setting>>

(* The answer of apiRequest in backend/lib: its body is read in any case.  *)
(* Mutant: the timer is cleared as soon as the headers are there.          *)
LibAnsweredClearsTimer(c) ==
    /\ IsLib(c) /\ call[c].at = "fetch" /\ wire[c].is = "answer"
    /\ call' = [call EXCEPT ![c].at = "body", ![c].status = wire[c].status]
    /\ timer' = [timer EXCEPT ![c] = FALSE]
    /\ wire' = [wire EXCEPT ![c] = NoWire]
    /\ UNCHANGED <<work, trouble, page, setting>>

LibAnswered(c) ==
    /\ IsLib(c) /\ call[c].at = "fetch" /\ wire[c].is = "answer"
    /\ Proceed(c, "body", wire[c].status)
    /\ wire' = [wire EXCEPT ![c] = NoWire]
    /\ UNCHANGED <<work, trouble, page, setting>>

(* apiRequest of the frontend and reportsRequest.                          *)
ApiAnswered(c) ==
    /\ call[c].via \in {"api", "reports"}
    /\ call[c].at = "fetch" /\ wire[c].is = "answer"
    /\ IF Ok(wire[c].status) THEN Proceed(c, "body", wire[c].status)
                             ELSE Settle(c, "http", wire[c].status)
    /\ wire' = [wire EXCEPT ![c] = NoWire]
    /\ UNCHANGED <<work, trouble, page, setting>>

(* response.json() or blob(); a 204 has no JSON.                           *)
BodyRead(c) ==
    /\ call[c].at = "body"
    /\ call[c].status # 204
    /\ Settle(c, IF Ok(call[c].status) THEN "data" ELSE "http", call[c].status)
    /\ UNCHANGED <<wire, work, trouble, page, setting>>

(* The body is cut or is not JSON: null for lib, an exception that no      *)
(* client has a name for in the frontend.                                  *)
BodyBreaks(c) ==
    /\ call[c].at = "body"
    /\ Settle(c, IF ~Ok(call[c].status) THEN "http"
                 ELSE IF IsLib(c) THEN "nothing" ELSE "broken",
              call[c].status)
    /\ UNCHANGED <<wire, work, trouble, page, setting>>
-----------------------------------------------------------------------------
(* Mutant: any error status starts a refresh.                              *)
RefreshesOnAnyError(status) == status >= 400

Refreshes(status) == status = 401

(* window.location.href = '/login', where there is a window.               *)
ToLogin(c) == page' = IF InBrowser(c) THEN "leaving" ELSE page

(* apiClient.fetch: the answer to the first request.                       *)
ClientAnswered(c) ==
    /\ call[c].via = "client" /\ call[c].at = "fetch" /\ wire[c].is = "answer"
    /\ IF Refreshes(wire[c].status)
       THEN /\ Proceed(c, "refresh", wire[c].status)
            /\ wire' = [wire EXCEPT ![c] = Sent(TRUE)]
       ELSE /\ Settle(c, "response", wire[c].status)
            /\ wire' = [wire EXCEPT ![c] = NoWire]
    /\ UNCHANGED <<work, trouble, page, setting>>

RefreshAnswered(c) ==
    /\ call[c].at = "refresh" /\ wire[c].is = "answer"
    /\ IF Ok(wire[c].status)
       THEN /\ Proceed(c, "retry", 0)
            /\ wire' = [wire EXCEPT ![c] = Sent(FALSE)]
            /\ UNCHANGED page
       ELSE /\ Settle(c, "http", 401)
            /\ wire' = [wire EXCEPT ![c] = NoWire]
            /\ ToLogin(c)
    /\ UNCHANGED <<work, trouble, setting>>

(* Mutant: the retry's answer is treated like the first one.               *)
RetryAnsweredRefreshesAgain(c) ==
    /\ call[c].at = "retry" /\ wire[c].is = "answer"
    /\ IF Refreshes(wire[c].status)
       THEN /\ Proceed(c, "refresh", wire[c].status)
            /\ wire' = [wire EXCEPT ![c] = Sent(TRUE)]
       ELSE /\ Settle(c, "response", wire[c].status)
            /\ wire' = [wire EXCEPT ![c] = NoWire]
    /\ UNCHANGED <<work, trouble, page, setting>>

(* The retry's answer is returned whatever it is.                          *)
RetryAnswered(c) ==
    /\ call[c].at = "retry" /\ wire[c].is = "answer"
    /\ Settle(c, "response", wire[c].status)
    /\ wire' = [wire EXCEPT ![c] = NoWire]
    /\ UNCHANGED <<work, trouble, page, setting>>

(* fetch() rejects: the connection failed, or its answer may not be read.  *)
FetchFails(c) ==
    /\ Waiting(c) /\ wire[c].is = "gone"
    /\ IF call[c].at = "refresh" THEN ToLogin(c) ELSE UNCHANGED page
    /\ Settle(c, "network", 0)
    /\ wire' = [wire EXCEPT ![c] = NoWire]
    /\ UNCHANGED <<work, trouble, setting>>

(* The browser loads /login: the page's calls end with its script.         *)
Navigate ==
    /\ page = "leaving"
    /\ page' = "shown"
    /\ call' = [c \in Calls |->
                  IF InBrowser(c) /\ IsOpen(c)
                  THEN [call[c] EXCEPT !.at = "settled", !.result = "abandoned",
                                       !.status = 0]
                  ELSE call[c]]
    /\ timer' = [c \in Calls |-> timer[c] /\ ~InBrowser(c)]
    /\ UNCHANGED <<wire, work, trouble, setting>>
-----------------------------------------------------------------------------
AnswersTo(c) ==
    IF wire[c].refresh THEN BackendAnswers("refresh", setting.mode)
    ELSE IF call[c].to = "report" THEN ReportAnswers(setting.mode, setting.cookie)
    ELSE BackendAnswers(call[c].to, setting.mode)

(* A service handles the request, whether or not anybody still waits.      *)
Serve(c) ==
    /\ wire[c].is = "request"
    /\ \E a \in AnswersTo(c) :
         /\ wire' = [wire EXCEPT ![c].is = "answer", ![c].status = a.status]
         /\ work' = [work EXCEPT ![c] = IF a.ran /\ ~wire[c].refresh THEN @ + 1
                                                                     ELSE @]
         /\ trouble' = [trouble EXCEPT ![c] = @ \/ a.trouble]
    /\ UNCHANGED <<call, timer, page, setting>>

(* The request, or its answer, is lost.                                    *)
Lose(c) ==
    /\ wire[c].is \in {"request", "answer"}
    /\ wire' = [wire EXCEPT ![c].is = "gone", ![c].status = 0]
    /\ trouble' = [trouble EXCEPT ![c] = TRUE]
    /\ UNCHANGED <<call, timer, work, page, setting>>

(* An answer that nobody waits for any more.                               *)
Drop(c) ==
    /\ ~IsOpen(c)
    /\ wire[c].is \in {"answer", "gone"}
    /\ wire' = [wire EXCEPT ![c] = NoWire]
    /\ UNCHANGED <<call, timer, work, trouble, page, setting>>

Exchange(c) == \/ Serve(c) \/ LibAnswered(c) \/ ApiAnswered(c)
               \/ ClientAnswered(c) \/ RefreshAnswered(c) \/ RetryAnswered(c)
               \/ BodyRead(c) \/ BodyBreaks(c) \/ FetchFails(c)

Next == \/ \E c \in Calls :
             \/ \E u \in Uses[c] : Start(c, u[1], u[2])
             \/ Exchange(c) \/ TimerFires(c) \/ CallerAborts(c)
             \/ Lose(c) \/ Drop(c)
        \/ Navigate

Spec == Init /\ [][Next]_vars

(* setTimeout fires; some calls' networks answer or fail in the end.       *)
Fairness == /\ \A c \in Calls : WF_vars(TimerFires(c))
            /\ \A c \in Answering : WF_vars(Exchange(c))

FairSpec == Spec /\ Fairness
-----------------------------------------------------------------------------
(* What the caller of a settled call may conclude: RemoteCall's words.     *)
RefusedStatuses == {400, 401, 403, 422, 429}

Verdict(c) ==
    IF call[c].at # "settled" THEN "none"
    ELSE IF call[c].result \in {"data", "nothing", "response"} /\ Ok(call[c].status)
    THEN "done"
    ELSE IF call[c].result \in {"http", "response"} /\ call[c].status \in RefusedStatuses
    THEN "refused"
    ELSE "unknown"

Phase(c) == IF IsOpen(c) THEN "open"
            ELSE IF call[c].at = "idle" THEN "idle" ELSE "closed"

Remote == INSTANCE RemoteCall WITH phase <- [c \in Calls |-> Phase(c)],
                                   verdict <- [c \in Calls |-> Verdict(c)]

(* However the clients time out, refresh and retry, a call's work is done  *)
(* at most once, a success means that it was done, and a refusal           *)
(* (400, 401, 403, 422, 429) that it was not and never will be.            *)
CallsAreRemoteCalls == Remote!CallSpec

(* Why a session may count as over: the browser has no cookie, the guard   *)
(* accepts nobody, or something on the way failed or refused for load.     *)
Cause(c) == \/ ~setting.cookie \/ setting.mode = "real" \/ trouble[c]
            \/ call[c].to = "refresh"

(* getErrorMessage and getReportsErrorMessage.                             *)
ErrorMessage(status) ==
    CASE status = 400 -> "invalid data"
      [] status = 401 -> "expired"
      [] status = 403 -> "forbidden"
      [] status = 429 -> "too many"
      [] status \in {500, 502, 503} -> "unavailable"
      [] OTHER -> "unexpected"

ReportsErrorMessage(status) ==
    CASE status = 401 -> "expired"
      [] status = 403 -> "forbidden"
      [] status = 429 -> "too many"
      [] status = 503 -> "unavailable"
      [] OTHER -> "failed"

(* The message of the error a call ended with, in the browser's clients.   *)
Told(c) == IF IsLib(c) \/ call[c].at # "settled" \/ call[c].result # "http"
           THEN "nothing"
           ELSE IF call[c].via = "reports" THEN ReportsErrorMessage(call[c].status)
           ELSE ErrorMessage(call[c].status)

NeedsPermission(c) == setting.mode = "real" \/ call[c].to = "health/ready"

(* A user with a cookie, of a backend that accepts it, is never told that  *)
(* the session has expired while every service does its work.              *)
ExpiredIsToldForACause == \A c \in Calls : Told(c) = "expired" => Cause(c)

(* A user that the guard accepts is never told that permission is missing: *)
(* when the roles are looked at, the user has been set.                    *)
ForbiddenIsToldForACause ==
    \A c \in Calls : Told(c) = "forbidden" => NeedsPermission(c)

(* The page is given up for /login, and with it whatever other calls it    *)
(* has open, only on behalf of a call whose session had a cause to end.    *)
LeavesForACause ==
    [][page # page' /\ page' = "leaving" =>
         \E c \in Calls : InBrowser(c) /\ call[c].at = "refresh" /\ Cause(c)]_vars

(* backend/lib: a call that leaves the signal to apiRequest ends even if   *)
(* the network falls silent, before the headers or within the body.        *)
LibCallsSettle ==
    \A c \in Calls : IsOpen(c) /\ call[c].via = "lib" ~> ~IsOpen(c)

(* The others end if the network does not fall silent: a 401 leads to one  *)
(* refresh and at most one retry.                                          *)
BrowserCallsSettle == \A c \in Answering : IsOpen(c) ~> ~IsOpen(c)
-----------------------------------------------------------------------------
(* What is on the wire belongs to the step its call is at; a request that  *)
(* outlives its call is one of whose outcome the caller knows nothing.     *)
WireOk(c) ==
    /\ call[c].at \in {"idle", "body"} => wire[c].is = "none"
    /\ call[c].at \in {"fetch", "retry"} => ~wire[c].refresh
    /\ call[c].at = "refresh" => wire[c].refresh
    /\ call[c].at = "settled" /\ wire[c].is = "request" /\ ~wire[c].refresh
         => Verdict(c) = "unknown"

(* lib's timer runs as long as its call.                                   *)
TimerOk(c) == /\ timer[c] => IsLib(c) /\ IsOpen(c)
              /\ call[c].via = "lib" /\ IsOpen(c) => timer[c]

Tells(status, c) == /\ Ok(status) => work[c] = 1
                    /\ status \in RefusedStatuses => work[c] = 0

(* A status tells whether the work was done, on the wire, while the body   *)
(* is read, and in the outcome; a second request is sent only after none.  *)
WorkOk(c) ==
    /\ work[c] \in {0, 1}
    /\ wire[c].is = "request" /\ ~wire[c].refresh => work[c] = 0
    /\ wire[c].is = "answer" /\ ~wire[c].refresh => Tells(wire[c].status, c)
    /\ call[c].at = "body" => Tells(call[c].status, c)
    /\ call[c].at = "refresh" => work[c] = 0
    /\ Verdict(c) = "done" => work[c] = 1
    /\ Verdict(c) = "refused" => work[c] = 0

Grounds(status, c) == /\ status = 401 => Cause(c)
                      /\ status = 403 => NeedsPermission(c)

(* A 401 or 403 has its cause from the moment it is sent.                  *)
CauseOk(c) ==
    /\ wire[c].is = "answer" /\ ~wire[c].refresh => Grounds(wire[c].status, c)
    /\ call[c].at = "body" => Grounds(call[c].status, c)
    /\ call[c].at = "refresh" => Cause(c)
    /\ call[c].at = "settled" /\ call[c].result = "http"
         => Grounds(call[c].status, c)

CallOk(c) == WireOk(c) /\ TimerOk(c) /\ WorkOk(c) /\ CauseOk(c)

(* The inductive invariant behind the two properties of what is told, the  *)
(* one of /login and the refinement of RemoteCall.                         *)
IndInv == TypeOK /\ \A c \in Calls : CallOk(c)
=============================================================================
