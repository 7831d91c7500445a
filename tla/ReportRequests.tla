--------------------------- MODULE ReportRequests ---------------------------
(***************************************************************************)
(* What reports-api may answer a browser's POST /reports/excel: limiter,   *)
(* require_auth with the backend's answer to GET /api/auth/me, validation, *)
(* view.  SessionAuth has the threads, the cache and the breaker behind    *)
(* require_auth; here they are the answers they can lead to.               *)
(***************************************************************************)
EXTENDS BackendRequests

(* AlertingLimiter swallows the refusal with Redis's errors: no 429.       *)
Limited == {}

(* A view's own errors, and those of before_request functions.             *)
View == {Answer(422, FALSE, FALSE), Answer(501, TRUE, FALSE)} \cup Unexpected

(* cache.get raises (500), the breaker is open or the call fails (503).    *)
AuthFailures == {Answer(500, FALSE, TRUE), Answer(503, FALSE, TRUE)}

(* Only 200 admits; cache.set raising after a 200 refuses as well.         *)
AfterMe(me) ==
    IF me.status = 200 THEN View \cup {Answer(401, FALSE, TRUE)}
                       ELSE {Answer(401, FALSE, me.trouble)}

ReportAnswers(mode, cookie) ==
    Limited \cup Unexpected \cup
    IF cookie
    THEN AuthFailures \cup UNION {AfterMe(me) : me \in BackendAnswers("me", mode)}
    ELSE {Answer(401, FALSE, FALSE)}
=============================================================================
