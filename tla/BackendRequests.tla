-------------------------- MODULE BackendRequests --------------------------
(***************************************************************************)
(* What the backend may answer a request: the routes with their decorators *)
(* (@Public, @Roles, @SkipThrottle), the global guards in the order of     *)
(* app.module.ts:64-70, the guard of one route, the validation pipe, the   *)
(* handlers, and the filter that turns exceptions into statuses.           *)
(*                                                                         *)
(* Node runs one request's guards and handler against nothing that another *)
(* request changes, the throttler's counters apart, so that a request is a *)
(* function of its route and its sender to a set of answers.  The counters *)
(* are @nestjs/throttler's and are not kept here: a throttled route may    *)
(* refuse any request.                                                     *)
(***************************************************************************)
EXTENDS Naturals

CONSTANT RefreshStatuses   \* what POST /auth/refresh answers: 501 today; 200
                           \* and 401 are declared for when it is written

ASSUME BackendAssumption == RefreshStatuses \in SUBSET {200, 401, 501}

AuthRoutes == {"register", "login", "refresh", "me", "logout", "auth/health"}

HealthRoutes == {"health", "health/ready"}

Routes == AuthRoutes \cup HealthRoutes \cup {"csp-report", "metrics"}

Public == Routes \ {"me", "logout", "metrics"}

(* The throttlers' names; @SkipThrottle() names the one called "default".  *)
Throttlers == {"short", "medium"}

Skipped(route) == IF route \in HealthRoutes \cup {"auth/health"} THEN {"default"}
                                                                ELSE {}

Prefixed(route) == route \notin HealthRoutes

(* Routes whose body is a DTO, which the ValidationPipe may refuse.        *)
HasDto == {"register", "login"}

PipeAllows(route, valid) == route \in HasDto => valid

NoUser == "none"

Roles(route) ==
    IF route \in {"me", "logout"} THEN {"VIEWER", "USER", "MODERATOR", "ADMIN"}
                                  ELSE {}
-----------------------------------------------------------------------------
(* A throttler refusal, a guard's or a pipe's, or none.                    *)
Pass == 0

(* ROLE_HIERARCHY, which has no entry for MODERATOR.                       *)
Hierarchy == <<"USER", "VIEWER", "ANALYST", "MANAGER", "ADMIN", "SUPER_ADMIN">>

EffectiveRoles(role) ==
    {role} \cup {Hierarchy[i] : i \in {k \in 1 .. 6 :
                     \E j \in 1 .. 6 : k < j /\ Hierarchy[j] = role}}

(* Mutant: every required role is demanded instead of one of them.         *)
HasAllRequiredRoles(role, required) == required \subseteq EffectiveRoles(role)

HasRequiredRole(role, required) == required \cap EffectiveRoles(role) # {}

JwtAllows(route, mode) == route \in Public \/ mode = "development"

(* req.user, which the development guard sets to a simulated VIEWER.       *)
UserOf(route, mode) ==
    IF route \notin Public /\ mode = "development" THEN "VIEWER" ELSE NoUser

RolesAllow(route, user) ==
    Roles(route) = {} \/ (user # NoUser /\ HasRequiredRole(user, Roles(route)))

(* The guard compares the request's path with /metrics; the controller     *)
(* answers under the global prefix.                                        *)
MetricsAllow(route, basicAuth) ==
    route = "metrics" /\ ~Prefixed(route) => basicAuth

LocalOnlyAllows(route, local) == route = "health/ready" => local

(* Mutant: RolesGuard is registered before JwtAuthGuard.                   *)
RefusalRolesFirst(r, mode) ==
    IF ~RolesAllow(r.route, NoUser) \/ ~JwtAllows(r.route, mode) THEN 403
    ELSE IF ~MetricsAllow(r.route, r.basicAuth) THEN 401
    ELSE IF ~LocalOnlyAllows(r.route, r.local) THEN 403
    ELSE IF ~PipeAllows(r.route, r.valid) THEN 400
    ELSE Pass

Refusal(r, mode) ==
    IF ~JwtAllows(r.route, mode) THEN 403
    ELSE IF ~RolesAllow(r.route, UserOf(r.route, mode)) THEN 403
    ELSE IF ~MetricsAllow(r.route, r.basicAuth) THEN 401
    ELSE IF ~LocalOnlyAllows(r.route, r.local) THEN 403
    ELSE IF ~PipeAllows(r.route, r.valid) THEN 400
    ELSE Pass
-----------------------------------------------------------------------------
(* Only me, logout and health are written; the filter below makes a 501 of *)
(* the others' NotImplementedException.                                    *)
AuthStatuses(route) ==
    CASE route = "refresh"               -> RefreshStatuses
      [] route \in {"register", "login"} -> {501}
      [] OTHER                           -> {200}

HealthStatuses(route) == IF route = "health/ready" THEN {200, 503} ELSE {200}

(* A report is answered in the same way whether or not it has a form.      *)
CspStatuses == {204}

HandlerStatuses(route) ==
    CASE route \in AuthRoutes   -> AuthStatuses(route)
      [] route \in HealthRoutes -> HealthStatuses(route)
      [] route = "csp-report"   -> CspStatuses
      [] route = "metrics"      -> {200}

(* Mutant: the filter gives a status to its own exceptions only.           *)
FilteredHttpOnly(isHttp, status) == IF isHttp THEN status ELSE 0

(* GlobalExceptionFilter: anything but an HttpException is a 500.          *)
Filtered(isHttp, status) == IF isHttp THEN status ELSE 500

(* ran: did the handler do its work?  trouble: is the answer about the     *)
(* state of the services rather than about the request?                    *)
Answer(status, ran, trouble) ==
    [status |-> status, ran |-> ran, trouble |-> trouble]

RequestsTo(route) ==
    [route : {route}, local : BOOLEAN, basicAuth : BOOLEAN, valid : BOOLEAN]

Admitted(r, mode) ==
    IF Refusal(r, mode) # Pass
    THEN {Answer(Filtered(TRUE, Refusal(r, mode)), FALSE, FALSE)}
    ELSE {Answer(s, s # 401, FALSE) : s \in HandlerStatuses(r.route)}

(* UserThrottlerGuard comes first, before anybody is authenticated.        *)
Throttled(route) ==
    IF Throttlers \subseteq Skipped(route) THEN {}
    ELSE {Answer(Filtered(TRUE, 429), FALSE, TRUE)}

(* An exception nobody expected, before or after the handler's work.       *)
Unexpected == {Answer(Filtered(FALSE, 0), ran, TRUE) : ran \in BOOLEAN}

BackendAnswers(route, mode) ==
    Throttled(route) \cup Unexpected
        \cup UNION {Admitted(r, mode) : r \in RequestsTo(route)}
=============================================================================
