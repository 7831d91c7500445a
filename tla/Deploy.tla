------------------------------- MODULE Deploy -------------------------------
(***************************************************************************)
(* Deployment to production: the GitHub workflow that follows a successful *)
(* CI run (.github/workflows/deploy.yml), an operator running make prod,     *)
(* the script both end in (scripts/deploy-prod.sh), and the compose stack  *)
(* it brings up (docker-compose.yml, docker-compose.prod.yml).             *)
(*                                                                         *)
(* The two deployers share one server: one checkout, one set of image      *)
(* tags, one database schema, one set of containers.  A deployer takes one *)
(* action per command of the script that reads or writes any of them.      *)
(*                                                                         *)
(* Commits are numbered in the order in which main received them; the      *)
(* migrations of a commit bring the schema to the commit's number.         *)
(***************************************************************************)
EXTENDS Integers, FiniteSets

CONSTANTS MaxCommit,   \* bound: commits main may receive
          Deployer,    \* who deploys: "ci", "operator", or both
          Tag,         \* image tags
          NoTag,       \* TAG is not set
          SessionTag,  \* TAG in the environment of the workflow's SSH session
          TagsFor,     \* tags the operator may export to deploy a commit
          MaxPolls     \* bound: polls of a waiting loop before it gives up

Commit == 1 .. MaxCommit

ASSUME DeployAssumption ==
    /\ MaxCommit \in Nat \ {0}
    /\ Deployer \subseteq {"ci", "operator"}
    /\ NoTag \notin Tag
    /\ SessionTag \in Tag \cup {NoTag}
    /\ TagsFor \in [Commit -> SUBSET (Tag \cup {NoTag})]
    /\ MaxPolls \in Nat \ {0}

VARIABLES main,     \* head of origin/main
          passed,   \* commits on which the CI workflow has succeeded
          pending,  \* github.sha of the workflow run waiting for the group, or 0
          run,      \* what each deployer is doing
          tree,     \* commit checked out in the deployment directory
          images,   \* commit the images of each tag were built from, 0 if none
          schema,   \* commit whose migrations were applied last, 0 if none
          container, \* commit of each built service's container, 0 if none
          health    \* State.Health.Status of a started container, or "none"

vars == <<main, passed, pending, run, tree, images, schema, container, health>>
github == <<main, passed, pending>>
server == <<tree, images, schema, container, health>>
-----------------------------------------------------------------------------
Dependents == {"frontend", "reports-api"}
Built == {"backend"} \cup Dependents
Service == Built \cup {"redis"}

(* depends_on with condition: service_healthy                              *)
FrontendNeeds == {"backend"}
ReportsNeeds == {"backend", "redis"}

Needs(s) ==
    CASE s = "frontend"    -> FrontendNeeds
      [] s = "reports-api" -> ReportsNeeds
      [] OTHER             -> {}

Label == {"idle", "approval", "fetch", "checks", "image", "migrate", "build",
          "create", "start", "verify", "smoke", "done", "failed"}

Runs == [pc : Label,
         sha : 0 .. MaxCommit,          \* github.sha, or the operator's checkout
         tag : Tag \cup {NoTag},
         img : 0 .. MaxCommit,          \* image the migrations run from
         waiting : SUBSET Service,      \* services up -d has yet to deal with
         polls : 0 .. MaxPolls]

At(d, label) == run[d].pc = label

Over(d) == run[d].pc \in {"idle", "done", "failed"}

NewRun(label, c, t) ==
    [pc |-> label, sha |-> c, tag |-> t, img |-> 0, waiting |-> {}, polls |-> 0]

Goto(d, label) == run' = [run EXCEPT ![d].pc = label, ![d].polls = 0]

Later(x, y) == IF x > y THEN x ELSE y

(* What the health check of a service can report.  GET /health/ready of    *)
(* reports-api calls engine.text, which does not exist: always 503.        *)
Verdicts(s) == IF s = "reports-api" THEN {"unhealthy"} ELSE {"healthy", "unhealthy"}
-----------------------------------------------------------------------------
Init ==
    /\ main = 1
    /\ passed = {}
    /\ pending = 0
    /\ run = [d \in Deployer |-> NewRun("idle", 0, NoTag)]
    /\ tree = 1
    /\ images = [t \in Tag |-> 0]
    /\ schema = 0
    /\ container = [s \in Built |-> 0]
    /\ health = [s \in Service |-> "none"]

Push ==
    /\ main < MaxCommit
    /\ main' = main + 1
    /\ UNCHANGED <<passed, pending, run, server>>

(* CI succeeds on c, which triggers the workflow: github.sha is the head   *)
(* of main at that moment.  The concurrency group holds one run in         *)
(* progress and one waiting, the latest.                                   *)
CiSucceeds(c) ==
    /\ "ci" \in Deployer
    /\ c <= main /\ c \notin passed
    /\ passed' = passed \cup {c}
    /\ IF Over("ci")
          THEN /\ run' = [run EXCEPT !["ci"] = NewRun("approval", main, NoTag)]
               /\ UNCHANGED pending
          ELSE /\ pending' = main
               /\ UNCHANGED run
    /\ UNCHANGED <<main, server>>

(* CI fails on c.  Its workflow run only skips its job, but takes the place *)
(* of the run that waits for the group.                                    *)
CiFails(c) ==
    /\ "ci" \in Deployer
    /\ c <= main /\ c \notin passed
    /\ ~Over("ci") /\ pending # 0
    /\ pending' = 0
    /\ UNCHANGED <<main, passed, run, server>>

(* The environment's reviewers let the run start, or reject it.            *)
Review(d) ==
    /\ At(d, "approval")
    /\ Goto(d, "fetch") \/ Goto(d, "failed")
    /\ UNCHANGED <<github, server>>

(* Mutant: the head of main is not compared with github.sha.               *)
FetchAndCheckoutUnverified(d) ==
    /\ At(d, "fetch")
    /\ tree' = run[d].sha
    /\ run' = [run EXCEPT ![d].pc = "checks", ![d].tag = SessionTag]
    /\ UNCHANGED <<github, images, schema, container, health>>

(* git fetch; origin/main must still be github.sha; check it out.          *)
FetchAndCheckout(d) ==
    /\ At(d, "fetch")
    /\ \/ /\ main = run[d].sha
          /\ tree' = run[d].sha
          /\ run' = [run EXCEPT ![d].pc = "checks", ![d].tag = SessionTag]
       \/ /\ main # run[d].sha
          /\ Goto(d, "failed")
          /\ UNCHANGED tree
    /\ UNCHANGED <<github, images, schema, container, health>>

(* The run that waited for the group takes its turn.                       *)
NextInGroup(d) ==
    /\ d = "ci" /\ Over(d) /\ pending # 0
    /\ run' = [run EXCEPT ![d] = NewRun("approval", pending, NoTag)]
    /\ pending' = 0
    /\ UNCHANGED <<main, passed, server>>

(* The operator checks out a commit of main, between deployments.          *)
OperatorCheckout(d, c) ==
    /\ d = "operator" /\ Over(d)
    /\ c <= main /\ c # tree
    /\ tree' = c
    /\ UNCHANGED <<github, run, images, schema, container, health>>

(* export TAG=t && make prod                                               *)
OperatorStarts(d, t) ==
    /\ d = "operator" /\ Over(d)
    /\ t \in TagsFor[tree]
    /\ run' = [run EXCEPT ![d] = NewRun("checks", tree, t)]
    /\ UNCHANGED <<github, server>>

(* secrets-check, ready-check and sections 1 to 4 of the script, which     *)
(* change nothing a deployment depends on; without TAG they always fail.   *)
Checks(d) ==
    /\ At(d, "checks")
    /\ \/ run[d].tag # NoTag /\ Goto(d, "image")
       \/ Goto(d, "failed")
    /\ UNCHANGED <<github, server>>

(* docker compose run backend: the image of the tag, built if missing.     *)
ResolveImage(d) ==
    LET t == run[d].tag
        c == IF images[t] = 0 THEN tree ELSE images[t]
    IN
    /\ At(d, "image")
    /\ images' = [images EXCEPT ![t] = c]
    /\ run' = [run EXCEPT ![d].pc = "migrate", ![d].img = c]
    /\ UNCHANGED <<github, tree, schema, container, health>>

(* Mutant: a failed migration does not abort the deployment.               *)
RunMigrationsTolerantly(d) ==
    /\ At(d, "migrate")
    /\ schema' \in {schema, Later(schema, run[d].img)}
    /\ Goto(d, "build")
    /\ UNCHANGED <<github, tree, images, container, health>>

(* typeorm migration:run of that image; a failure aborts the deployment.   *)
RunMigrations(d) ==
    /\ At(d, "migrate")
    /\ \/ schema' = Later(schema, run[d].img) /\ Goto(d, "build")
       \/ Goto(d, "failed") /\ UNCHANGED schema
    /\ UNCHANGED <<github, tree, images, container, health>>

BeginUp(d) == run' = [run EXCEPT ![d].pc = "create", ![d].waiting = Service]

(* Mutant: a failed build does not abort the deployment.                   *)
BuildImagesTolerantly(d) ==
    /\ At(d, "build")
    /\ images' \in {images, [images EXCEPT ![run[d].tag] = tree]}
    /\ BeginUp(d)
    /\ UNCHANGED <<github, tree, schema, container, health>>

(* up -d --build: the images of the tag are built from the checkout.  When *)
(* a build fails the backend's image may have been built already.          *)
BuildImages(d) ==
    LET built == [images EXCEPT ![run[d].tag] = tree] IN
    /\ At(d, "build")
    /\ \/ images' = built /\ BeginUp(d)
       \/ images' \in {images, built} /\ Goto(d, "failed")
    /\ UNCHANGED <<github, tree, schema, container, health>>

(* up -d goes through the services twice, dependencies first: to create    *)
(* their containers, then to start them.                                   *)
Turn(d, s) == s \in run[d].waiting /\ Needs(s) \cap run[d].waiting = {}

DealtWith(d, s, next, rest) ==
    LET left == run[d].waiting \ {s} IN
    run' = IF left # {}
              THEN [run EXCEPT ![d].waiting = left]
              ELSE [run EXCEPT ![d].pc = next, ![d].waiting = rest]

Outdated(d, s) == s \in Built /\ container[s] # images[run[d].tag]

Replace(d, s) ==
    /\ container' = [container EXCEPT ![s] = images[run[d].tag]]
    /\ health' = [health EXCEPT ![s] = "none"]

(* Mutant: only the backend's container is recreated.                      *)
CreateContainerOfBackend(d, s) ==
    /\ At(d, "create") /\ Turn(d, s)
    /\ \/ Outdated(d, s) /\ s = "backend" /\ Replace(d, s)
       \/ ~(Outdated(d, s) /\ s = "backend") /\ UNCHANGED <<container, health>>
    /\ DealtWith(d, s, "start", Service)
    /\ UNCHANGED <<github, tree, images, schema>>

(* Mutant: containers are recreated in whatever order.                     *)
CreateContainerAnyOrder(d, s) ==
    /\ At(d, "create") /\ s \in run[d].waiting
    /\ \/ Outdated(d, s) /\ Replace(d, s)
       \/ ~Outdated(d, s) /\ UNCHANGED <<container, health>>
    /\ DealtWith(d, s, "start", Service)
    /\ UNCHANGED <<github, tree, images, schema>>

(* Mutant: up -d of the built services alone, without the cache.           *)
CreateContainerNoCache(d, s) ==
    /\ At(d, "create") /\ Turn(d, s)
    /\ \/ Outdated(d, s) /\ Replace(d, s)
       \/ ~Outdated(d, s) /\ UNCHANGED <<container, health>>
    /\ DealtWith(d, s, "start", Built)
    /\ UNCHANGED <<github, tree, images, schema>>

(* A container whose image has changed is stopped and removed; its         *)
(* successor is created, and started when all have been created.           *)
CreateContainer(d, s) ==
    /\ At(d, "create") /\ Turn(d, s)
    /\ \/ Outdated(d, s) /\ Replace(d, s)
       \/ ~Outdated(d, s) /\ UNCHANGED <<container, health>>
    /\ DealtWith(d, s, "start", Service)
    /\ UNCHANGED <<github, tree, images, schema>>

(* A service is started once everything it needs is healthy ...            *)
StartService(d, s) ==
    /\ At(d, "start") /\ Turn(d, s)
    /\ \A n \in Needs(s) : health[n] = "healthy"
    /\ health' = [health EXCEPT ![s] = IF @ = "none" THEN "starting" ELSE @]
    /\ DealtWith(d, s, "verify", {})
    /\ UNCHANGED <<github, tree, images, schema, container>>

Abort(d) == run' = [run EXCEPT ![d].pc = "failed", ![d].waiting = {}]

(* ... and up -d fails, and the script with it (set -e), when a dependency *)
(* is unhealthy or no longer there: the service stays as it was created.   *)
DependencyFails(d, s) ==
    /\ At(d, "start") /\ Turn(d, s)
    /\ \E n \in Needs(s) : health[n] \in {"unhealthy", "none"}
    /\ Abort(d)
    /\ UNCHANGED <<github, server>>

(* up -d may fail between any two services, or having stopped a container  *)
(* and not replaced it.                                                    *)
UpFails(d) ==
    /\ At(d, "create") \/ At(d, "start")
    /\ \/ UNCHANGED health
       \/ \E s \in Built : /\ At(d, "create") /\ Turn(d, s) /\ Outdated(d, s)
                           /\ health' = [health EXCEPT ![s] = "none"]
    /\ Abort(d)
    /\ UNCHANGED <<github, tree, images, schema, container>>
-----------------------------------------------------------------------------
(* grep -c "healthy" over the states of the project's containers: it also  *)
(* counts the lines that say unhealthy.                                    *)
GrepHealthy == Cardinality({s \in Service : health[s] \in {"healthy", "unhealthy"}})

(* After verification the script has succeeded, whatever it saw; the       *)
(* workflow goes on to look at the containers itself.                      *)
AfterVerify(d) == IF d = "ci" THEN "smoke" ELSE "done"

Polled(d) == run' = [run EXCEPT ![d].polls = @ + 1]

(* Mutant: one look too many.                                              *)
VerifyOnceMore(d) ==
    /\ At(d, "verify")
    /\ IF run[d].polls <= MaxPolls /\ GrepHealthy < 3
          THEN Polled(d)
          ELSE Goto(d, AfterVerify(d))
    /\ UNCHANGED <<github, server>>

(* The script looks for three healthy lines, at most MaxPolls times.       *)
Verify(d) ==
    /\ At(d, "verify")
    /\ IF run[d].polls < MaxPolls /\ GrepHealthy < 3
          THEN Polled(d)
          ELSE Goto(d, AfterVerify(d))
    /\ UNCHANGED <<github, server>>

AllHealthy == \A s \in Built : health[s] = "healthy"

(* Mutant: the workflow's loop never gives up.                             *)
SmokeForever(d) ==
    /\ At(d, "smoke")
    /\ \/ AllHealthy /\ Goto(d, "done")
       \/ ~AllHealthy /\ UNCHANGED run
    /\ UNCHANGED <<github, server>>

(* The workflow's loop: all three healthy, or at its last look at least    *)
(* the backend.                                                            *)
Smoke(d) ==
    /\ At(d, "smoke")
    /\ \/ AllHealthy /\ Goto(d, "done")
       \/ ~AllHealthy /\ run[d].polls + 1 < MaxPolls /\ Polled(d)
       \/ /\ ~AllHealthy /\ run[d].polls + 1 = MaxPolls
          /\ Goto(d, IF health["backend"] = "healthy" THEN "done" ELSE "failed")
    /\ UNCHANGED <<github, server>>

(* Docker runs the health check of a started container.                    *)
HealthCheck(s) ==
    /\ health[s] # "none"
    /\ \E v \in Verdicts(s) : health[s] # v /\ health' = [health EXCEPT ![s] = v]
    /\ UNCHANGED <<github, run, tree, images, schema, container>>
-----------------------------------------------------------------------------
ScriptStep(d) ==
    \/ FetchAndCheckout(d) \/ Checks(d) \/ ResolveImage(d) \/ RunMigrations(d)
    \/ BuildImages(d)
    \/ \E s \in Service : \/ CreateContainer(d, s)
                         \/ StartService(d, s) \/ DependencyFails(d, s)
    \/ Verify(d) \/ Smoke(d)

Step(d) ==
    \/ ScriptStep(d) \/ UpFails(d) \/ Review(d) \/ NextInGroup(d)
    \/ \E c \in Commit : OperatorCheckout(d, c)
    \/ \E t \in Tag \cup {NoTag} : OperatorStarts(d, t)

Next ==
    \/ Push
    \/ \E c \in Commit : CiSucceeds(c) \/ CiFails(c)
    \/ \E d \in Deployer : Step(d)
    \/ \E s \in Service : HealthCheck(s)

Spec == Init /\ [][Next]_vars

(* The script's commands end, and a starting container gets its verdict.   *)
FairSpec ==
    /\ Spec
    /\ \A d \in Deployer : WF_vars(ScriptStep(d))
    /\ \A s \in Service : WF_vars(health[s] = "starting" /\ HealthCheck(s))
-----------------------------------------------------------------------------
TypeOK ==
    /\ main \in Commit
    /\ passed \subseteq Commit
    /\ pending \in 0 .. MaxCommit
    /\ run \in [Deployer -> Runs]
    /\ tree \in Commit
    /\ images \in [Tag -> 0 .. MaxCommit]
    /\ schema \in 0 .. MaxCommit
    /\ container \in [Built -> 0 .. MaxCommit]
    /\ health \in [Service -> {"none", "starting", "healthy", "unhealthy"}]

(* The database has the migrations of the code that runs against it: they  *)
(* are applied before the containers come up (deploy-prod.sh 5b), from the *)
(* image that section 6 is going to start.                                 *)
SchemaReady == container["backend"] <= schema

(* A deployment that ended well has left every service up, on the commit   *)
(* it was started for, though images are named by tags that may be reused. *)
DeployedIsConsistent ==
    \A d \in Deployer : At(d, "done") =>
        \A s \in Built : container[s] = run[d].sha /\ health[s] # "none"

(* Workflow runs wait for the group, for approval and for each other while *)
(* main moves on, yet none of them ever puts an older commit in production *)
(* than the one it finds there.                                            *)
NeverBackwards == [][\A s \in Built : container'[s] >= container[s]]_container

(* When up -d waits for a service to get healthy it has started it, so     *)
(* that its health check comes to a verdict, however earlier deployments   *)
(* stopped half way through; and up -d never waits for nothing.            *)
UpCanProceed ==
    \A d \in Deployer : At(d, "start") =>
        /\ run[d].waiting # {}
        /\ \A s \in run[d].waiting : \A n \in Needs(s) \ run[d].waiting :
              health[n] # "none"

(* What the deployments amount to: services go from commit to commit of    *)
(* main.  A deployer has announced a commit once its run is done.          *)
Announced == [d \in Deployer |-> IF At(d, "done") THEN run[d].sha ELSE 0]

BuiltNeeds == [s \in Built |-> Needs(s) \cap Built]

Started == {s \in Built : health[s] # "none"}

Workflow == INSTANCE Production WITH
    Services <- Built, Deployers <- Deployer, DependsOn <- BuiltNeeds,
    ForwardOnly <- TRUE, SchemaFirst <- FALSE,
    head <- main, db <- schema, installed <- container, up <- Started,
    announced <- Announced

(* The workflow's runs fail, between two services too, wait for each other *)
(* and meet images and half-done releases left by earlier ones, yet every  *)
(* service only ever moves forward, a service after those it depends on,   *)
(* and what a successful run announces is what all of them run.            *)
WorkflowImplementsProduction == Workflow!ProductionSpec

Operator == INSTANCE Production WITH
    Services <- Built, Deployers <- Deployer, DependsOn <- BuiltNeeds,
    ForwardOnly <- FALSE, SchemaFirst <- TRUE,
    head <- main, db <- schema, installed <- container, up <- Started,
    announced <- Announced

(* An operator may go back to an earlier commit, and with a tag per commit *)
(* no service is released before its commit's migrations.                  *)
OperatorImplementsProduction == Operator!ProductionSpec

(* A deployment that has started ends: every wait of the script and of the *)
(* workflow is bounded, and up -d waits for verdicts that come.            *)
DeploymentEnds ==
    \A d \in Deployer : (~Over(d) /\ ~At(d, "approval")) ~> Over(d)

(* The workflow deploys only commits on which CI has succeeded (deploy.yml, *)
(* the condition of the job): it checks out github.sha, whatever commit    *)
(* the CI run was about.                                                   *)
DeployedPassedCi ==
    \A d \in Deployer \cap {"ci"} : At(d, "checks") => run[d].sha \in passed

(* When the script reports that all services are healthy, they are.        *)
ReportedHealthyIsHealthy ==
    [][\A d \in Deployer :
          At(d, "verify") /\ run'[d].pc # "verify" /\ run[d].polls < MaxPolls
             => AllHealthy]_run
=============================================================================
