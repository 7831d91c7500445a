---------------------------- MODULE DeployProofs ----------------------------
(***************************************************************************)
(* Safety of Deploy for any number of commits, any tags, any policy for    *)
(* choosing tags and any number of polls.                                  *)
(***************************************************************************)
EXTENDS Deploy, TLAPS

RunsTyped == run \in [Deployer -> Runs]

(* What the three ways of moving a run leave and change.                   *)
LEMMA FreshRuns ==
    ASSUME NEW l \in Label, NEW c \in 0 .. MaxCommit, NEW t \in Tag \cup {NoTag}
    PROVE  /\ NewRun(l, c, t) \in Runs
           /\ NewRun(l, c, t).pc = l
           /\ NewRun(l, c, t).sha = c
           /\ NewRun(l, c, t).tag = t
BY DeployAssumption DEF NewRun, Runs

LEMMA GotoMoves ==
    ASSUME RunsTyped, NEW d \in Deployer, NEW l \in Label, Goto(d, l)
    PROVE  /\ RunsTyped'
           /\ run'[d].pc = l
           /\ run'[d].sha = run[d].sha
           /\ run'[d].tag = run[d].tag
           /\ run'[d].img = run[d].img
           /\ \A e \in Deployer \ {d} : run'[e] = run[e]
<1>1. run' = [run EXCEPT ![d] = [run[d] EXCEPT !.pc = l, !.polls = 0]]
  BY DEF Goto, RunsTyped
<1>2. run[d] \in Runs
  BY DEF RunsTyped
<1>3. 0 \in 0 .. MaxPolls
  BY DeployAssumption
<1>4. [run[d] EXCEPT !.pc = l, !.polls = 0] \in Runs
  BY <1>2, <1>3 DEF Runs
<1> QED BY <1>1, <1>2, <1>4 DEF Runs, RunsTyped

LEMMA PolledMoves ==
    ASSUME RunsTyped, NEW d \in Deployer, run[d].polls < MaxPolls, Polled(d)
    PROVE  /\ RunsTyped'
           /\ run'[d].pc = run[d].pc
           /\ run'[d].sha = run[d].sha
           /\ run'[d].tag = run[d].tag
           /\ run'[d].img = run[d].img
           /\ \A e \in Deployer \ {d} : run'[e] = run[e]
<1>1. run' = [run EXCEPT ![d] = [run[d] EXCEPT !.polls = @ + 1]]
  BY DEF Polled, RunsTyped
<1>2. run[d] \in Runs
  BY DEF RunsTyped
<1>3. [run[d] EXCEPT !.polls = @ + 1] \in Runs
  BY <1>2, DeployAssumption DEF Runs
<1> QED BY <1>1, <1>2, <1>3 DEF Runs, RunsTyped

LEMMA Replacing ==
    ASSUME RunsTyped, NEW d \in Deployer, NEW r \in Runs, run' = [run EXCEPT ![d] = r]
    PROVE  /\ RunsTyped'
           /\ run'[d] = r
           /\ \A e \in Deployer \ {d} : run'[e] = run[e]
BY DEF RunsTyped

LEMMA BeginMoves ==
    ASSUME RunsTyped, NEW d \in Deployer, BeginUp(d)
    PROVE  /\ RunsTyped'
           /\ run'[d].pc = "create"
           /\ run'[d].waiting = Service
           /\ run'[d].sha = run[d].sha
           /\ run'[d].tag = run[d].tag
           /\ run'[d].img = run[d].img
           /\ \A e \in Deployer \ {d} : run'[e] = run[e]
<1>1. run' = [run EXCEPT ![d] = [run[d] EXCEPT !.pc = "create", !.waiting = Service]]
  BY DEF BeginUp, RunsTyped
<1>2. run[d] \in Runs
  BY DEF RunsTyped
<1>3. [run[d] EXCEPT !.pc = "create", !.waiting = Service] \in Runs
  BY <1>2 DEF Runs, Label
<1> QED BY <1>1, <1>2, <1>3 DEF Runs, RunsTyped

LEMMA DealtMoves ==
    ASSUME RunsTyped, NEW d \in Deployer, NEW s \in Service, NEW next \in Label,
           NEW rest \in SUBSET Service, DealtWith(d, s, next, rest)
    PROVE  /\ RunsTyped'
           /\ \/ /\ run[d].waiting \ {s} # {}
                 /\ run'[d].pc = run[d].pc
                 /\ run'[d].waiting = run[d].waiting \ {s}
              \/ /\ run[d].waiting \ {s} = {}
                 /\ run'[d].pc = next
                 /\ run'[d].waiting = rest
           /\ run'[d].sha = run[d].sha
           /\ run'[d].tag = run[d].tag
           /\ run'[d].img = run[d].img
           /\ \A e \in Deployer \ {d} : run'[e] = run[e]
<1> DEFINE left == run[d].waiting \ {s}
<1>1. run[d] \in Runs /\ left \in SUBSET Service
  BY DEF RunsTyped, Runs
<1>2. CASE left # {}
  <2>1. run' = [run EXCEPT ![d] = [run[d] EXCEPT !.waiting = left]]
    BY <1>2 DEF DealtWith, RunsTyped
  <2>2. [run[d] EXCEPT !.waiting = left] \in Runs
    BY <1>1 DEF Runs
  <2> QED BY <1>1, <1>2, <2>1, <2>2 DEF Runs, RunsTyped
<1>3. CASE left = {}
  <2>1. run' = [run EXCEPT ![d] = [run[d] EXCEPT !.pc = next, !.waiting = rest]]
    BY <1>3 DEF DealtWith, RunsTyped
  <2>2. [run[d] EXCEPT !.pc = next, !.waiting = rest] \in Runs
    BY <1>1 DEF Runs
  <2> QED BY <1>1, <1>3, <2>1, <2>2 DEF Runs, RunsTyped
<1> QED BY <1>2, <1>3

LEMMA AbortMoves ==
    ASSUME RunsTyped, NEW d \in Deployer, Abort(d)
    PROVE  /\ RunsTyped'
           /\ run'[d].pc = "failed"
           /\ run'[d].sha = run[d].sha
           /\ run'[d].tag = run[d].tag
           /\ run'[d].img = run[d].img
           /\ \A e \in Deployer \ {d} : run'[e] = run[e]
<1>1. run' = [run EXCEPT ![d] = [run[d] EXCEPT !.pc = "failed", !.waiting = {}]]
  BY DEF Abort, RunsTyped
<1>2. run[d] \in Runs
  BY DEF RunsTyped
<1>3. [run[d] EXCEPT !.pc = "failed", !.waiting = {}] \in Runs
  BY <1>2 DEF Runs, Label
<1> QED BY <1>1, <1>2, <1>3 DEF Runs, RunsTyped

(* up -d replaces a container or leaves all as they are.                   *)
LEMMA CreateMoves ==
    ASSUME TypeOK, NEW d \in Deployer, run[d].tag \in Tag, NEW s \in Service,
           CreateContainer(d, s)
    PROVE  /\ \/ /\ s \in Built
                 /\ container' = [container EXCEPT ![s] = images[run[d].tag]]
                 /\ health' = [health EXCEPT ![s] = "none"]
              \/ /\ s \in Built => container[s] = images[run[d].tag]
                 /\ UNCHANGED <<container, health>>
           /\ container' \in [Built -> 0 .. MaxCommit]
           /\ health' \in [Service -> {"none", "starting", "healthy", "unhealthy"}]
<1>1. images[run[d].tag] \in 0 .. MaxCommit
  BY DEF TypeOK
<1> QED BY <1>1 DEF TypeOK, CreateContainer, Outdated, Replace

(* The steps of Next, one by one.                                          *)
LEMMA Steps ==
    ASSUME Next
    PROVE  \/ Push
           \/ \E c \in Commit : CiSucceeds(c) \/ CiFails(c)
           \/ \E d \in Deployer :
                \/ Review(d) \/ FetchAndCheckout(d) \/ NextInGroup(d)
                \/ \E c \in Commit : OperatorCheckout(d, c)
                \/ \E t \in Tag \cup {NoTag} : OperatorStarts(d, t)
                \/ Checks(d) \/ ResolveImage(d) \/ RunMigrations(d)
                \/ BuildImages(d) \/ UpFails(d)
                \/ \E s \in Service : \/ CreateContainer(d, s)
                                     \/ StartService(d, s) \/ DependencyFails(d, s)
                \/ Verify(d) \/ Smoke(d)
           \/ \E s \in Service : HealthCheck(s)
BY DEF Next, Step, ScriptStep
-----------------------------------------------------------------------------
(* A run that got past the script's checks has a tag.                      *)
Tagged ==
    \A d \in Deployer :
       run[d].pc \in {"image", "migrate", "build", "create"} => run[d].tag \in Tag

TypeInv == TypeOK /\ Tagged

LEMMA TypeInit == Init => TypeInv
<1> SUFFICES ASSUME Init PROVE TypeInv
  OBVIOUS
<1>1. NewRun("idle", 0, NoTag) \in Runs /\ NewRun("idle", 0, NoTag).pc = "idle"
  BY FreshRuns, DeployAssumption DEF Label
<1>2. TypeOK
  BY <1>1, DeployAssumption DEF Init, TypeOK, Commit
<1>3. Tagged
  BY <1>1 DEF Init, Tagged
<1> QED BY <1>2, <1>3 DEF TypeInv

(* The steps that begin, queue and prepare a deployment.                   *)
LEMMA TypePrepares ==
    ASSUME TypeInv,
           \/ Push
           \/ \E c \in Commit : CiSucceeds(c) \/ CiFails(c)
           \/ \E d \in Deployer :
                \/ Review(d) \/ FetchAndCheckout(d) \/ NextInGroup(d) \/ Checks(d)
                \/ \E c \in Commit : OperatorCheckout(d, c)
                \/ \E t \in Tag \cup {NoTag} : OperatorStarts(d, t)
    PROVE  TypeInv'
<1> USE DeployAssumption DEF TypeInv, TypeOK, Commit
<1>0. RunsTyped
  BY DEF RunsTyped
<1>1. CASE Push
  BY <1>1 DEF Push, server, Tagged
<1>2. ASSUME NEW c \in Commit, CiSucceeds(c) PROVE TypeInv'
  <2>1. /\ NewRun("approval", main, NoTag) \in Runs
        /\ NewRun("approval", main, NoTag).pc = "approval"
    BY FreshRuns DEF Label
  <2>2. CASE Over("ci")
    <3>1. "ci" \in Deployer /\ run' = [run EXCEPT !["ci"] = NewRun("approval", main, NoTag)]
      BY <1>2, <2>2 DEF CiSucceeds
    <3>2. /\ RunsTyped'
          /\ run'["ci"].pc = "approval"
          /\ \A e \in Deployer \ {"ci"} : run'[e] = run[e]
      BY <1>0, <2>1, <3>1, Replacing
    <3>3. Tagged'
      BY <3>2 DEF Tagged
    <3>4. pending' = pending
      BY <1>2, <2>2 DEF CiSucceeds
    <3> QED BY <1>2, <3>2, <3>3, <3>4 DEF CiSucceeds, server, RunsTyped
  <2>3. CASE ~Over("ci")
    BY <1>2, <2>3 DEF CiSucceeds, server, Tagged
  <2> QED BY <2>2, <2>3
<1>3. ASSUME NEW c \in Commit, CiFails(c) PROVE TypeInv'
  BY <1>3 DEF CiFails, server, Tagged
<1>4. ASSUME NEW d \in Deployer, Review(d) PROVE TypeInv'
  <2>1. \E l \in {"fetch", "failed"} : Goto(d, l)
    BY <1>4 DEF Review
  <2>2. /\ RunsTyped'
        /\ run'[d].pc \in {"fetch", "failed"}
        /\ \A e \in Deployer \ {d} : run'[e] = run[e]
    BY <1>0, <2>1, GotoMoves DEF Label
  <2>3. TypeOK'
    BY <1>4, <2>2 DEF Review, github, server, RunsTyped
  <2>4. Tagged'
    BY <2>2 DEF Tagged
  <2> QED BY <2>3, <2>4
<1>5. ASSUME NEW d \in Deployer, FetchAndCheckout(d) PROVE TypeInv'
  <2>1. CASE main = run[d].sha
    <3> DEFINE r == [run[d] EXCEPT !.pc = "checks", !.tag = SessionTag]
    <3>1. run' = [run EXCEPT ![d] = r]
      BY <1>5, <2>1 DEF FetchAndCheckout
    <3>2. r \in Runs /\ r.pc = "checks"
      BY ZenonT(60) DEF Runs, Label
    <3>3. TypeOK'
      BY <1>5, <2>1, <3>1, <3>2 DEF FetchAndCheckout, github
    <3>4. Tagged'
      BY <3>1, <3>2 DEF Tagged
    <3> QED BY <3>3, <3>4
  <2>2. CASE main # run[d].sha
    <3>1. Goto(d, "failed")
      BY <1>5, <2>2 DEF FetchAndCheckout
    <3>2. /\ RunsTyped'
          /\ run'[d].pc = "failed"
          /\ \A e \in Deployer \ {d} : run'[e] = run[e]
      BY <1>0, <3>1, GotoMoves DEF Label
    <3>3. TypeOK'
      BY <1>5, <2>2, <3>2 DEF FetchAndCheckout, github, RunsTyped
    <3>4. Tagged'
      BY <3>2 DEF Tagged
    <3> QED BY <3>3, <3>4
  <2> QED BY <2>1, <2>2
<1>6. ASSUME NEW d \in Deployer, NextInGroup(d) PROVE TypeInv'
  <2>1. /\ NewRun("approval", pending, NoTag) \in Runs
        /\ NewRun("approval", pending, NoTag).pc = "approval"
    BY FreshRuns DEF Label
  <2>2. TypeOK'
    BY <1>6, <2>1 DEF NextInGroup, server
  <2>3. Tagged'
    BY <1>6, <2>1 DEF NextInGroup, Tagged
  <2> QED BY <2>2, <2>3
<1>7. ASSUME NEW d \in Deployer, NEW c \in Commit, OperatorCheckout(d, c) PROVE TypeInv'
  BY <1>7 DEF OperatorCheckout, github, Tagged
<1>8. ASSUME NEW d \in Deployer, NEW t \in Tag \cup {NoTag}, OperatorStarts(d, t)
      PROVE  TypeInv'
  <2>1. "checks" \in Label /\ tree \in 0 .. MaxCommit
    BY DEF Label
  <2>2. NewRun("checks", tree, t) \in Runs /\ NewRun("checks", tree, t).pc = "checks"
    BY <2>1, FreshRuns
  <2>3. TypeOK'
    BY <1>8, <2>2 DEF OperatorStarts, github, server
  <2>4. Tagged'
    BY <1>8, <2>2 DEF OperatorStarts, Tagged
  <2> QED BY <2>3, <2>4
<1>9. ASSUME NEW d \in Deployer, Checks(d) PROVE TypeInv'
  <2>1. \/ Goto(d, "image") /\ run[d].tag # NoTag
        \/ Goto(d, "failed")
    BY <1>9 DEF Checks
  <2>2. run[d].tag \in Tag \cup {NoTag}
    BY DEF Runs
  <2>3. /\ RunsTyped'
        /\ \/ run'[d].pc = "image" /\ run'[d].tag \in Tag
           \/ run'[d].pc = "failed"
        /\ \A e \in Deployer \ {d} : run'[e] = run[e]
    BY <1>0, <2>1, <2>2, GotoMoves DEF Label
  <2>4. TypeOK'
    BY <1>9, <2>3 DEF Checks, github, server, RunsTyped
  <2>5. Tagged'
    BY <2>3 DEF Tagged
  <2> QED BY <2>4, <2>5
<1> QED BY <1>1, <1>2, <1>3, <1>4, <1>5, <1>6, <1>7, <1>8, <1>9

(* The steps of the script that build, migrate and start, and what Docker  *)
(* does meanwhile.                                                         *)
LEMMA TypeDeploys ==
    ASSUME TypeInv,
           \/ \E d \in Deployer :
                \/ ResolveImage(d) \/ RunMigrations(d)
                \/ BuildImages(d) \/ UpFails(d)
                \/ \E s \in Service : \/ CreateContainer(d, s)
                                     \/ StartService(d, s) \/ DependencyFails(d, s)
                \/ Verify(d) \/ Smoke(d)
           \/ \E s \in Service : HealthCheck(s)
    PROVE  TypeInv'
<1> USE DeployAssumption DEF TypeInv, TypeOK, Commit
<1>0. RunsTyped
  BY DEF RunsTyped
<1>1. ASSUME NEW d \in Deployer, ResolveImage(d) PROVE TypeInv'
  <2> DEFINE t == run[d].tag
             c == IF images[t] = 0 THEN tree ELSE images[t]
             r == [run[d] EXCEPT !.pc = "migrate", !.img = c]
  <2>1. t \in Tag
    BY <1>1 DEF ResolveImage, At, Tagged
  <2>2. c \in 0 .. MaxCommit
    BY <2>1
  <2>3. r \in Runs /\ r.pc = "migrate" /\ r.tag = t
    <3>1. "migrate" \in Label /\ run[d] \in Runs
      BY DEF Label
    <3> QED BY <2>2, <3>1 DEF Runs
  <2>4. run' = [run EXCEPT ![d] = r]
    BY <1>1 DEF ResolveImage
  <2>5. TypeOK'
    <3>1. RunsTyped'
      BY <1>0, <2>3, <2>4, Replacing
    <3>2. images' \in [Tag -> 0 .. MaxCommit]
      BY <1>1, <2>1, <2>2 DEF ResolveImage
    <3> QED BY <1>1, <3>1, <3>2 DEF ResolveImage, github, RunsTyped
  <2>6. Tagged'
    BY <2>1, <2>3, <2>4 DEF Tagged
  <2> QED BY <2>5, <2>6
<1>2. ASSUME NEW d \in Deployer, RunMigrations(d) PROVE TypeInv'
  <2>1. run[d].tag \in Tag /\ run[d].img \in 0 .. MaxCommit
    BY <1>2 DEF RunMigrations, At, Tagged, Runs
  <2>2. \E l \in {"build", "failed"} : Goto(d, l)
    BY <1>2 DEF RunMigrations
  <2>3. /\ RunsTyped'
        /\ run'[d].tag = run[d].tag
        /\ \A e \in Deployer \ {d} : run'[e] = run[e]
    BY <1>0, <2>2, GotoMoves DEF Label
  <2>4. schema' \in 0 .. MaxCommit
    BY <1>2, <2>1 DEF RunMigrations, Later
  <2>5. TypeOK'
    BY <1>2, <2>3, <2>4 DEF RunMigrations, github, RunsTyped
  <2>6. Tagged'
    BY <2>1, <2>3 DEF Tagged
  <2> QED BY <2>5, <2>6
<1>3. ASSUME NEW d \in Deployer, BuildImages(d) PROVE TypeInv'
  <2>1. run[d].tag \in Tag
    BY <1>3 DEF BuildImages, At, Tagged
  <2>2. Goto(d, "failed") \/ BeginUp(d)
    BY <1>3 DEF BuildImages
  <2>3. /\ RunsTyped'
        /\ run'[d].tag = run[d].tag
        /\ \A e \in Deployer \ {d} : run'[e] = run[e]
    BY <1>0, <2>2, GotoMoves, BeginMoves DEF Label
  <2>4. images' \in [Tag -> 0 .. MaxCommit]
    BY <1>3, <2>1 DEF BuildImages
  <2>5. TypeOK'
    BY <1>3, <2>3, <2>4 DEF BuildImages, github, RunsTyped
  <2>6. Tagged'
    BY <2>1, <2>3 DEF Tagged
  <2> QED BY <2>5, <2>6
<1>4. ASSUME NEW d \in Deployer, NEW s \in Service, CreateContainer(d, s) PROVE TypeInv'
  <2>1. run[d].tag \in Tag
    BY <1>4 DEF CreateContainer, At, Tagged
  <2>2. DealtWith(d, s, "start", Service) /\ "start" \in Label
    BY <1>4 DEF CreateContainer, Label
  <2>3. /\ RunsTyped'
        /\ run'[d].tag = run[d].tag
        /\ \A e \in Deployer \ {d} : run'[e] = run[e]
    BY <1>0, <2>2, DealtMoves
  <2>4. TypeOK'
    BY <1>4, <2>1, <2>3, CreateMoves DEF CreateContainer, github, RunsTyped
  <2>5. Tagged'
    BY <2>1, <2>3 DEF Tagged
  <2> QED BY <2>4, <2>5
<1>5. ASSUME NEW d \in Deployer, NEW s \in Service, StartService(d, s) PROVE TypeInv'
  <2>1. run[d].pc = "start" /\ DealtWith(d, s, "verify", {}) /\ "verify" \in Label
    BY <1>5 DEF StartService, At, Label
  <2>2. /\ RunsTyped'
        /\ run'[d].pc \in {"start", "verify"}
        /\ \A e \in Deployer \ {d} : run'[e] = run[e]
    BY <1>0, <2>1, DealtMoves
  <2>3. health' \in [Service -> {"none", "starting", "healthy", "unhealthy"}]
    BY <1>5 DEF StartService
  <2>4. TypeOK'
    BY <1>5, <2>2, <2>3 DEF StartService, github, RunsTyped
  <2>5. Tagged'
    BY <2>2 DEF Tagged
  <2> QED BY <2>4, <2>5
<1>6. ASSUME NEW d \in Deployer,
             UpFails(d) \/ \E s \in Service : DependencyFails(d, s)
      PROVE  TypeInv'
  <2>1. Abort(d) /\ UNCHANGED <<github, tree, images, schema, container>>
    BY <1>6 DEF UpFails, DependencyFails, server
  <2>2. /\ RunsTyped'
        /\ run'[d].pc = "failed"
        /\ \A e \in Deployer \ {d} : run'[e] = run[e]
    BY <1>0, <2>1, AbortMoves
  <2>3. health' \in [Service -> {"none", "starting", "healthy", "unhealthy"}]
    BY <1>6 DEF UpFails, DependencyFails, server
  <2>4. TypeOK'
    BY <2>1, <2>2, <2>3 DEF github, RunsTyped
  <2>5. Tagged'
    BY <2>2 DEF Tagged
  <2> QED BY <2>4, <2>5
<1>7. ASSUME NEW d \in Deployer, Verify(d) \/ Smoke(d) PROVE TypeInv'
  <2>1. \/ run[d].polls < MaxPolls /\ Polled(d)
        \/ \E l \in {"smoke", "done", "failed"} : Goto(d, l)
    BY <1>7 DEF Verify, Smoke, AfterVerify, Runs
  <2>2. run[d].pc \in {"verify", "smoke"}
    BY <1>7 DEF Verify, Smoke, At
  <2>3. /\ RunsTyped'
        /\ run'[d].pc \in {"verify", "smoke", "done", "failed"}
        /\ \A e \in Deployer \ {d} : run'[e] = run[e]
    BY <1>0, <2>1, <2>2, GotoMoves, PolledMoves DEF Label
  <2>4. TypeOK'
    BY <1>7, <2>3 DEF Verify, Smoke, github, server, RunsTyped
  <2>5. Tagged'
    BY <2>3 DEF Tagged
  <2> QED BY <2>4, <2>5
<1>8. ASSUME NEW s \in Service, HealthCheck(s) PROVE TypeInv'
  <2>1. health' \in [Service -> {"none", "starting", "healthy", "unhealthy"}]
    BY <1>8 DEF HealthCheck, Verdicts
  <2>2. TypeOK'
    BY <1>8, <2>1 DEF HealthCheck, github
  <2>3. Tagged'
    BY <1>8 DEF HealthCheck, Tagged
  <2> QED BY <2>2, <2>3
<1> QED BY <1>1, <1>2, <1>3, <1>4, <1>5, <1>6, <1>7, <1>8

LEMMA TypeStep == TypeInv /\ [Next]_vars => TypeInv'
<1>1. ASSUME TypeInv, Next PROVE TypeInv'
  BY <1>1, Steps, TypePrepares, TypeDeploys
<1>2. ASSUME TypeInv, UNCHANGED vars PROVE TypeInv'
  BY <1>2 DEF TypeInv, TypeOK, Tagged, vars
<1> QED BY <1>1, <1>2

LEMMA TypeInvariance == Spec => []TypeInv
BY TypeInit, TypeStep, PTL DEF Spec

(* The state of a deployment stays within its type: no wait looks once     *)
(* more than it may, and nothing is built, migrated or started untagged.   *)
THEOREM TypeCorrect == Spec => []TypeOK
<1>1. TypeInv => TypeOK
  BY DEF TypeInv
<1> QED BY <1>1, TypeInvariance, PTL
-----------------------------------------------------------------------------
(* The operator deploys alone, and a tag never names two commits: what     *)
(* "export TAG=<sha> && make prod" (deploy-prod.sh) is meant to ensure.    *)
OneOperator == Deployer = {"operator"}

TagPerCommit ==
    \A c, e \in Commit : \A t \in TagsFor[c] \cap TagsFor[e] : t = NoTag \/ c = e

(* Under them the image that migrates is the image that is started, and    *)
(* its migrations are in the schema before it is.                          *)
ImagesMatch == \A t \in Tag : images[t] # 0 => t \in TagsFor[images[t]]

OperatorState(r) ==
    /\ r.pc \notin {"approval", "fetch", "smoke"}
    /\ r.pc \in {"checks", "image", "migrate", "build", "create"} => r.tag \in TagsFor[tree]
    /\ r.pc = "migrate" => r.img = tree
    /\ r.pc \in {"build", "create"} => tree <= schema
    /\ r.pc = "create" => images[r.tag] = tree

SchemaInv == ImagesMatch /\ OperatorState(run["operator"]) /\ SchemaReady

LEMMA SchemaInit ==
    ASSUME OneOperator, Init
    PROVE  SchemaInv
<1>1. run["operator"].pc = "idle"
  BY FreshRuns, DeployAssumption DEF Init, OneOperator, Label
<1>2. ImagesMatch /\ SchemaReady
  BY DEF Init, ImagesMatch, SchemaReady, Built
<1> QED BY <1>1, <1>2 DEF SchemaInv, OperatorState

LEMMA SchemaStep ==
    ASSUME OneOperator, TagPerCommit, TypeInv, SchemaInv, Next
    PROVE  SchemaInv'
<1> DEFINE op == "operator"
<1> USE DeployAssumption DEF OneOperator, TypeInv, TypeOK, Commit, SchemaInv
<1>0. op \in Deployer /\ RunsTyped /\ run[op] \in Runs
  BY DEF RunsTyped
<1> HIDE DEF op
<1>1. CASE UNCHANGED <<run, tree, images, schema, container>>
  BY <1>1 DEF ImagesMatch, OperatorState, SchemaReady
<1>2. CASE \/ Push
           \/ \E c \in Commit : CiSucceeds(c) \/ CiFails(c)
           \/ \E s \in Service : HealthCheck(s)
  <2>1. UNCHANGED <<run, tree, images, schema, container>>
    BY <1>2 DEF Push, CiSucceeds, CiFails, HealthCheck, server
  <2> QED BY <2>1, <1>1
<1>3. CASE Review(op) \/ FetchAndCheckout(op) \/ NextInGroup(op) \/ Smoke(op)
  BY <1>3 DEF Review, FetchAndCheckout, NextInGroup, Smoke, At, OperatorState, op
<1>4. ASSUME NEW c \in Commit, OperatorCheckout(op, c) PROVE SchemaInv'
  <2>1. run' = run /\ run[op].pc \in {"idle", "done", "failed"}
    BY <1>4 DEF OperatorCheckout, Over
  <2>2. OperatorState(run[op])'
    BY <2>1 DEF OperatorState
  <2> QED BY <1>4, <2>2 DEF OperatorCheckout, ImagesMatch, SchemaReady, op
<1>5. ASSUME NEW t \in Tag \cup {NoTag}, OperatorStarts(op, t) PROVE SchemaInv'
  <2>1. /\ NewRun("checks", tree, t).pc = "checks"
        /\ NewRun("checks", tree, t).tag = t
    BY FreshRuns DEF Label
  <2>2. run'[op] = NewRun("checks", tree, t) /\ t \in TagsFor[tree] /\ UNCHANGED server
    BY <1>0, <1>5 DEF OperatorStarts, RunsTyped
  <2>3. OperatorState(run[op])'
    BY <2>1, <2>2 DEF OperatorState, server
  <2> QED BY <2>2, <2>3 DEF server, ImagesMatch, SchemaReady, op
<1>6. ASSUME Checks(op) PROVE SchemaInv'
  <2>1. /\ run[op].pc = "checks"
        /\ run'[op].pc \in {"image", "failed"}
        /\ run'[op].tag = run[op].tag
        /\ UNCHANGED server
    BY <1>0, <1>6, GotoMoves DEF Checks, At, Label
  <2>2. OperatorState(run[op])'
    BY <2>1 DEF OperatorState, server, op
  <2> QED BY <2>1, <2>2 DEF server, ImagesMatch, SchemaReady, op
<1>7. ASSUME ResolveImage(op) PROVE SchemaInv'
  <2> DEFINE t == run[op].tag
             c == IF images[t] = 0 THEN tree ELSE images[t]
  <2>1. run[op].pc = "image" /\ t \in Tag /\ t \in TagsFor[tree]
    BY <1>0, <1>7 DEF ResolveImage, At, Tagged, OperatorState, op
  <2>2. c = tree
    <3>1. CASE images[t] # 0
      <4>1. images[t] \in Commit /\ t \in TagsFor[images[t]]
        BY <2>1, <3>1 DEF ImagesMatch
      <4>2. t # NoTag
        BY <2>1
      <4> QED BY <2>1, <3>1, <4>1, <4>2 DEF TagPerCommit
    <3> QED BY <3>1
  <2>3. /\ run'[op].pc = "migrate" /\ run'[op].tag = t /\ run'[op].img = tree
        /\ images' = [images EXCEPT ![t] = tree]
        /\ UNCHANGED <<tree, schema, container>>
    <3>1. run' = [run EXCEPT ![op] = [run[op] EXCEPT !.pc = "migrate", !.img = c]]
      BY <1>7 DEF ResolveImage
    <3>2. images' = [images EXCEPT ![t] = c] /\ UNCHANGED <<tree, schema, container>>
      BY <1>7 DEF ResolveImage
    <3> QED BY <1>0, <2>2, <3>1, <3>2 DEF Runs, RunsTyped
  <2>4. ImagesMatch'
    BY <2>1, <2>3 DEF ImagesMatch
  <2>5. OperatorState(run[op])'
    BY <2>1, <2>3 DEF OperatorState
  <2> QED BY <2>3, <2>4, <2>5 DEF SchemaReady, op
<1>8. ASSUME RunMigrations(op) PROVE SchemaInv'
  <2>1. run[op].pc = "migrate" /\ run[op].tag \in TagsFor[tree] /\ run[op].img = tree
    BY <1>8 DEF RunMigrations, At, OperatorState, op
  <2>2. UNCHANGED <<tree, images, container>>
    BY <1>8 DEF RunMigrations
  <2>3. /\ run'[op].tag = run[op].tag
        /\ \/ run'[op].pc = "build" /\ schema' = Later(schema, tree)
           \/ run'[op].pc = "failed" /\ schema' = schema
    BY <1>0, <1>8, <2>1, GotoMoves DEF RunMigrations, Label
  <2>4. schema <= schema' /\ (run'[op].pc = "build" => tree <= schema')
    BY <2>3 DEF Later
  <2>5. OperatorState(run[op])'
    BY <2>1, <2>2, <2>3, <2>4 DEF OperatorState
  <2>6. SchemaReady'
    <3>1. container["backend"] \in 0 .. MaxCommit /\ schema' \in Int
      BY <2>3 DEF Built, Later
    <3> QED BY <2>2, <2>4, <3>1 DEF SchemaReady
  <2> QED BY <2>2, <2>5, <2>6 DEF ImagesMatch, op
<1>9. ASSUME BuildImages(op) PROVE SchemaInv'
  <2> DEFINE t == run[op].tag
  <2>1. run[op].pc = "build" /\ t \in TagsFor[tree] /\ t \in Tag /\ tree <= schema
    BY <1>0, <1>9 DEF BuildImages, At, OperatorState, Tagged, op
  <2>2. UNCHANGED <<tree, schema, container>>
    BY <1>9 DEF BuildImages
  <2>3. /\ run'[op].tag = t
        /\ \/ run'[op].pc = "create" /\ images' = [images EXCEPT ![t] = tree]
           \/ run'[op].pc = "failed" /\ images' \in {images, [images EXCEPT ![t] = tree]}
    BY <1>0, <1>9, GotoMoves, BeginMoves DEF BuildImages, Label
  <2>4. ImagesMatch'
    BY <2>1, <2>2, <2>3 DEF ImagesMatch
  <2>5. OperatorState(run[op])'
    BY <2>1, <2>2, <2>3 DEF OperatorState
  <2> QED BY <2>2, <2>4, <2>5 DEF SchemaReady, op
<1>10. ASSUME NEW s \in Service, CreateContainer(op, s) PROVE SchemaInv'
  <2>1. /\ run[op].pc = "create" /\ run[op].tag \in Tag /\ run[op].tag \in TagsFor[tree]
        /\ images[run[op].tag] = tree /\ tree <= schema
    BY <1>0, <1>10 DEF CreateContainer, At, OperatorState, Tagged, op
  <2>2. run'[op].pc \in {"create", "start"} /\ run'[op].tag = run[op].tag
    BY <1>0, <1>10, <2>1, DealtMoves DEF CreateContainer, Label
  <2>3. UNCHANGED <<tree, images, schema>>
    BY <1>10 DEF CreateContainer
  <2>4. container'["backend"] \in {tree, container["backend"]}
    BY <1>0, <1>10, <2>1, CreateMoves DEF Built
  <2>5. OperatorState(run[op])'
    BY <2>1, <2>2, <2>3 DEF OperatorState
  <2>6. SchemaReady'
    BY <2>1, <2>3, <2>4 DEF SchemaReady
  <2> QED BY <2>3, <2>5, <2>6 DEF ImagesMatch, op
<1>11. ASSUME \/ UpFails(op)
              \/ \E s \in Service : StartService(op, s) \/ DependencyFails(op, s)
       PROVE  SchemaInv'
  <2>1. run'[op].pc \in {"start", "verify", "failed"}
    <3>1. CASE Abort(op)
      BY <1>0, <3>1, AbortMoves
    <3>2. ASSUME NEW s \in Service, StartService(op, s)
          PROVE  run'[op].pc \in {"start", "verify"}
      BY <1>0, <3>2, DealtMoves DEF StartService, At, Label
    <3> QED BY <1>11, <3>1, <3>2 DEF UpFails, DependencyFails
  <2>2. UNCHANGED <<tree, images, schema, container>>
    BY <1>11 DEF StartService, DependencyFails, UpFails, server
  <2>3. OperatorState(run[op])'
    BY <2>1 DEF OperatorState
  <2> QED BY <2>2, <2>3 DEF ImagesMatch, SchemaReady, op
<1>12. ASSUME Verify(op) PROVE SchemaInv'
  <2>1. \/ run[op].polls < MaxPolls /\ Polled(op)
        \/ Goto(op, "done")
    BY <1>12 DEF Verify, AfterVerify, op
  <2>2. run'[op].pc \in {"verify", "done"}
    BY <1>0, <1>12, <2>1, GotoMoves, PolledMoves DEF Verify, At, Label
  <2>3. OperatorState(run[op])'
    BY <2>2 DEF OperatorState
  <2> QED BY <1>12, <2>3 DEF Verify, server, ImagesMatch, SchemaReady, op
<1>13. \A d \in Deployer : d = op
  BY DEF op
<1> QED
  BY Steps, <1>2, <1>3, <1>4, <1>5, <1>6, <1>7, <1>8, <1>9, <1>10, <1>11, <1>12, <1>13

(* With one operator and a tag per commit no backend ever runs against a   *)
(* schema older than its code, whatever fails on the way, and whichever    *)
(* commits are deployed, again or back.                                    *)
THEOREM SchemaIsReady ==
    ASSUME OneOperator, TagPerCommit
    PROVE  Spec => []SchemaReady
<1> DEFINE Inv == TypeInv /\ SchemaInv
<1>1. Init => Inv
  BY SchemaInit, TypeInit
<1>2. Inv /\ [Next]_vars => Inv'
  <2>1. ASSUME Inv, Next PROVE Inv'
    BY <2>1, SchemaStep, TypeStep
  <2>2. ASSUME Inv, UNCHANGED vars PROVE SchemaInv'
    BY <2>2 DEF vars, SchemaInv, ImagesMatch, OperatorState, SchemaReady
  <2> QED BY <2>1, <2>2, TypeStep
<1>3. Inv => SchemaReady
  BY DEF SchemaInv
<1> QED BY <1>1, <1>2, <1>3, PTL DEF Spec
-----------------------------------------------------------------------------
(* One deployer has the server to itself: what it checked out is what it   *)
(* builds, what it built is what it starts, and no service is left behind. *)
Fetched(r) == r.pc \in {"checks", "image", "migrate", "build", "create"}

Created(r) == r.pc \in {"start", "verify", "smoke", "done"}

DeployerState(r) ==
    /\ Fetched(r) => tree = r.sha
    /\ r.pc = "create" => /\ images[r.tag] = r.sha
                          /\ \A s \in Built \ r.waiting : container[s] = r.sha
    /\ Created(r) => \A s \in Built : container[s] = r.sha
    /\ Created(r) => \A s \in Service : health[s] = "none" => r.pc = "start" /\ s \in r.waiting
    /\ r.pc = "start" => r.waiting # {}

LEMMA ConsistentStep ==
    ASSUME NEW d, Deployer = {d}, TypeInv, DeployerState(run[d]), Next
    PROVE  DeployerState(run[d])'
<1> USE DeployAssumption DEF TypeInv, TypeOK, Commit
<1>0. d \in Deployer /\ RunsTyped /\ run[d] \in Runs
  BY DEF RunsTyped
<1>1. CASE UNCHANGED <<run, tree, images, container>> /\ \A s \in Service : health'[s] = "none" => health[s] = "none"
  BY <1>1 DEF DeployerState, Fetched, Created, Service
<1>2. CASE Push \/ \E c \in Commit : CiFails(c)
  BY <1>1, <1>2 DEF Push, CiFails, server
<1>3. ASSUME NEW c \in Commit, CiSucceeds(c) PROVE DeployerState(run[d])'
  <2>1. CASE Over("ci")
    <3>1. d = "ci" /\ run' = [run EXCEPT ![d] = NewRun("approval", main, NoTag)]
      BY <1>3, <2>1 DEF CiSucceeds
    <3>2. run'[d].pc = "approval"
      BY <1>0, <3>1, FreshRuns DEF RunsTyped, Label
    <3> QED BY <3>2 DEF DeployerState, Fetched, Created
  <2>2. CASE ~Over("ci")
    BY <1>1, <1>3, <2>2 DEF CiSucceeds, server
  <2> QED BY <2>1, <2>2
<1>4. CASE Review(d)
  <2>1. run'[d].pc \in {"fetch", "failed"}
    BY <1>0, <1>4, GotoMoves DEF Review, Label
  <2> QED BY <2>1 DEF DeployerState, Fetched, Created
<1>5. CASE FetchAndCheckout(d)
  <2>1. \/ run'[d].pc = "checks" /\ run'[d].sha = run[d].sha /\ tree' = run[d].sha
        \/ run'[d].pc = "failed"
    <3>1. CASE Goto(d, "failed")
      BY <1>0, <3>1, GotoMoves DEF Label
    <3>2. CASE /\ run' = [run EXCEPT ![d] = [run[d] EXCEPT !.pc = "checks", !.tag = SessionTag]]
               /\ tree' = run[d].sha
      BY <1>0, <3>2 DEF Runs, RunsTyped
    <3> QED BY <1>5, <3>1, <3>2 DEF FetchAndCheckout
  <2> QED BY <2>1 DEF DeployerState, Fetched, Created
<1>6. CASE NextInGroup(d)
  <2>1. run'[d].pc = "approval"
    BY <1>0, <1>6, FreshRuns DEF NextInGroup, RunsTyped, Label
  <2> QED BY <2>1 DEF DeployerState, Fetched, Created
<1>7. ASSUME NEW c \in Commit, OperatorCheckout(d, c) PROVE DeployerState(run[d])'
  BY <1>7 DEF OperatorCheckout, Over, DeployerState, Fetched, Created
<1>8. ASSUME NEW t \in Tag \cup {NoTag}, OperatorStarts(d, t) PROVE DeployerState(run[d])'
  <2>1. run'[d].pc = "checks" /\ run'[d].sha = tree /\ tree' = tree
    BY <1>0, <1>8, FreshRuns DEF OperatorStarts, server, RunsTyped, Label
  <2> QED BY <2>1 DEF DeployerState, Fetched, Created
<1>9. CASE Checks(d)
  <2>1. run[d].pc = "checks" /\ run'[d].pc \in {"image", "failed"} /\ run'[d].sha = run[d].sha
    BY <1>0, <1>9, GotoMoves DEF Checks, At, Label
  <2> QED BY <1>9, <2>1 DEF Checks, server, DeployerState, Fetched, Created
<1>10. CASE ResolveImage(d)
  <2>1. run[d].pc = "image" /\ run'[d].pc = "migrate" /\ run'[d].sha = run[d].sha
    BY <1>0, <1>10 DEF ResolveImage, At, Runs, RunsTyped
  <2> QED BY <1>10, <2>1 DEF ResolveImage, DeployerState, Fetched, Created
<1>11. CASE RunMigrations(d)
  <2>1. run[d].pc = "migrate" /\ run'[d].pc \in {"build", "failed"} /\ run'[d].sha = run[d].sha
    BY <1>0, <1>11, GotoMoves DEF RunMigrations, At, Label
  <2> QED BY <1>11, <2>1 DEF RunMigrations, DeployerState, Fetched, Created
<1>12. CASE BuildImages(d)
  <2>1. /\ run[d].pc = "build" /\ run[d].tag \in Tag
        /\ run'[d].sha = run[d].sha /\ run'[d].tag = run[d].tag /\ tree' = tree
        /\ \/ /\ run'[d].pc = "create" /\ run'[d].waiting = Service
              /\ images' = [images EXCEPT ![run[d].tag] = tree]
           \/ run'[d].pc = "failed"
    BY <1>0, <1>12, GotoMoves, BeginMoves DEF BuildImages, At, Label, Tagged
  <2>2. Built \ Service = {}
    BY DEF Service
  <2> QED BY <2>1, <2>2 DEF DeployerState, Fetched, Created
<1>13. ASSUME NEW s \in Service, CreateContainer(d, s) PROVE DeployerState(run[d])'
  <2>1. /\ run[d].pc = "create" /\ run[d].tag \in Tag
        /\ images[run[d].tag] = run[d].sha /\ tree = run[d].sha
        /\ \A b \in Built \ run[d].waiting : container[b] = run[d].sha
    BY <1>0, <1>13 DEF CreateContainer, At, DeployerState, Fetched, Tagged
  <2>2. DealtWith(d, s, "start", Service) /\ "start" \in Label
    BY <1>13 DEF CreateContainer, Label
  <2>3. /\ run'[d].sha = run[d].sha /\ run'[d].tag = run[d].tag
        /\ \/ /\ run'[d].pc = "create"
              /\ run'[d].waiting = run[d].waiting \ {s}
           \/ /\ run[d].waiting \ {s} = {}
              /\ run'[d].pc = "start"
              /\ run'[d].waiting = Service
    BY <1>0, <2>1, <2>2, DealtMoves
  <2>4. \A b \in Built \ (run[d].waiting \ {s}) : container'[b] = run[d].sha
    <3>1. \/ s \in Built /\ container' = [container EXCEPT ![s] = run[d].sha]
          \/ container' = container /\ (s \in Built => container[s] = run[d].sha)
      BY <1>0, <1>13, <2>1, CreateMoves
    <3> QED BY <2>1, <3>1
  <2>5. UNCHANGED <<tree, images>>
    BY <1>13 DEF CreateContainer
  <2>6. CASE run'[d].pc = "create"
    BY <2>1, <2>3, <2>4, <2>5, <2>6 DEF DeployerState, Fetched, Created
  <2>7. CASE run'[d].pc = "start"
    <3>1. \A b \in Built : container'[b] = run[d].sha
      BY <2>1, <2>3, <2>4, <2>7
    <3>2. run'[d].waiting = Service /\ Service # {}
      BY <2>1, <2>3, <2>7 DEF Service
    <3> QED BY <2>3, <2>7, <3>1, <3>2 DEF DeployerState, Fetched, Created
  <2> QED BY <2>3, <2>6, <2>7
<1>14. ASSUME NEW s \in Service, StartService(d, s) PROVE DeployerState(run[d])'
  <2>1. run[d].pc = "start" /\ UNCHANGED container
    BY <1>14 DEF StartService, At
  <2>2. /\ run'[d].sha = run[d].sha
        /\ \/ /\ run'[d].pc = "start" /\ run'[d].waiting # {}
              /\ run'[d].waiting = run[d].waiting \ {s}
           \/ run'[d].pc = "verify" /\ run[d].waiting \ {s} = {}
    <3>1. DealtWith(d, s, "verify", {}) /\ "verify" \in Label
      BY <1>14 DEF StartService, Label
    <3> QED BY <1>0, <2>1, <3>1, DealtMoves
  <2>3. \A b \in Service : health'[b] = "none" => b \in run[d].waiting \ {s}
    <3>1. ASSUME NEW b \in Service, health'[b] = "none" PROVE b \in run[d].waiting \ {s}
      <4>1. health[b] = "none" /\ b # s
        BY <1>14, <3>1 DEF StartService
      <4>2. b \in run[d].waiting
        BY <2>1, <4>1 DEF DeployerState, Created
      <4> QED BY <4>1, <4>2
    <3> QED BY <3>1
  <2>4. CASE run'[d].pc = "start" /\ run'[d].waiting # {}
             /\ run'[d].waiting = run[d].waiting \ {s}
    BY <2>1, <2>2, <2>3, <2>4 DEF DeployerState, Fetched, Created
  <2>5. CASE run'[d].pc = "verify" /\ run[d].waiting \ {s} = {}
    BY <2>1, <2>2, <2>3, <2>5 DEF DeployerState, Fetched, Created
  <2> QED BY <2>2, <2>4, <2>5
<1>15. CASE UpFails(d) \/ \E s \in Service : DependencyFails(d, s)
  <2>1. run'[d].pc = "failed"
    BY <1>0, <1>15, AbortMoves DEF UpFails, DependencyFails
  <2> QED BY <2>1 DEF DeployerState, Fetched, Created
<1>16. CASE Verify(d) \/ Smoke(d)
  <2>1. \/ run[d].polls < MaxPolls /\ Polled(d)
        \/ \E l \in {"smoke", "done", "failed"} : Goto(d, l)
    BY <1>0, <1>16 DEF Verify, Smoke, AfterVerify, Runs
  <2>2. run[d].pc \in {"verify", "smoke"} /\ UNCHANGED server
    BY <1>16 DEF Verify, Smoke, At
  <2>3. run'[d].pc \in {"verify", "smoke", "done", "failed"} /\ run'[d].sha = run[d].sha
    BY <1>0, <2>1, <2>2, GotoMoves, PolledMoves DEF Label
  <2> QED BY <2>2, <2>3 DEF server, DeployerState, Fetched, Created
<1>17. ASSUME NEW s \in Service, HealthCheck(s) PROVE DeployerState(run[d])'
  <2>1. \A b \in Service : health'[b] = "none" => health[b] = "none"
    BY <1>17 DEF HealthCheck, Verdicts
  <2> QED BY <1>1, <1>17, <2>1 DEF HealthCheck
<1> QED
  BY Steps, <1>2, <1>3, <1>4, <1>5, <1>6, <1>7, <1>8, <1>9, <1>10, <1>11, <1>12,
     <1>13, <1>14, <1>15, <1>16, <1>17

LEMMA ConsistentInductive ==
    ASSUME NEW d, Deployer = {d}
    PROVE  /\ Init => TypeInv /\ DeployerState(run[d])
           /\ TypeInv /\ DeployerState(run[d]) /\ [Next]_vars
                 => (TypeInv /\ DeployerState(run[d]))'
<1>1. ASSUME Init PROVE TypeInv /\ DeployerState(run[d])
  <2>1. run[d].pc = "idle"
    BY <1>1, FreshRuns, DeployAssumption DEF Init, Label
  <2> QED BY <1>1, <2>1, TypeInit DEF DeployerState, Fetched, Created
<1>2. ASSUME TypeInv, DeployerState(run[d]), UNCHANGED vars PROVE DeployerState(run[d])'
  BY <1>2 DEF vars, DeployerState, Fetched, Created
<1> QED BY <1>1, <1>2, ConsistentStep, TypeStep

(* However tags are reused, a deployment that ended well has left every    *)
(* service up and on the commit it was started for, as long as nobody else *)
(* deploys at the same time.                                               *)
THEOREM DeploymentIsConsistent ==
    ASSUME NEW CONSTANT d, Deployer = {d}
    PROVE  Spec => []DeployedIsConsistent
<1> DEFINE Inv == TypeInv /\ DeployerState(run[d])
<1>1. Init => Inv
  BY ConsistentInductive
<1>2. Inv /\ [Next]_vars => Inv'
  BY ConsistentInductive
<1>3. Inv => DeployedIsConsistent
  BY DEF DeployedIsConsistent, DeployerState, Created, At, Service
<1> QED BY <1>1, <1>2, <1>3, PTL DEF Spec

(* What the workflow checks out is main's head of the moment, and what is  *)
(* in production was checked out before.                                   *)
Forward ==
    /\ tree <= main
    /\ \A s \in Built : container[s] <= tree

LEMMA ForwardStep ==
    ASSUME Deployer = {"ci"}, TypeInv, DeployerState(run["ci"]), Forward, Next
    PROVE  Forward' /\ \A s \in Built : container'[s] >= container[s]
<1> USE DeployAssumption DEF TypeInv, TypeOK, Commit
<1>0. \A s \in Built : container[s] \in 0 .. MaxCommit
  OBVIOUS
<1>1. CASE UNCHANGED <<tree, container>> /\ main' \in {main, main + 1}
  BY <1>0, <1>1 DEF Forward
<1>2. CASE \/ Push \/ \E c \in Commit : CiSucceeds(c) \/ CiFails(c)
           \/ \E s \in Service : HealthCheck(s)
  BY <1>1, <1>2 DEF Push, CiSucceeds, CiFails, HealthCheck, server, github
<1>3. CASE FetchAndCheckout("ci")
  <2>1. tree' \in {tree, main} /\ UNCHANGED <<main, container>>
    BY <1>3 DEF FetchAndCheckout, github
  <2> QED BY <1>0, <2>1 DEF Forward
<1>4. ASSUME NEW s \in Service, CreateContainer("ci", s)
      PROVE  Forward' /\ \A b \in Built : container'[b] >= container[b]
  <2>1. run["ci"].tag \in Tag /\ images[run["ci"].tag] = tree
    BY <1>4 DEF CreateContainer, At, DeployerState, Fetched, Tagged
  <2>2. \A b \in Built : container'[b] \in {container[b], tree}
    BY <1>4, <2>1, CreateMoves
  <2>3. UNCHANGED <<main, tree>>
    BY <1>4 DEF CreateContainer, github
  <2> QED BY <1>0, <2>2, <2>3 DEF Forward
<1>5. CASE \/ Review("ci") \/ NextInGroup("ci") \/ Checks("ci") \/ ResolveImage("ci")
           \/ RunMigrations("ci") \/ BuildImages("ci") \/ Verify("ci") \/ Smoke("ci")
           \/ UpFails("ci")
           \/ \E s \in Service : StartService("ci", s) \/ DependencyFails("ci", s)
  BY <1>1, <1>5 DEF Review, NextInGroup, Checks, ResolveImage, RunMigrations,
     BuildImages, Verify, Smoke, UpFails, StartService, DependencyFails, github, server
<1>6. ~ \E c \in Commit : OperatorCheckout("ci", c)
  BY DEF OperatorCheckout
<1>7. ~ \E t \in Tag \cup {NoTag} : OperatorStarts("ci", t)
  BY DEF OperatorStarts
<1> QED BY Steps, <1>2, <1>3, <1>4, <1>5, <1>6, <1>7

(* The workflow's runs never put an older commit in production than the    *)
(* one they find there, in whatever order they are approved.               *)
THEOREM WorkflowNeverGoesBack ==
    ASSUME Deployer = {"ci"}
    PROVE  Spec => NeverBackwards
<1> DEFINE Inv == TypeInv /\ DeployerState(run["ci"]) /\ Forward
<1> USE DeployAssumption
<1>1. Init => Forward
  BY DEF Init, Forward, Built
<1>2. ASSUME TypeInv, DeployerState(run["ci"]), Forward, Next
      PROVE  Forward' /\ \A s \in Built : container'[s] >= container[s]
  BY <1>2, ForwardStep
<1>3. Init => Inv
  BY <1>1, ConsistentInductive
<1>4. Inv /\ [Next]_vars => Inv'
  <2>1. ASSUME Forward, UNCHANGED vars PROVE Forward'
    BY <2>1 DEF Forward, vars
  <2> QED BY <1>2, <2>1, ConsistentInductive
<1>5. Inv /\ [Next]_vars => [\A s \in Built : container'[s] >= container[s]]_container
  BY <1>2 DEF vars
<1> QED BY <1>3, <1>4, <1>5, PTL DEF Spec, NeverBackwards
-----------------------------------------------------------------------------
(* A deployer that has the server to itself never waits in vain, whatever  *)
(* earlier deployments left behind half way: every container up -d waits   *)
(* for has been started, so that its health check can end the wait.        *)
THEOREM UpNeverWaitsInVain ==
    ASSUME NEW CONSTANT d, Deployer = {d}
    PROVE  Spec => []UpCanProceed
<1> DEFINE Inv == TypeInv /\ DeployerState(run[d])
<1>1. Init => Inv
  BY ConsistentInductive
<1>2. Inv /\ [Next]_vars => Inv'
  BY ConsistentInductive
<1>3. Inv => UpCanProceed
  <2> SUFFICES ASSUME Inv, run[d].pc = "start"
               PROVE  /\ run[d].waiting # {}
                      /\ \A s \in run[d].waiting : \A n \in Needs(s) \ run[d].waiting :
                            health[n] # "none"
    BY DEF UpCanProceed, At
  <2>1. \A n \in Service : health[n] = "none" => n \in run[d].waiting
    BY DEF DeployerState, Created
  <2>2. \A s : Needs(s) \subseteq Service
    BY DEF Needs, FrontendNeeds, ReportsNeeds, Service, Built
  <2> QED BY <2>1, <2>2 DEF DeployerState
<1> QED BY <1>1, <1>2, <1>3, PTL DEF Spec
=============================================================================
