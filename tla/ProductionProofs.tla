-------------------------- MODULE ProductionProofs --------------------------
(***************************************************************************)
(* Deploy implements Production: for the workflow alone with services that *)
(* only go forward, for one operator with the database always first.       *)
(***************************************************************************)
EXTENDS DeployProofs

(* Everything that is built, migrated or released comes from main.         *)
OfMain(r) ==
    /\ r.img <= main
    /\ r.pc # "idle" => r.sha \in 1 .. main

FromMain ==
    /\ tree <= main /\ pending <= main
    /\ \A t \in Tag : images[t] <= main
    /\ \A s \in Built : container[s] <= main
    /\ \A d \in Deployer : OfMain(run[d])

LEMMA FromMainInit == Init => FromMain
BY FreshRuns, DeployAssumption DEF Init, FromMain, OfMain, NewRun

(* A step that changes at most the run of d, to one whose commit is of     *)
(* main or the one it had.                                                 *)
LEMMA FromMainRun ==
    ASSUME TypeInv, FromMain, NEW d \in Deployer, UNCHANGED main,
           \A e \in Deployer \ {d} : run'[e] = run[e],
           \/ run'[d].sha = run[d].sha /\ run[d].pc # "idle"
           \/ run'[d].sha \in 1 .. main,
           run'[d].img <= main
    PROVE  \A e \in Deployer : OfMain(run[e])'
BY DEF FromMain, OfMain

LEMMA FromMainPrepares ==
    ASSUME TypeInv, FromMain,
           \/ Push
           \/ \E c \in Commit : CiSucceeds(c) \/ CiFails(c)
           \/ \E d \in Deployer :
                \/ Review(d) \/ FetchAndCheckout(d) \/ NextInGroup(d) \/ Checks(d)
                \/ \E c \in Commit : OperatorCheckout(d, c)
                \/ \E t \in Tag \cup {NoTag} : OperatorStarts(d, t)
    PROVE  FromMain'
<1> USE DeployAssumption DEF TypeInv, TypeOK, Commit
<1>0. RunsTyped
  BY DEF RunsTyped
<1>1. CASE Push
  <2>1. \A d \in Deployer : run[d].img \in Nat /\ run[d].sha \in Nat
    BY <1>0 DEF RunsTyped, Runs
  <2> QED BY <1>1, <2>1 DEF Push, server, FromMain, OfMain, Built
<1>2. ASSUME NEW c \in Commit, CiSucceeds(c) \/ CiFails(c) PROVE FromMain'
  <2>1. /\ UNCHANGED <<main, server>>
        /\ pending' \in {pending, main, 0}
        /\ \/ run' = run
           \/ "ci" \in Deployer /\ run' = [run EXCEPT !["ci"] = NewRun("approval", main, NoTag)]
    BY <1>2 DEF CiSucceeds, CiFails
  <2>2. \A d \in Deployer : OfMain(run[d])'
    <3>1. CASE run' = run
      BY <2>1, <3>1 DEF FromMain, OfMain
    <3>2. CASE "ci" \in Deployer /\ run' = [run EXCEPT !["ci"] = NewRun("approval", main, NoTag)]
      <4>1. run'["ci"].sha \in 1 .. main /\ run'["ci"].img <= main
        BY <3>2 DEF NewRun
      <4> QED BY <2>1, <3>2, <4>1, FromMainRun
    <3> QED BY <2>1, <3>1, <3>2
  <2> QED BY <2>1, <2>2 DEF FromMain, server
<1>3. ASSUME NEW d \in Deployer, Review(d) \/ Checks(d) PROVE FromMain'
  <2>1. /\ \E l \in {"fetch", "image", "failed"} : Goto(d, l)
        /\ run[d].pc # "idle"
        /\ UNCHANGED <<github, server>>
    BY <1>3 DEF Review, Checks, At
  <2>2. /\ run'[d].sha = run[d].sha
        /\ run'[d].img = run[d].img
        /\ \A e \in Deployer \ {d} : run'[e] = run[e]
    BY ZenonT(60), <1>0, <2>1, GotoMoves DEF Label
  <2>3. \A e \in Deployer : OfMain(run[e])'
    BY <2>1, <2>2, FromMainRun DEF github, FromMain, OfMain
  <2> QED BY <2>1, <2>3 DEF FromMain, github, server
<1>4. ASSUME NEW d \in Deployer, FetchAndCheckout(d) PROVE FromMain'
  <2>1. /\ run[d].pc # "idle"
        /\ tree' \in {tree, main}
        /\ UNCHANGED <<github, images, schema, container>>
    BY <1>4 DEF FetchAndCheckout, At
  <2>2. /\ run'[d].sha = run[d].sha
        /\ run'[d].img = run[d].img
        /\ \A e \in Deployer \ {d} : run'[e] = run[e]
    <3>1. CASE Goto(d, "failed")
      BY <1>0, <3>1, GotoMoves DEF Label
    <3>2. CASE run' = [run EXCEPT ![d] = [run[d] EXCEPT !.pc = "checks", !.tag = SessionTag]]
      BY <1>0, <3>2 DEF RunsTyped, Runs
    <3> QED BY <1>4, <3>1, <3>2 DEF FetchAndCheckout
  <2>3. \A e \in Deployer : OfMain(run[e])'
    BY <2>1, <2>2, FromMainRun DEF github, FromMain, OfMain
  <2> QED BY <2>1, <2>3 DEF FromMain, github
<1>5. ASSUME NEW d \in Deployer, NextInGroup(d) PROVE FromMain'
  <2>1. run'[d].sha \in 1 .. main /\ run'[d].img <= main
    BY <1>5 DEF NextInGroup, NewRun, FromMain
  <2>2. UNCHANGED <<main, server>> /\ pending' = 0
        /\ \A e \in Deployer \ {d} : run'[e] = run[e]
    BY <1>5 DEF NextInGroup
  <2>3. \A e \in Deployer : OfMain(run[e])'
    BY <2>1, <2>2, FromMainRun
  <2> QED BY <2>2, <2>3 DEF FromMain, server
<1>6. ASSUME NEW d \in Deployer, NEW c \in Commit, OperatorCheckout(d, c) PROVE FromMain'
  BY <1>6 DEF OperatorCheckout, github, FromMain, OfMain
<1>7. ASSUME NEW d \in Deployer, NEW t \in Tag \cup {NoTag}, OperatorStarts(d, t)
      PROVE  FromMain'
  <2>1. run'[d].sha \in 1 .. main /\ run'[d].img <= main
    BY <1>7 DEF OperatorStarts, NewRun, FromMain
  <2>2. UNCHANGED <<github, server>> /\ \A e \in Deployer \ {d} : run'[e] = run[e]
    BY <1>7 DEF OperatorStarts
  <2>3. \A e \in Deployer : OfMain(run[e])'
    BY <2>1, <2>2, FromMainRun DEF github
  <2> QED BY <2>2, <2>3 DEF FromMain, github, server
<1> QED BY <1>1, <1>2, <1>3, <1>4, <1>5, <1>6, <1>7

LEMMA FromMainDeploys ==
    ASSUME TypeInv, FromMain,
           \/ \E d \in Deployer :
                \/ ResolveImage(d) \/ RunMigrations(d)
                \/ BuildImages(d) \/ UpFails(d)
                \/ \E s \in Service : \/ CreateContainer(d, s)
                                     \/ StartService(d, s) \/ DependencyFails(d, s)
                \/ Verify(d) \/ Smoke(d)
           \/ \E s \in Service : HealthCheck(s)
    PROVE  FromMain'
<1> USE DeployAssumption DEF TypeInv, TypeOK, Commit
<1>0. RunsTyped
  BY DEF RunsTyped
<1>1. ASSUME NEW d \in Deployer, ResolveImage(d) PROVE FromMain'
  <2> DEFINE t == run[d].tag
             c == IF images[t] = 0 THEN tree ELSE images[t]
  <2>1. run[d].pc # "idle" /\ t \in Tag /\ UNCHANGED <<github, tree, schema, container>>
    BY <1>1 DEF ResolveImage, At, Tagged
  <2>2. c <= main
    BY <2>1 DEF FromMain
  <2>3. run' = [run EXCEPT ![d] = [run[d] EXCEPT !.pc = "migrate", !.img = c]]
    BY <1>1 DEF ResolveImage
  <2>4. images' = [images EXCEPT ![t] = c]
    BY <1>1 DEF ResolveImage
  <2>5. /\ run'[d].sha = run[d].sha
        /\ run'[d].img = c
        /\ \A e \in Deployer \ {d} : run'[e] = run[e]
    BY <1>0, <2>3 DEF RunsTyped, Runs
  <2>6. \A e \in Deployer : OfMain(run[e])'
    BY <2>1, <2>2, <2>5, FromMainRun DEF github
  <2> QED BY <2>1, <2>2, <2>4, <2>6 DEF FromMain, github
<1>2. ASSUME NEW d \in Deployer, RunMigrations(d) \/ BuildImages(d) PROVE FromMain'
  <2>1. /\ BeginUp(d) \/ \E l \in {"build", "failed"} : Goto(d, l)
        /\ run[d].pc # "idle" /\ run[d].tag \in Tag
        /\ UNCHANGED <<github, tree, container>>
        /\ images' \in {images, [images EXCEPT ![run[d].tag] = tree]}
    BY <1>2 DEF RunMigrations, BuildImages, At, Tagged
  <2>2. /\ run'[d].sha = run[d].sha
        /\ run'[d].img = run[d].img
        /\ \A e \in Deployer \ {d} : run'[e] = run[e]
    BY ZenonT(60), <1>0, <2>1, GotoMoves, BeginMoves DEF Label
  <2>3. \A e \in Deployer : OfMain(run[e])'
    BY <2>1, <2>2, FromMainRun DEF github, FromMain, OfMain
  <2> QED BY <2>1, <2>3 DEF FromMain, github
<1>3. ASSUME NEW d \in Deployer, NEW s \in Service, CreateContainer(d, s) PROVE FromMain'
  <2>1. /\ run[d].pc # "idle" /\ run[d].tag \in Tag
        /\ DealtWith(d, s, "start", Service) /\ "start" \in Label
        /\ UNCHANGED <<github, tree, images, schema>>
    BY <1>3 DEF CreateContainer, At, Tagged, Label
  <2>2. \A b \in Built : container'[b] \in {container[b], images[run[d].tag]}
    <3>1. \/ container' = [container EXCEPT ![s] = images[run[d].tag]]
          \/ container' = container
      BY <1>3 DEF CreateContainer, Replace
    <3> QED BY <3>1
  <2>3. /\ run'[d].sha = run[d].sha
        /\ run'[d].img = run[d].img
        /\ \A e \in Deployer \ {d} : run'[e] = run[e]
    BY <1>0, <2>1, DealtMoves
  <2>4. \A e \in Deployer : OfMain(run[e])'
    BY <2>1, <2>3, FromMainRun DEF github, FromMain, OfMain
  <2> QED BY <2>1, <2>2, <2>4 DEF FromMain, github
<1>4. ASSUME NEW d \in Deployer,
             \/ UpFails(d)
             \/ \E s \in Service : StartService(d, s) \/ DependencyFails(d, s)
      PROVE  FromMain'
  <2>1. /\ run[d].pc # "idle"
        /\ UNCHANGED <<github, tree, images, schema, container>>
        /\ Abort(d) \/ \E s \in Service : DealtWith(d, s, "verify", {})
        /\ "verify" \in Label
    BY <1>4 DEF UpFails, StartService, DependencyFails, At, server, Label
  <2>2. /\ run'[d].sha = run[d].sha
        /\ run'[d].img = run[d].img
        /\ \A e \in Deployer \ {d} : run'[e] = run[e]
    BY <1>0, <2>1, AbortMoves, DealtMoves
  <2>3. \A e \in Deployer : OfMain(run[e])'
    BY <2>1, <2>2, FromMainRun DEF github, FromMain, OfMain
  <2> QED BY <2>1, <2>3 DEF FromMain, github
<1>5. ASSUME NEW d \in Deployer, Verify(d) \/ Smoke(d) PROVE FromMain'
  <2>1. \/ run[d].polls < MaxPolls /\ Polled(d)
        \/ \E l \in {"smoke", "done", "failed"} : Goto(d, l)
    BY <1>0, <1>5 DEF Verify, Smoke, AfterVerify, Runs
  <2>2. run[d].pc # "idle" /\ UNCHANGED <<github, server>>
    BY <1>5 DEF Verify, Smoke, At
  <2>3. /\ run'[d].sha = run[d].sha
        /\ run'[d].img = run[d].img
        /\ \A e \in Deployer \ {d} : run'[e] = run[e]
    BY <1>0, <2>1, GotoMoves, PolledMoves DEF Label
  <2>4. \A e \in Deployer : OfMain(run[e])'
    BY <2>2, <2>3, FromMainRun DEF github, FromMain, OfMain
  <2> QED BY <2>2, <2>4 DEF FromMain, github, server
<1>6. ASSUME NEW s \in Service, HealthCheck(s) PROVE FromMain'
  BY <1>6 DEF HealthCheck, github, FromMain, OfMain
<1> QED BY <1>1, <1>2, <1>3, <1>4, <1>5, <1>6

LEMMA FromMainStep == TypeInv /\ FromMain /\ [Next]_vars => FromMain'
<1>1. ASSUME TypeInv, FromMain, Next PROVE FromMain'
  BY <1>1, Steps, FromMainPrepares, FromMainDeploys
<1>2. ASSUME FromMain, UNCHANGED vars PROVE FromMain'
  BY <1>2 DEF FromMain, OfMain, vars
<1> QED BY <1>1, <1>2
-----------------------------------------------------------------------------
(* What a step of Deploy with a single deployer means for production.      *)
Developed == main' = main + 1 /\ UNCHANGED <<schema, container, Started, Announced>>

Migrated(c) ==
    /\ schema < c /\ schema' = c
    /\ UNCHANGED <<main, container, Started, Announced>>

Withdrawn(d) ==
    /\ Announced' = [Announced EXCEPT ![d] = 0]
    /\ UNCHANGED <<main, schema, container, Started>>

AnnouncedAs(d, c) ==
    /\ Announced[d] = 0
    /\ Started = Built /\ \A s \in Built : container[s] = c
    /\ Announced' = [Announced EXCEPT ![d] = c]
    /\ UNCHANGED <<main, schema, container, Started>>

Replaced(d, s) ==
    /\ run[d].pc = "create"
    /\ Announced[d] = 0
    /\ \A n \in BuiltNeeds[s] : container[n] = tree
    /\ container' = [container EXCEPT ![s] = tree]
    /\ Started' = Started \ {s}
    /\ UNCHANGED <<main, schema, Announced>>

Stopped(d, s) ==
    /\ Announced[d] = 0
    /\ Started' = Started \ {s}
    /\ UNCHANGED <<main, schema, container, Announced>>

StartedToo(d, s) ==
    /\ Announced[d] = 0
    /\ BuiltNeeds[s] \subseteq Started
    /\ Started' = Started \cup {s}
    /\ UNCHANGED <<main, schema, container, Announced>>

Nothing == UNCHANGED <<main, schema, container, Started, Announced>>

ProductionMove(d) ==
    \/ Developed \/ Withdrawn(d) \/ Nothing
    \/ \E s \in Built : Replaced(d, s) \/ Stopped(d, s) \/ StartedToo(d, s)
    \/ \E c \in 1 .. main : Migrated(c) \/ AnnouncedAs(d, c)

(* The announcement follows from the run alone.                            *)
LEMMA AnnouncementOf ==
    ASSUME NEW d, Deployer = {d}
    PROVE  /\ Announced[d] = IF run[d].pc = "done" THEN run[d].sha ELSE 0
           /\ run' = run => Announced' = Announced
           /\ run'[d].pc # "done" =>
                 /\ Announced' = [Announced EXCEPT ![d] = 0]
                 /\ run[d].pc # "done" => Announced' = Announced
           /\ run'[d].pc = "done" => Announced' = [Announced EXCEPT ![d] = run'[d].sha]
BY DEF Announced, At

(* A step that leaves the database and production alone and does not end   *)
(* a run well withdraws what was announced, or changes nothing.            *)
LEMMA QuietMove ==
    ASSUME NEW d, Deployer = {d}, run'[d].pc # "done" \/ run' = run,
           UNCHANGED <<main, schema, container, Started>>
    PROVE  ProductionMove(d)
BY AnnouncementOf DEF ProductionMove, Withdrawn, Nothing

(* A service is started exactly when its container was.                    *)
LEMMA StartedAs == UNCHANGED health => UNCHANGED Started
BY DEF Started

LEMMA MovesOf ==
    ASSUME NEW d, Deployer = {d}, TypeInv, FromMain, DeployerState(run[d]), Next
    PROVE  ProductionMove(d)
<1> USE DeployAssumption DEF TypeInv, TypeOK, Commit
<1>0. d \in Deployer /\ RunsTyped /\ run[d] \in Runs
  BY DEF RunsTyped
<1>1. CASE Push
  BY <1>1, AnnouncementOf, StartedAs DEF Push, server, ProductionMove, Developed
<1>2. CASE UNCHANGED <<run, main, schema, container, health>>
  BY <1>2, QuietMove, StartedAs
<1>3. CASE \E c \in Commit : CiFails(c) \/ OperatorCheckout(d, c)
  BY <1>2, <1>3 DEF CiFails, OperatorCheckout, github, server
<1>4. ASSUME NEW c \in Commit, CiSucceeds(c) PROVE ProductionMove(d)
  <2>1. CASE Over("ci")
    <3>1. d = "ci" /\ run' = [run EXCEPT ![d] = NewRun("approval", main, NoTag)]
      BY <1>4, <2>1 DEF CiSucceeds
    <3>2. run'[d].pc = "approval"
      BY <1>0, <3>1 DEF RunsTyped, NewRun
    <3> QED BY <1>4, <3>2, QuietMove, StartedAs DEF CiSucceeds, server
  <2>2. CASE ~Over("ci")
    BY <1>2, <1>4, <2>2 DEF CiSucceeds, server
  <2> QED BY <2>1, <2>2
<1>5. CASE Review(d) \/ Checks(d) \/ BuildImages(d)
  <2>1. BeginUp(d) \/ \E l \in {"fetch", "image", "failed"} : Goto(d, l)
    BY <1>5 DEF Review, Checks, BuildImages
  <2>2. run'[d].pc # "done"
    BY ZenonT(60), <1>0, <2>1, GotoMoves, BeginMoves DEF Label
  <2> QED BY <1>5, <2>2, QuietMove, StartedAs DEF Review, Checks, BuildImages, github, server
<1>6. CASE FetchAndCheckout(d)
  <2>1. CASE Goto(d, "failed")
    <3>1. run'[d].pc # "done"
      BY ZenonT(60), <1>0, <2>1, GotoMoves DEF Label
    <3> QED BY <1>6, <3>1, QuietMove, StartedAs DEF FetchAndCheckout, github
  <2>2. CASE run' = [run EXCEPT ![d] = [run[d] EXCEPT !.pc = "checks", !.tag = SessionTag]]
    <3>1. run'[d].pc # "done"
      BY <1>0, <2>2 DEF RunsTyped, Runs
    <3> QED BY <1>6, <3>1, QuietMove, StartedAs DEF FetchAndCheckout, github
  <2> QED BY <1>6, <2>1, <2>2 DEF FetchAndCheckout
<1>7. CASE NextInGroup(d)
  <2>1. run'[d].pc # "done"
    BY <1>0, <1>7 DEF NextInGroup, NewRun, RunsTyped
  <2> QED BY <1>7, <2>1, QuietMove, StartedAs DEF NextInGroup, server
<1>8. ASSUME NEW t \in Tag \cup {NoTag}, OperatorStarts(d, t) PROVE ProductionMove(d)
  <2>1. run'[d].pc # "done"
    BY <1>0, <1>8 DEF OperatorStarts, NewRun, RunsTyped
  <2> QED BY <1>8, <2>1, QuietMove, StartedAs DEF OperatorStarts, github, server
<1>9. CASE ResolveImage(d)
  <2> DEFINE c == IF images[run[d].tag] = 0 THEN tree ELSE images[run[d].tag]
  <2>1. run' = [run EXCEPT ![d] = [run[d] EXCEPT !.pc = "migrate", !.img = c]]
    BY <1>9 DEF ResolveImage
  <2>2. run'[d].pc # "done"
    BY <1>0, <2>1 DEF RunsTyped, Runs
  <2> QED BY <1>9, <2>2, QuietMove, StartedAs DEF ResolveImage, github
<1>10. CASE RunMigrations(d)
  <2> DEFINE c == run[d].img
  <2>1. /\ run[d].pc = "migrate" /\ run'[d].pc \in {"build", "failed"}
        /\ UNCHANGED <<main, container, health>>
        /\ schema' = Later(schema, c) \/ schema' = schema
    BY <1>0, <1>10, GotoMoves DEF RunMigrations, At, Label, github
  <2>2. c <= main /\ c \in Nat
    BY <1>0 DEF FromMain, OfMain, Runs
  <2>3. CASE schema' = schema
    BY <2>1, <2>3, QuietMove, StartedAs
  <2>4. CASE schema' # schema
    <3>1. schema < c /\ schema' = c /\ c \in 1 .. main
      BY <2>1, <2>2, <2>4 DEF Later
    <3>2. Migrated(c)
      BY <2>1, <3>1, AnnouncementOf, StartedAs DEF Migrated
    <3> QED BY <3>1, <3>2 DEF ProductionMove
  <2> QED BY <2>3, <2>4
<1>11. ASSUME NEW s \in Service, CreateContainer(d, s) PROVE ProductionMove(d)
  <2>1. /\ run[d].pc = "create" /\ run[d].tag \in Tag /\ images[run[d].tag] = tree
        /\ \A n \in Built \ run[d].waiting : container[n] = tree
    BY <1>0, <1>11 DEF CreateContainer, At, DeployerState, Fetched, Tagged
  <2>2. /\ DealtWith(d, s, "start", Service) /\ "start" \in Label
        /\ Turn(d, s) /\ UNCHANGED <<main, schema>>
    BY <1>11 DEF CreateContainer, Label, github
  <2>3. run'[d].pc # "done"
    BY <1>0, <2>1, <2>2, DealtMoves
  <2>4. CASE UNCHANGED <<container, health>>
    BY <2>2, <2>3, <2>4, QuietMove, StartedAs
  <2>5. CASE /\ s \in Built
             /\ container' = [container EXCEPT ![s] = tree]
             /\ health' = [health EXCEPT ![s] = "none"]
    <3>1. Announced[d] = 0 /\ UNCHANGED Announced
      BY <2>1, <2>3, AnnouncementOf
    <3>2. \A n \in BuiltNeeds[s] : container[n] = tree
      BY <2>1, <2>2, <2>5 DEF BuiltNeeds, Turn
    <3>3. Started' = Started \ {s}
      BY <2>5 DEF Started, Service
    <3>4. Replaced(d, s)
      BY <2>1, <2>2, <2>5, <3>1, <3>2, <3>3 DEF Replaced
    <3> QED BY <2>5, <3>4 DEF ProductionMove
  <2> QED BY <1>0, <1>11, <2>1, <2>4, <2>5, CreateMoves
<1>12. ASSUME NEW s \in Service, StartService(d, s) PROVE ProductionMove(d)
  <2>1. /\ run[d].pc = "start" /\ DealtWith(d, s, "verify", {}) /\ "verify" \in Label
        /\ UNCHANGED <<main, schema, container>>
        /\ \A n \in Needs(s) : health[n] = "healthy"
        /\ health' = [health EXCEPT ![s] = IF @ = "none" THEN "starting" ELSE @]
    BY <1>12 DEF StartService, At, Label, github
  <2>2. run'[d].pc # "done"
    BY <1>0, <2>1, DealtMoves
  <2>3. CASE s \in Built
    <3>1. Announced[d] = 0 /\ UNCHANGED Announced
      BY <2>1, <2>2, AnnouncementOf
    <3>2. BuiltNeeds[s] \subseteq Started
      BY <2>1, <2>3 DEF BuiltNeeds, Started
    <3>3. \A b \in Built : health'[b] # "none" <=> health[b] # "none" \/ b = s
      BY <2>1, <2>3 DEF Service
    <3>4. Started' = Started \cup {s}
      BY <2>3, <3>3 DEF Started
    <3>5. StartedToo(d, s)
      BY <2>1, <3>1, <3>2, <3>4 DEF StartedToo
    <3> QED BY <2>3, <3>5 DEF ProductionMove
  <2>4. CASE s \notin Built
    <3>1. \A b \in Built : health'[b] = health[b]
      BY <2>1, <2>4 DEF Service
    <3>2. UNCHANGED Started
      BY <3>1 DEF Started
    <3> QED BY <2>1, <2>2, <3>2, QuietMove
  <2> QED BY <2>3, <2>4
<1>13. CASE UpFails(d) \/ \E s \in Service : DependencyFails(d, s)
  <2>1. /\ Abort(d) /\ run[d].pc \in {"create", "start"}
        /\ UNCHANGED <<main, schema, container>>
        /\ \/ UNCHANGED health
           \/ \E s \in Built : health' = [health EXCEPT ![s] = "none"]
    BY <1>13 DEF UpFails, DependencyFails, At, github, server
  <2>2. run'[d].pc # "done"
    BY <1>0, <2>1, AbortMoves
  <2>3. CASE UNCHANGED health
    BY <2>1, <2>2, <2>3, QuietMove, StartedAs
  <2>4. ASSUME NEW s \in Built, health' = [health EXCEPT ![s] = "none"]
        PROVE  ProductionMove(d)
    <3>1. Announced[d] = 0 /\ UNCHANGED Announced
      BY <2>1, <2>2, AnnouncementOf
    <3>2. Started' = Started \ {s}
      BY <2>4 DEF Started, Service
    <3>3. Stopped(d, s)
      BY <2>1, <3>1, <3>2 DEF Stopped
    <3> QED BY <3>3 DEF ProductionMove
  <2> QED BY <2>1, <2>3, <2>4
<1>14. CASE Verify(d) \/ Smoke(d)
  <2>1. \/ run[d].polls < MaxPolls /\ Polled(d)
        \/ \E l \in {"smoke", "done", "failed"} : Goto(d, l)
    BY <1>0, <1>14 DEF Verify, Smoke, AfterVerify, Runs
  <2>2. run[d].pc \in {"verify", "smoke"} /\ UNCHANGED <<main, schema, container, health>>
    BY <1>14 DEF Verify, Smoke, At, github, server
  <2>3. run'[d].sha = run[d].sha
    BY <1>0, <2>1, GotoMoves, PolledMoves DEF Label
  <2>4. CASE run'[d].pc = "done"
    <3> DEFINE c == run[d].sha
    <3>1. c \in 1 .. main /\ \A s \in Built : container[s] = c
      BY <1>0, <2>2 DEF FromMain, OfMain, DeployerState, Created
    <3>2. Started = Built
      BY <2>2 DEF DeployerState, Created, Started, Service
    <3>3. AnnouncedAs(d, c)
      BY <2>2, <2>3, <2>4, <3>1, <3>2, AnnouncementOf, StartedAs DEF AnnouncedAs
    <3> QED BY <3>1, <3>3 DEF ProductionMove
  <2>5. CASE run'[d].pc # "done"
    BY <2>2, <2>5, QuietMove, StartedAs
  <2> QED BY <2>4, <2>5
<1>15. ASSUME NEW s \in Service, HealthCheck(s) PROVE ProductionMove(d)
  <2>1. \A b \in Service : health'[b] # "none" <=> health[b] # "none"
    BY <1>15 DEF HealthCheck, Verdicts
  <2>2. UNCHANGED Started
    BY <2>1 DEF Started, Service
  <2> QED BY <1>15, <2>2, QuietMove DEF HealthCheck, github
<1> QED
  BY Steps, <1>1, <1>3, <1>4, <1>5, <1>6, <1>7, <1>8, <1>9, <1>10, <1>11, <1>12,
     <1>13, <1>14, <1>15
-----------------------------------------------------------------------------
WorkflowInv ==
    TypeInv /\ FromMain /\ DeployerState(run["ci"]) /\ Forward

LEMMA WorkflowMoves ==
    ASSUME Deployer = {"ci"}, WorkflowInv, ProductionMove("ci")
    PROVE  [Workflow!ProductionNext]_(Workflow!productionVars)
<1> USE DEF Workflow!ProductionNext, Workflow!Commits
<1>1. CASE Developed
  BY <1>1 DEF Developed, Workflow!Develop
<1>2. CASE Withdrawn("ci")
  BY <1>2 DEF Withdrawn, Workflow!Withdraw
<1>3. CASE Nothing
  BY <1>3 DEF Nothing, Workflow!productionVars
<1>4. ASSUME NEW c \in 1 .. main, Migrated(c) PROVE Workflow!ProductionNext
  <2>1. schema \in Nat /\ c \in Nat
    BY DEF WorkflowInv, TypeInv, TypeOK, Commit
  <2>2. Workflow!Migrate(c)
    BY <1>4, <2>1 DEF Migrated, Workflow!Migrate
  <2> QED BY <2>2
<1>5. ASSUME NEW c \in 1 .. main, AnnouncedAs("ci", c) PROVE Workflow!ProductionNext
  <2>1. Workflow!Announce("ci", c)
    BY <1>5 DEF AnnouncedAs, Workflow!Announce
  <2> QED BY <2>1
<1>6. Announced["ci"] = 0 => Workflow!Unannounced
  BY DEF Workflow!Unannounced
<1>7. ASSUME NEW s \in Built, Replaced("ci", s) PROVE Workflow!ProductionNext
  <2>1. container[s] <= tree
    BY <1>7 DEF WorkflowInv, Forward, Replaced
  <2>2. tree \in 1 .. main
    BY DEF WorkflowInv, FromMain, TypeInv, TypeOK, Commit
  <2>3. Workflow!Replace(s, tree)
    BY <1>6, <1>7, <2>1 DEF Replaced, Workflow!Replace
  <2> QED BY <2>2, <2>3
<1>8. ASSUME NEW s \in Built, Stopped("ci", s) \/ StartedToo("ci", s)
      PROVE  Workflow!ProductionNext
  <2>1. Workflow!Stop(s) \/ Workflow!Start(s)
    BY <1>6, <1>8 DEF Stopped, StartedToo, Workflow!Stop, Workflow!Start
  <2> QED BY <2>1
<1> QED BY <1>1, <1>2, <1>3, <1>4, <1>5, <1>7, <1>8 DEF ProductionMove

LEMMA WorkflowInductive ==
    ASSUME Deployer = {"ci"}
    PROVE  /\ Init => WorkflowInv
           /\ WorkflowInv /\ [Next]_vars => WorkflowInv'
<1>1. Init => WorkflowInv
  <2>1. Init => Forward
    BY DeployAssumption DEF Init, Forward
  <2> QED BY <2>1, ConsistentInductive, FromMainInit DEF WorkflowInv
<1>2. ASSUME WorkflowInv, Next PROVE Forward'
  BY <1>2, ForwardStep DEF WorkflowInv
<1>3. ASSUME WorkflowInv, UNCHANGED vars PROVE Forward'
  BY <1>3 DEF WorkflowInv, Forward, vars
<1>4. ASSUME WorkflowInv, [Next]_vars PROVE WorkflowInv'
  BY <1>2, <1>3, <1>4, ConsistentInductive, FromMainStep DEF WorkflowInv
<1> QED BY <1>1, <1>4

LEMMA ProductionInit ==
    ASSUME Init
    PROVE  /\ main = 1 /\ schema = 0 /\ container = [s \in Built |-> 0]
           /\ Started = {}
           /\ Announced = [d \in Deployer |-> 0]
BY DEF Init, Announced, At, NewRun, Started, Service

(* The workflow on its own server implements Production, its services      *)
(* going forward only, for any number of commits, whatever tags and stale  *)
(* images it meets, whichever of its runs fail, wait or are dropped, and   *)
(* between whichever two services its up -d stops.                         *)
THEOREM WorkflowProduction ==
    ASSUME Deployer = {"ci"}
    PROVE  Spec => WorkflowImplementsProduction
<1>1. Init => Workflow!EmptyProduction
  BY ProductionInit DEF Workflow!EmptyProduction
<1>2. WorkflowInv /\ [Next]_vars => [Workflow!ProductionNext]_(Workflow!productionVars)
  <2>1. ASSUME WorkflowInv, Next PROVE [Workflow!ProductionNext]_(Workflow!productionVars)
    BY <2>1, MovesOf, WorkflowMoves DEF WorkflowInv
  <2>2. ASSUME UNCHANGED vars PROVE UNCHANGED Workflow!productionVars
    BY <2>2 DEF vars, Announced, At, Started, Workflow!productionVars
  <2> QED BY <2>1, <2>2
<1> QED
  BY <1>1, <1>2, WorkflowInductive, PTL DEF Spec, WorkflowImplementsProduction, Workflow!ProductionSpec
-----------------------------------------------------------------------------
OperatorInv ==
    TypeInv /\ FromMain /\ DeployerState(run["operator"]) /\ SchemaInv

LEMMA OperatorMoves ==
    ASSUME OneOperator, OperatorInv, ProductionMove("operator")
    PROVE  [Operator!ProductionNext]_(Operator!productionVars)
<1> USE DEF OneOperator, Operator!ProductionNext, Operator!Commits
<1>1. CASE Developed
  BY <1>1 DEF Developed, Operator!Develop
<1>2. CASE Withdrawn("operator")
  BY <1>2 DEF Withdrawn, Operator!Withdraw
<1>3. CASE Nothing
  BY <1>3 DEF Nothing, Operator!productionVars
<1>4. ASSUME NEW c \in 1 .. main, Migrated(c) PROVE Operator!ProductionNext
  <2>1. schema \in Nat /\ c \in Nat
    BY DEF OperatorInv, TypeInv, TypeOK, Commit
  <2>2. Operator!Migrate(c)
    BY <1>4, <2>1 DEF Migrated, Operator!Migrate
  <2> QED BY <2>2
<1>5. ASSUME NEW c \in 1 .. main, AnnouncedAs("operator", c) PROVE Operator!ProductionNext
  <2>1. Operator!Announce("operator", c)
    BY <1>5 DEF AnnouncedAs, Operator!Announce
  <2> QED BY <2>1
<1>6. Announced["operator"] = 0 => Operator!Unannounced
  BY DEF Operator!Unannounced
<1>7. ASSUME NEW s \in Built, Replaced("operator", s) PROVE Operator!ProductionNext
  <2>1. tree <= schema
    BY <1>7 DEF OperatorInv, SchemaInv, OperatorState, Replaced
  <2>2. tree \in 1 .. main
    BY DEF OperatorInv, FromMain, TypeInv, TypeOK, Commit
  <2>3. Operator!Replace(s, tree)
    BY <1>6, <1>7, <2>1 DEF Replaced, Operator!Replace
  <2> QED BY <2>2, <2>3
<1>8. ASSUME NEW s \in Built, Stopped("operator", s) \/ StartedToo("operator", s)
      PROVE  Operator!ProductionNext
  <2>1. Operator!Stop(s) \/ Operator!Start(s)
    BY <1>6, <1>8 DEF Stopped, StartedToo, Operator!Stop, Operator!Start
  <2> QED BY <2>1
<1> QED BY <1>1, <1>2, <1>3, <1>4, <1>5, <1>7, <1>8 DEF ProductionMove

LEMMA OperatorInductive ==
    ASSUME OneOperator, TagPerCommit
    PROVE  /\ Init => OperatorInv
           /\ OperatorInv /\ [Next]_vars => OperatorInv'
<1>0. Deployer = {"operator"}
  BY DEF OneOperator
<1>1. Init => OperatorInv
  BY <1>0, ConsistentInductive, FromMainInit, SchemaInit DEF OperatorInv
<1>2. ASSUME OperatorInv, Next PROVE SchemaInv'
  BY <1>2, SchemaStep DEF OperatorInv
<1>3. ASSUME OperatorInv, UNCHANGED vars PROVE SchemaInv'
  BY <1>3 DEF vars, OperatorInv, SchemaInv, ImagesMatch, OperatorState, SchemaReady
<1>4. ASSUME OperatorInv, [Next]_vars PROVE OperatorInv'
  BY <1>0, <1>2, <1>3, <1>4, ConsistentInductive, FromMainStep DEF OperatorInv
<1> QED BY <1>1, <1>4

(* One operator with a tag per commit implements Production, the database  *)
(* always ahead of the code, whichever commits are deployed again or back  *)
(* and whatever fails on the way.                                          *)
THEOREM OperatorProduction ==
    ASSUME OneOperator, TagPerCommit
    PROVE  Spec => OperatorImplementsProduction
<1>0. Deployer = {"operator"}
  BY DEF OneOperator
<1>1. Init => Operator!EmptyProduction
  BY ProductionInit DEF Operator!EmptyProduction
<1>2. OperatorInv /\ [Next]_vars => [Operator!ProductionNext]_(Operator!productionVars)
  <2>1. ASSUME OperatorInv, Next PROVE [Operator!ProductionNext]_(Operator!productionVars)
    BY <1>0, <2>1, MovesOf, OperatorMoves DEF OperatorInv
  <2>2. ASSUME UNCHANGED vars PROVE UNCHANGED Operator!productionVars
    BY <2>2 DEF vars, Announced, At, Started, Operator!productionVars
  <2> QED BY <2>1, <2>2
<1> QED
  BY <1>1, <1>2, OperatorInductive, PTL DEF Spec, OperatorImplementsProduction, Operator!ProductionSpec
=============================================================================
