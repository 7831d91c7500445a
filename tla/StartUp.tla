------------------------------ MODULE StartUp ------------------------------
(***************************************************************************)
(* Configuration in production: where the services' settings and secrets   *)
(* come from, what is checked before a deployment, and what each service   *)
(* checks and keeps when it starts.                                        *)
(*                                                                         *)
(* Settings: .env and .env.production, as docker compose merges them.      *)
(* Secrets: files under secrets/, made by make secrets-init, replaced by   *)
(* make secrets-rotate-generated, edited by the operator, and read by a    *)
(* service each time it starts.  A service that fails to start is started  *)
(* again (restart: unless-stopped) with the same settings and whatever the *)
(* files hold by then; one that compose up has created, but not started,   *)
(* is left alone.                                                          *)
(*                                                                         *)
(* A starting backend reads JWT_SECRET three times, at three moments, and  *)
(* a rotation may come between any two.                                    *)
(***************************************************************************)
EXTENDS Naturals, Sequences, Functions

CONSTANTS Rotated,        \* generated secrets, in the order of their rotation
          Manual,         \* secrets the operator types
          Overtyped,      \* generated secrets the operator also types
          Typed,          \* kinds of contents the operator may type
          DotEnvs,        \* contents of .env considered
          ProdEnvs,       \* contents of .env.production considered
          Interruptible,  \* may secrets-init and rotations be interrupted?
          OpensslFails,   \* may openssl rand fail?
          MaxGen          \* bound: values generated

Generated == Range(Rotated)

Secret == Generated \cup Manual

Mode == {"production", "development", "unset"}

Kind == {"missing", "empty", "template", "placeholder", "short", "strong"}

ASSUME StartUpAssumption ==
    /\ Rotated \in Seq(STRING) /\ Rotated # << >>
    /\ \A i, j \in 1 .. Len(Rotated) : Rotated[i] = Rotated[j] => i = j
    /\ {"jwt_secret", "redis_secret"} \subseteq Generated
    /\ Generated \cap Manual = {} /\ "none" \notin Secret
    /\ Overtyped \subseteq Generated
    /\ Typed \subseteq Kind \ {"missing"}
    /\ DotEnvs \subseteq [node : Mode, auth : {"real", "development", "unset"},
                          app : Mode]
    /\ ProdEnvs \subseteq [node : Mode, auth : {"real", "development", "unset"},
                           redisPassword : BOOLEAN, complete : BOOLEAN]
    /\ Interruptible \in BOOLEAN /\ OpensslFails \in BOOLEAN
    /\ MaxGen \in Nat

VARIABLES dotenv,     \* .env, which compose interpolates from
          prodenv,    \* .env.production, the env_file of the services
          file,       \* content of each file under secrets/
          minted,     \* values generated so far
          backup,     \* contents kept in secrets/backup-*
          rotating,   \* which secret make secrets-rotate-generated is at, or 0
          filling,    \* secret whose file was emptied to be written, or "none"
          deploying,  \* how far make prod has come
          container,  \* environment fixed when the containers were created
          state,      \* how far each service has come
          loaded      \* copies of secrets in the memory of running processes

vars == <<dotenv, prodenv, file, minted, backup, rotating, filling, deploying,
          container, state, loaded>>
secretsVars == <<file, minted, backup, rotating, filling>>
serviceVars == <<container, state, loaded>>
-----------------------------------------------------------------------------
(* A content: its kind, and which generated value it is (0 when it was     *)
(* typed).                                                                 *)
Of(k) == [kind |-> k, gen |-> 0]

Value(g) == [kind |-> "strong", gen |-> g]

Content == {Of(k) : k \in Kind} \cup {Value(g) : g \in 1 .. MaxGen}

Nothing == Of("missing")

Service == {"backend", "redis", "reports-api"}

(* new: its container is created, and not started.                         *)
Phase == {"absent", "new", "starting", "imported", "created", "running"}

(* depends_on with condition: service_healthy                              *)
ReportsNeeds == {"backend", "redis"}

Needs(s) == IF s = "reports-api" THEN ReportsNeeds ELSE {}

(* JwtModule's signing secret, AuthService's secret, Redis's password.     *)
Copy == {"signs", "verifies", "requirepass"}

SecretOf(c) == IF c = "requirepass" THEN "redis_secret" ELSE "jwt_secret"

(* Nobody runs secrets-init or a rotation.                                 *)
Quiet == rotating = 0 /\ filling = "none"

OrElse(value, default) == IF value = "unset" THEN default ELSE value

(* environment: interpolates .env and wins over env_file, .env.production. *)
Composed == [node |-> dotenv.node,
             auth |-> OrElse(dotenv.auth, "development"),
             app |-> OrElse(dotenv.app, "development"),
             redisPassword |-> prodenv.redisPassword]

Environments == [node : Mode, auth : {"real", "development"},
                 app : {"production", "development"}, redisPassword : BOOLEAN]

(* readSecret of the backend, required: not empty, and no placeholder in   *)
(* production.  (The template's REEMPLAZA_CON is not one it knows.)        *)
ReadSecret(node, k) ==
    k \notin {"missing", "empty"} /\ (node = "production" => k # "placeholder")

Accepted(s) == s \in Secret => ReadSecret(container.node, file[s].kind)

(* secrets-check and sections 4 and 4b of deploy-prod.sh.                  *)
ChecksPass ==
    /\ \A s \in Secret : file[s].kind \notin {"missing", "template"}
    /\ prodenv.node = "production"
    /\ prodenv.auth = "real"
    /\ prodenv.complete
-----------------------------------------------------------------------------
Init ==
    /\ dotenv \in DotEnvs
    /\ prodenv \in ProdEnvs
    /\ file = [s \in Secret |-> Nothing]
    /\ minted = 0
    /\ backup = {}
    /\ rotating = 0 /\ filling = "none"
    /\ deploying = "no"
    /\ container = [node |-> "unset", auth |-> "development",
                    app |-> "development", redisPassword |-> FALSE]
    /\ state = [s \in Service |-> "absent"]
    /\ loaded = [c \in Copy |-> Nothing]

EditSettings ==
    /\ dotenv' \in DotEnvs
    /\ prodenv' \in ProdEnvs
    /\ UNCHANGED <<secretsVars, deploying, serviceVars>>

(* The operator edits a file that is there: a template, or a generated     *)
(* secret, but not while make is replacing it.                             *)
EditSecret(s, k) ==
    /\ s \in Manual \cup Overtyped /\ k \in Typed
    /\ file[s].kind # "missing"
    /\ filling # s /\ (s \in Generated => rotating = 0)
    /\ file' = [file EXCEPT ![s] = Of(k)]
    /\ UNCHANGED <<dotenv, prodenv, minted, backup, rotating, filling, deploying,
                   serviceVars>>

(* command > file: the shell empties the file, which the command is then   *)
(* to fill.                                                                *)
Empty(s) ==
    /\ file' = [file EXCEPT ![s] = Of("empty")]
    /\ filling' = s
    /\ UNCHANGED minted

Mint(s) ==
    /\ minted < MaxGen
    /\ minted' = minted + 1
    /\ file' = [file EXCEPT ![s] = Value(minted + 1)]

(* Mutant: make secrets-init also regenerates what exists.                 *)
SecretsInitOverwrites(s) ==
    /\ Quiet
    /\ s \in Generated => minted < MaxGen
    /\ Empty(s)
    /\ UNCHANGED <<dotenv, prodenv, backup, rotating, deploying, serviceVars>>

(* make secrets-init, for the file of s: only when it does not exist, be   *)
(* it empty.                                                               *)
SecretsInit(s) ==
    /\ Quiet
    /\ file[s].kind = "missing"
    /\ s \in Generated => minted < MaxGen
    /\ Empty(s)
    /\ UNCHANGED <<dotenv, prodenv, backup, rotating, deploying, serviceVars>>

(* printf writes a template, openssl a value; when openssl fails, so does  *)
(* make, and the file stays empty.                                         *)
SecretsInitWrites ==
    /\ rotating = 0 /\ filling # "none"
    /\ \/ /\ filling \in Manual
          /\ file' = [file EXCEPT ![filling] = Of("template")]
          /\ UNCHANGED minted
       \/ filling \in Generated /\ Mint(filling)
       \/ filling \in Generated /\ OpensslFails /\ UNCHANGED <<file, minted>>
    /\ filling' = "none"
    /\ UNCHANGED <<dotenv, prodenv, backup, rotating, deploying, serviceVars>>

(* There is something in the file of s that a copy would keep.             *)
Holds(s) == file[s].kind \notin {"missing", "empty"}

(* Mutant: a rotation keeps only its own backup.                           *)
RotateBackupReplaces ==
    /\ Quiet
    /\ minted + Len(Rotated) <= MaxGen
    /\ backup' = {<<s, file[s]>> : s \in {t \in Generated : Holds(t)}}
    /\ rotating' = 1
    /\ UNCHANGED <<dotenv, prodenv, file, minted, filling, deploying, serviceVars>>

(* Mutant: one of the secrets is missing in the list of what to copy.      *)
RotateBackupMissesOne ==
    /\ Quiet
    /\ minted + Len(Rotated) <= MaxGen
    /\ backup' = backup \cup {<<s, file[s]>> :
                     s \in {t \in Generated \ {Rotated[1]} : Holds(t)}}
    /\ rotating' = 1
    /\ UNCHANGED <<dotenv, prodenv, file, minted, filling, deploying, serviceVars>>

(* make secrets-rotate-generated first copies the secrets it will replace. *)
RotateBackup ==
    /\ Quiet
    /\ minted + Len(Rotated) <= MaxGen
    /\ backup' = backup \cup {<<s, file[s]>> : s \in {t \in Generated : Holds(t)}}
    /\ rotating' = 1
    /\ UNCHANGED <<dotenv, prodenv, file, minted, filling, deploying, serviceVars>>

RotateTruncate ==
    /\ rotating > 0 /\ filling = "none"
    /\ Empty(Rotated[rotating])
    /\ UNCHANGED <<dotenv, prodenv, backup, rotating, deploying, serviceVars>>

(* Mutant: the recipe does not stop after its last secret.                 *)
RotateWriteOnePast ==
    /\ rotating > 0 /\ filling # "none"
    /\ \/ Mint(filling)
       \/ OpensslFails /\ UNCHANGED <<file, minted>>
    /\ filling' = "none"
    /\ rotating' = rotating + 1
    /\ UNCHANGED <<dotenv, prodenv, backup, deploying, serviceVars>>

(* Then comes the next one, though openssl may have failed: it is the      *)
(* first command of an && list, which -e does not look at.                 *)
RotateWrite ==
    /\ rotating > 0 /\ filling # "none"
    /\ \/ Mint(filling)
       \/ OpensslFails /\ UNCHANGED <<file, minted>>
    /\ filling' = "none"
    /\ rotating' = IF rotating = Len(Rotated) THEN 0 ELSE rotating + 1
    /\ UNCHANGED <<dotenv, prodenv, backup, deploying, serviceVars>>

(* make secrets-init, or a rotation, is interrupted.                       *)
Interrupted ==
    /\ Interruptible /\ ~Quiet
    /\ rotating' = 0 /\ filling' = "none"
    /\ UNCHANGED <<dotenv, prodenv, file, minted, backup, deploying, serviceVars>>
-----------------------------------------------------------------------------
(* make prod: the checks, long before the containers are created.          *)
PassChecks ==
    /\ deploying = "no" /\ ChecksPass
    /\ deploying' = "checked"
    /\ UNCHANGED <<dotenv, prodenv, secretsVars, serviceVars>>

Dropped(copies) == [c \in Copy |-> IF c \in copies THEN Nothing ELSE loaded[c]]

CopiesOf(s) == CASE s = "backend" -> {"signs", "verifies"}
                 [] s = "redis"   -> {"requirepass"}
                 [] OTHER         -> {}

(* up -d goes on while it has created a container and not started it.      *)
UpGoesOn(states) == IF \E s \in Service : states[s] = "new" THEN "up" ELSE "no"

(* docker compose up -d recreates the built services when their image or   *)
(* their environment has changed, and creates what is absent ...           *)
ComposeUp(newImage) ==
    LET Recreated(s) == s # "redis" /\ (newImage \/ Composed # container)
        Created == {s \in Service : state[s] = "absent" \/ Recreated(s)}
    IN
    /\ deploying = "checked"
    /\ container' = Composed
    /\ state' = [s \in Service |-> IF s \in Created THEN "new" ELSE state[s]]
    /\ deploying' = UpGoesOn(state')
    /\ loaded' = Dropped(UNION {CopiesOf(s) : s \in Created})
    /\ UNCHANGED <<dotenv, prodenv, secretsVars>>

(* ... then starts each, once what it needs is healthy.                    *)
UpStarts(s) ==
    /\ deploying = "up"
    /\ state[s] = "new" /\ \A n \in Needs(s) : state[n] = "running"
    /\ state' = [state EXCEPT ![s] = "starting"]
    /\ deploying' = UpGoesOn(state')
    /\ UNCHANGED <<dotenv, prodenv, secretsVars, container, loaded>>

(* The script fails before up -d, or up -d when something it waits for is  *)
(* unhealthy: what is new stays so until the next deployment.              *)
DeploymentFails ==
    /\ deploying # "no"
    /\ deploying' = "no"
    /\ UNCHANGED <<dotenv, prodenv, secretsVars, serviceVars>>

Reach(s, phase) == state' = [state EXCEPT ![s] = phase]

(* Mutant: the guard's check of AUTH_MODE is gone.                         *)
BackendImportsUnguarded ==
    /\ state["backend"] = "starting"
    /\ Accepted("jwt_secret")
    /\ Reach("backend", "imported")
    /\ loaded' = [loaded EXCEPT !["signs"] = file["jwt_secret"]]
    /\ UNCHANGED <<dotenv, prodenv, secretsVars, deploying, container>>

(* Importing AppModule: jwt-auth.guard.ts checks AUTH_MODE, and            *)
(* auth.module.ts reads JWT_SECRET for JwtModule.                          *)
BackendImports ==
    /\ state["backend"] = "starting"
    /\ container.node = "production" => container.auth = "real"
    /\ Accepted("jwt_secret")
    /\ Reach("backend", "imported")
    /\ loaded' = [loaded EXCEPT !["signs"] = file["jwt_secret"]]
    /\ UNCHANGED <<dotenv, prodenv, secretsVars, deploying, container>>

(* validateAppConfig: NODE_ENV is one of its three values.                 *)
AppConfigValid == container.node # "unset"

(* Outside production the logger asks for pino-pretty, which the           *)
(* production image lacks.                                                 *)
LoggerLoads == container.node = "production"

(* getDatabaseConfig reads the credentials.                                *)
DatabaseConfigured == Accepted("db_user") /\ Accepted("db_password")

CanCreate ==
    AppConfigValid /\ LoggerLoads /\ DatabaseConfigured /\ Accepted("jwt_secret")

(* validateAppConfig and NestFactory.create, where AuthService reads       *)
(* JWT_SECRET again.                                                       *)
BackendCreates ==
    /\ state["backend"] = "imported"
    /\ CanCreate
    /\ Reach("backend", "created")
    /\ loaded' = [loaded EXCEPT !["verifies"] = file["jwt_secret"]]
    /\ UNCHANGED <<dotenv, prodenv, secretsVars, deploying, container>>

CanListen == file["jwt_secret"].kind = "strong" /\ Accepted("cookie_secret")

(* The rest of bootstrap: JWT_SECRET is read and judged, COOKIE_SECRET     *)
(* read, and the port opened.                                              *)
BackendListens ==
    /\ state["backend"] = "created"
    /\ CanListen
    /\ Reach("backend", "running")
    /\ UNCHANGED <<dotenv, prodenv, secretsVars, deploying, container, loaded>>

(* Mutant: without a restart policy a failed start is the last.            *)
BackendFailsForGood ==
    /\ \/ state["backend"] = "imported" /\ ~CanCreate
       \/ state["backend"] = "created" /\ ~CanListen
    /\ Reach("backend", "absent")
    /\ loaded' = Dropped(CopiesOf("backend"))
    /\ UNCHANGED <<dotenv, prodenv, secretsVars, deploying, container>>

(* One of these reads or checks throws: the process ends, Docker starts it *)
(* again.  (When importing fails there is nothing to undo.)                *)
BackendFails ==
    /\ \/ state["backend"] = "imported" /\ ~CanCreate
       \/ state["backend"] = "created" /\ ~CanListen
    /\ Reach("backend", "starting")
    /\ loaded' = Dropped(CopiesOf("backend"))
    /\ UNCHANGED <<dotenv, prodenv, secretsVars, deploying, container>>

(* redis-entrypoint.sh                                                     *)
RedisStarts ==
    /\ state["redis"] = "starting"
    /\ file["redis_secret"].kind \notin {"missing", "empty"}
    /\ Reach("redis", "running")
    /\ loaded' = [loaded EXCEPT !["requirepass"] = file["redis_secret"]]
    /\ UNCHANGED <<dotenv, prodenv, secretsVars, deploying, container>>

(* read_secret returns whatever its file holds.                            *)
ReadSecretPy(s) == s \in Secret => file[s].kind # "missing"

(* validate_production_secrets: the files exist; outside production it     *)
(* wants DB_USER in the environment, where neither compose nor the         *)
(* template of .env.production puts it.                                    *)
SettingsValid ==
    /\ container.app = "production"
    /\ ReadSecretPy("db_read_only_user") /\ ReadSecretPy("db_read_only_password")

(* create_db_engine: no credential is empty.                               *)
EngineCreated ==
    \A s \in Secret \cap {"db_read_only_user", "db_read_only_password"} :
        ReadSecretPy(s) /\ file[s].kind # "empty"

(* main.py also asks for REDIS_PASSWORD, for which compose sets no _FILE.  *)
ReportsCanStart == container.redisPassword /\ SettingsValid /\ EngineCreated

ReportsStarts ==
    /\ state["reports-api"] = "starting"
    /\ ReportsCanStart
    /\ Reach("reports-api", "running")
    /\ UNCHANGED <<dotenv, prodenv, secretsVars, deploying, container, loaded>>

(* A running process ends, and Docker starts it again.                     *)
Crash(s) ==
    /\ state[s] = "running"
    /\ Reach(s, "starting")
    /\ loaded' = Dropped(CopiesOf(s))
    /\ UNCHANGED <<dotenv, prodenv, secretsVars, deploying, container>>
-----------------------------------------------------------------------------
BackendStep == BackendImports \/ BackendCreates \/ BackendListens \/ BackendFails

SecretsStep ==
    \/ \E s \in Secret : SecretsInit(s)
    \/ SecretsInitWrites
    \/ RotateBackup \/ RotateTruncate \/ RotateWrite
    \/ Interrupted

DeploymentStep ==
    \/ PassChecks \/ DeploymentFails
    \/ \E newImage \in BOOLEAN : ComposeUp(newImage)
    \/ \E s \in Service : UpStarts(s)

Next ==
    \/ EditSettings
    \/ \E s \in Secret, k \in Typed : EditSecret(s, k)
    \/ SecretsStep \/ DeploymentStep
    \/ BackendStep \/ RedisStarts \/ ReportsStarts
    \/ \E s \in Service : Crash(s)

Spec == Init /\ [][Next]_vars

(* Docker keeps starting what was started and is not running.              *)
FairSpec ==
    /\ Spec
    /\ WF_vars(BackendStep) /\ WF_vars(RedisStarts) /\ WF_vars(ReportsStarts)
-----------------------------------------------------------------------------
TypeOK ==
    /\ dotenv \in DotEnvs
    /\ prodenv \in ProdEnvs
    /\ file \in [Secret -> Content]
    /\ minted \in 0 .. MaxGen
    /\ backup \subseteq Secret \X Content
    /\ rotating \in 0 .. Len(Rotated)
    /\ filling \in Secret \cup {"none"}
    /\ deploying \in {"no", "checked", "up"}
    /\ container \in Environments
    /\ state \in [Service -> Phase]
    /\ loaded \in [Copy -> Content]

Recoverable(c) ==
    loaded[c] # Nothing =>
       file[SecretOf(c)] = loaded[c] \/ <<SecretOf(c), loaded[c]>> \in backup

(* A secret that some running process still uses is in its file or in a    *)
(* backup, and only the operator who types over it may lose it: no         *)
(* secrets-init, rotation or start does, however often rotations are       *)
(* repeated, interrupted, fail half way or overlap with starts.            *)
LiveValuesRecoverable ==
    [][\A c \in Copy :
          Recoverable(c) /\ ~Recoverable(c)' => \E k \in Typed : EditSecret(SecretOf(c), k)]_vars

(* The versions of a generated secret: each value openssl ever wrote for   *)
(* it that is in its file or in a backup.                                  *)
Kept(s) == {g \in 1 .. MaxGen : file[s] = Value(g) \/ <<s, Value(g)>> \in backup}

Versions == [s \in Generated |-> Kept(s)]

InUse == [c \in Copy |-> loaded[c].gen]

Versioned == INSTANCE VersionedSecrets WITH
    Secrets <- Generated, Overwritten <- Overtyped, Version <- 1 .. MaxGen,
    Users <- Copy, SecretOf <- SecretOf, versions <- Versions, inUse <- InUse

(* No value that was ever generated is used twice or lost, but the newest  *)
(* to an operator who types over it; and a process that starts takes the   *)
(* newest, or the typed one, whatever interrupts, repeats or overlaps      *)
(* rotations and starts.                                                   *)
SecretsAreVersioned == Versioned!SecretsSpec

(* A backend that listens runs in production mode with AUTH_MODE=real, and *)
(* both of its copies of JWT_SECRET are values it accepts there, neither   *)
(* empty nor placeholders, though .env says anything, bootstrap judges a   *)
(* third reading, and files change meanwhile.  (They may be weak: bootstrap *)
(* judges the strength of its own reading only.)                           *)
RunningBackendIsReal ==
    state["backend"] = "running" =>
        /\ container.node = "production" /\ container.auth = "real"
        /\ ReadSecret("production", loaded["signs"].kind)
        /\ ReadSecret("production", loaded["verifies"].kind)

(* What the services need of the environment they were created with and of *)
(* the files.                                                              *)
Startable ==
    /\ container.node = "production" /\ container.auth = "real"
    /\ ReportsCanStart
    /\ \A s \in Secret : file[s].kind \notin {"missing", "empty", "placeholder"}
    /\ file["jwt_secret"].kind = "strong"

(* Once deployments pause, every service that is starting gets to run, or  *)
(* its settings or a secret are wrong again and again: no failed start is  *)
(* the last, whatever crashes, edits and rotations come in between.  (It   *)
(* may have been recreated by an up -d that failed before starting it; new *)
(* is what a service stays that an up -d never started.)                   *)
ServicesComeBack ==
    <>[](deploying = "no" /\ Startable) =>
        \A s \in Service : (state[s] = "starting") ~> (state[s] \in {"running", "new"})

(* One JWT secret, read consistently in the whole backend (secrets.ts,     *)
(* auth.service.ts).                                                       *)
OneJwtSecret ==
    state["backend"] = "running" => loaded["signs"] = loaded["verifies"]

(* When the checks pass, every secret is configured (secrets-check).       *)
CheckedSecretsHaveValues ==
    Quiet /\ ChecksPass => \A s \in Secret : file[s].kind # "empty"
-----------------------------------------------------------------------------
(* The file that is being written is empty, and what is about to be        *)
(* replaced has been copied.                                               *)
RotationInv ==
    /\ filling # "none" => file[filling].kind = "empty"
    /\ rotating > 0 /\ filling # "none" => filling = Rotated[rotating]
    /\ \A i \in 1 .. Len(Rotated) :
          rotating > 0 /\ rotating <= i /\ Holds(Rotated[i])
             => <<Rotated[i], file[Rotated[i]]>> \in backup

(* What a backend has passed on its way.                                   *)
BackendInv ==
    /\ state["backend"] \in {"imported", "created", "running"} =>
          /\ container.node = "production" => container.auth = "real"
          /\ ReadSecret(container.node, loaded["signs"].kind)
    /\ state["backend"] \in {"created", "running"} =>
          /\ container.node = "production"
          /\ ReadSecret(container.node, loaded["verifies"].kind)
    /\ \A c \in Copy : loaded[c] # Nothing => loaded[c].kind \notin {"missing", "empty"}

(* Generated values are numbered as they come, and the newest is in the    *)
(* file.                                                                   *)
VersionInv ==
    \A s \in Generated, g \in 1 .. MaxGen :
       /\ file[s] = Value(g) => g <= minted
       /\ <<s, Value(g)>> \in backup =>
             g <= minted /\ \A h \in 1 .. MaxGen : file[s] = Value(h) => g <= h

(* A file is empty only while it is about to be filled: if openssl works,  *)
(* make is not interrupted, and nobody empties a file by hand.             *)
EmptyInv == \A s \in Secret : file[s].kind = "empty" => filling = s

(* The inductive invariant.                                                *)
IndInv == TypeOK /\ RotationInv /\ BackendInv
=============================================================================
