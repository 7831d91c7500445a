--------------------------- MODULE StartUpProofs ---------------------------
(***************************************************************************)
(* Safety of StartUp for any secrets, any contents of the settings files,  *)
(* any typing over, any number of rotations, failed or interrupted or not. *)
(***************************************************************************)
EXTENDS StartUp, TLAPS

(* The secrets a rotation replaces, and those a process keeps a copy of.   *)
LEMMA RotatedSecrets ==
    /\ "jwt_secret" \in Generated /\ "redis_secret" \in Generated
    /\ \A c \in Copy : SecretOf(c) \in Generated
    /\ \A i \in 1 .. Len(Rotated) : Rotated[i] \in Generated
    /\ Len(Rotated) \in Nat
    /\ \A s \in Generated : s \in Secret /\ s \notin Manual
<1>1. DOMAIN Rotated = 1 .. Len(Rotated) /\ Len(Rotated) \in Nat
  BY StartUpAssumption
<1>2. \A i \in 1 .. Len(Rotated) : Rotated[i] \in Generated
  BY <1>1 DEF Generated, Range
<1> QED BY <1>1, <1>2, StartUpAssumption DEF SecretOf, Secret, Copy

LEMMA Contents ==
    /\ \A k \in Kind : Of(k) \in Content /\ Of(k).kind = k
    /\ Nothing \in Content /\ Nothing.kind = "missing"
    /\ \A g \in 1 .. MaxGen : Value(g) \in Content /\ Value(g).kind = "strong"
BY StartUpAssumption DEF Of, Value, Nothing, Content, Kind

(* No step of this kind loses a secret that is in use.                     *)
NoneLost == \A c \in Copy : Recoverable(c) => Recoverable(c)'

LEMMA InitHolds == Init => IndInv
<1> SUFFICES ASSUME Init PROVE IndInv
  OBVIOUS
<1>1. TypeOK
  <2>1. rotating \in 0 .. Len(Rotated)
    BY RotatedSecrets DEF Init
  <2>2. container \in Environments
    BY DEF Init, Environments, Mode
  <2>3. file \in [Secret -> Content] /\ loaded \in [Copy -> Content]
    BY Contents DEF Init
  <2>4. minted \in 0 .. MaxGen
    BY StartUpAssumption DEF Init
  <2>5. state \in [Service -> Phase]
    BY DEF Init, Phase
  <2> QED BY <2>1, <2>2, <2>3, <2>4, <2>5 DEF Init, TypeOK
<1>2. RotationInv
  BY DEF Init, RotationInv
<1>3. BackendInv
  BY DEF Init, BackendInv, Service
<1> QED BY <1>1, <1>2, <1>3 DEF IndInv

(* Settings and the ends of deployments touch no secret and no service.    *)
LEMMA SettingsSteps ==
    ASSUME IndInv, EditSettings \/ PassChecks \/ DeploymentFails
    PROVE  IndInv' /\ NoneLost
<1>1. TypeOK'
  BY DEF IndInv, TypeOK, EditSettings, PassChecks, DeploymentFails, secretsVars, serviceVars
<1>2. UNCHANGED <<secretsVars, serviceVars>>
  BY DEF EditSettings, PassChecks, DeploymentFails
<1> QED BY <1>1, <1>2 DEF IndInv, RotationInv, Holds, BackendInv, NoneLost, Recoverable,
                          secretsVars, serviceVars

(* When only the file of s changes.                                        *)
LEMMA OneFileChanges ==
    ASSUME IndInv, NEW s \in Secret, NEW x \in Content,
           file' = [file EXCEPT ![s] = x],
           UNCHANGED <<backup, serviceVars>>
    PROVE  /\ file' \in [Secret -> Content]
           /\ file'[s] = x
           /\ \A t \in Secret \ {s} : file'[t] = file[t]
           /\ BackendInv'
           /\ \A c \in Copy : SecretOf(c) # s /\ Recoverable(c) => Recoverable(c)'
<1>1. /\ file' \in [Secret -> Content]
      /\ file'[s] = x
      /\ \A t \in Secret \ {s} : file'[t] = file[t]
  BY DEF IndInv, TypeOK
<1>2. BackendInv'
  BY DEF IndInv, BackendInv, serviceVars
<1>3. \A c \in Copy : SecretOf(c) \in Secret
  BY RotatedSecrets
<1>4. \A c \in Copy : SecretOf(c) # s /\ Recoverable(c) => Recoverable(c)'
  BY <1>1, <1>3 DEF Recoverable, serviceVars
<1> QED BY <1>1, <1>2, <1>4

(* ... and what was in it is in a backup, or nothing is lost with it.      *)
LEMMA NothingLostWith ==
    ASSUME IndInv, NEW s \in Secret, NEW x \in Content,
           file' = [file EXCEPT ![s] = x],
           UNCHANGED <<backup, serviceVars>>,
           Holds(s) => <<s, file[s]>> \in backup
    PROVE  NoneLost
<1>1. ASSUME NEW c \in Copy, SecretOf(c) = s, Recoverable(c)
      PROVE  Recoverable(c)'
  <2>1. loaded' = loaded /\ backup' = backup
    BY DEF serviceVars
  <2>2. loaded[c] # Nothing /\ file[s] = loaded[c] => Holds(s)
    BY DEF IndInv, BackendInv, Holds
  <2> QED BY <1>1, <2>1, <2>2 DEF Recoverable
<1> QED BY <1>1, OneFileChanges DEF NoneLost

LEMMA EditSecretKeeps ==
    ASSUME IndInv, NEW s \in Secret, NEW k \in Typed, EditSecret(s, k)
    PROVE  /\ IndInv'
           /\ \A c \in Copy : SecretOf(c) # s /\ Recoverable(c) => Recoverable(c)'
<1>1. Of(k) \in Content
  BY Contents, StartUpAssumption
<1>2. file' = [file EXCEPT ![s] = Of(k)] /\ UNCHANGED <<backup, serviceVars>>
  BY DEF EditSecret
<1>3. /\ file' \in [Secret -> Content]
      /\ \A t \in Secret \ {s} : file'[t] = file[t]
      /\ BackendInv'
      /\ \A c \in Copy : SecretOf(c) # s /\ Recoverable(c) => Recoverable(c)'
  BY <1>1, <1>2, OneFileChanges
<1>4. TypeOK'
  BY <1>3 DEF IndInv, TypeOK, EditSecret, serviceVars
<1>5. RotationInv'
  <2>1. filling' = filling /\ rotating' = rotating /\ backup' = backup /\ filling # s
    BY DEF EditSecret
  <2>2. filling' # "none" => file'[filling'].kind = "empty"
    BY <1>3, <2>1 DEF IndInv, RotationInv, TypeOK
  <2>3. ASSUME NEW i \in 1 .. Len(Rotated), rotating > 0, rotating <= i, Holds(Rotated[i])'
        PROVE  <<Rotated[i], file'[Rotated[i]]>> \in backup'
    <3>1. Rotated[i] # s /\ Rotated[i] \in Secret
      BY <2>3, RotatedSecrets DEF EditSecret
    <3> QED BY <1>3, <2>1, <2>3, <3>1 DEF IndInv, RotationInv, Holds
  <2> QED BY <2>1, <2>2, <2>3 DEF IndInv, RotationInv
<1> QED BY <1>3, <1>4, <1>5 DEF IndInv

LEMMA SecretsInitKeeps ==
    ASSUME IndInv, NEW s \in Secret, SecretsInit(s)
    PROVE  IndInv' /\ NoneLost
<1>1. /\ file' = [file EXCEPT ![s] = Of("empty")] /\ filling' = s /\ rotating' = 0
      /\ UNCHANGED <<minted, backup, serviceVars>>
      /\ ~Holds(s)
  BY DEF SecretsInit, Empty, Quiet, Holds
<1>2. Of("empty") \in Content /\ Of("empty").kind = "empty"
  BY Contents DEF Kind
<1>3. file' \in [Secret -> Content] /\ file'[s] = Of("empty") /\ BackendInv' /\ NoneLost
  BY <1>1, <1>2, OneFileChanges, NothingLostWith
<1>4. TypeOK'
  BY <1>1, <1>3, RotatedSecrets DEF IndInv, TypeOK, SecretsInit, serviceVars
<1>5. RotationInv'
  BY <1>1, <1>2, <1>3 DEF RotationInv
<1> QED BY <1>3, <1>4, <1>5 DEF IndInv

(* The file that was emptied is filled, or stays empty.                    *)
LEMMA FilledOrNot ==
    ASSUME IndInv, filling # "none", UNCHANGED <<backup, serviceVars>>,
           \/ \E x \in Content : file' = [file EXCEPT ![filling] = x]
           \/ UNCHANGED file
    PROVE  /\ filling \in Secret /\ ~Holds(filling)
           /\ file' \in [Secret -> Content]
           /\ \A t \in Secret \ {filling} : file'[t] = file[t]
           /\ BackendInv' /\ NoneLost
<1>1. filling \in Secret /\ ~Holds(filling)
  BY DEF IndInv, TypeOK, RotationInv, Holds
<1>2. ASSUME NEW x \in Content, file' = [file EXCEPT ![filling] = x]
      PROVE  /\ file' \in [Secret -> Content]
             /\ \A t \in Secret \ {filling} : file'[t] = file[t]
             /\ BackendInv' /\ NoneLost
  BY <1>1, <1>2, OneFileChanges, NothingLostWith
<1>3. CASE UNCHANGED file
  BY <1>1, <1>3 DEF IndInv, TypeOK, BackendInv, NoneLost, Recoverable, serviceVars
<1> QED BY <1>1, <1>2, <1>3

LEMMA MintFills ==
    ASSUME IndInv, Mint(filling)
    PROVE  /\ minted' \in 0 .. MaxGen
           /\ \E x \in Content : file' = [file EXCEPT ![filling] = x]
<1>1. minted + 1 \in 1 .. MaxGen
  BY StartUpAssumption DEF IndInv, TypeOK, Mint
<1>2. minted' = minted + 1 /\ file' = [file EXCEPT ![filling] = Value(minted + 1)]
  BY DEF Mint
<1>3. Value(minted + 1) \in Content
  BY <1>1, Contents
<1>4. minted' \in 0 .. MaxGen
  BY <1>1, <1>2
<1>5. \E x \in Content : file' = [file EXCEPT ![filling] = x]
  BY <1>2, <1>3
<1> QED BY <1>4, <1>5

LEMMA SecretsInitWritesKeeps == IndInv /\ SecretsInitWrites => IndInv' /\ NoneLost
<1> SUFFICES ASSUME IndInv, SecretsInitWrites PROVE IndInv' /\ NoneLost
  OBVIOUS
<1>1. /\ filling # "none" /\ filling' = "none" /\ rotating = 0 /\ rotating' = 0
      /\ UNCHANGED <<dotenv, prodenv, backup, deploying, serviceVars>>
  BY DEF SecretsInitWrites
<1>2. /\ minted' \in 0 .. MaxGen
      /\ \/ \E x \in Content : file' = [file EXCEPT ![filling] = x]
         \/ UNCHANGED file
  <2>1. CASE file' = [file EXCEPT ![filling] = Of("template")] /\ UNCHANGED minted
    BY <2>1, Contents DEF Kind, IndInv, TypeOK
  <2>2. CASE Mint(filling)
    BY <2>2, MintFills
  <2>3. CASE UNCHANGED <<file, minted>>
    BY <2>3 DEF IndInv, TypeOK
  <2> QED BY <2>1, <2>2, <2>3 DEF SecretsInitWrites
<1>3. file' \in [Secret -> Content] /\ BackendInv' /\ NoneLost
  BY <1>1, <1>2, FilledOrNot
<1>4. TypeOK'
  BY <1>1, <1>2, <1>3 DEF IndInv, TypeOK, serviceVars
<1>5. RotationInv'
  BY <1>1 DEF RotationInv
<1> QED BY <1>3, <1>4, <1>5 DEF IndInv
-----------------------------------------------------------------------------
LEMMA RotateBackupKeeps == IndInv /\ RotateBackup => IndInv' /\ NoneLost
<1> SUFFICES ASSUME IndInv, RotateBackup PROVE IndInv' /\ NoneLost
  OBVIOUS
<1>1. /\ UNCHANGED <<dotenv, prodenv, file, minted, filling, deploying, serviceVars>>
      /\ backup' = backup \cup {<<s, file[s]>> : s \in {t \in Generated : Holds(t)}}
      /\ rotating' = 1 /\ filling = "none"
  BY DEF RotateBackup, Quiet
<1>2. \A s \in Generated : file[s] \in Content /\ s \in Secret
  BY RotatedSecrets DEF IndInv, TypeOK
<1>3. 1 \in 0 .. Len(Rotated)
  BY StartUpAssumption
<1>4. backup' \subseteq Secret \X Content
  BY <1>1, <1>2 DEF IndInv, TypeOK
<1>5. TypeOK'
  BY <1>1, <1>3, <1>4 DEF IndInv, TypeOK, serviceVars
<1>6. RotationInv'
  <2>1. \A s \in Generated : Holds(s)' => <<s, file'[s]>> \in backup'
    BY <1>1 DEF Holds
  <2> QED BY <1>1, <2>1, RotatedSecrets DEF RotationInv
<1>7. BackendInv' /\ NoneLost
  BY <1>1 DEF IndInv, BackendInv, NoneLost, Recoverable, serviceVars
<1> QED BY <1>5, <1>6, <1>7 DEF IndInv

LEMMA RotateTruncateKeeps == IndInv /\ RotateTruncate => IndInv' /\ NoneLost
<1> SUFFICES ASSUME IndInv, RotateTruncate PROVE IndInv' /\ NoneLost
  OBVIOUS
<1> DEFINE s == Rotated[rotating]
<1>1. /\ rotating \in 1 .. Len(Rotated)
      /\ s \in Generated /\ s \in Secret
  BY RotatedSecrets DEF IndInv, TypeOK, RotateTruncate
<1>2. /\ file' = [file EXCEPT ![s] = Of("empty")]
      /\ filling' = s /\ rotating' = rotating
      /\ UNCHANGED <<dotenv, prodenv, minted, backup, deploying, serviceVars>>
  BY DEF RotateTruncate, Empty
<1>3. Of("empty") \in Content /\ Of("empty").kind = "empty"
  BY Contents DEF Kind
<1>4. Holds(s) => <<s, file[s]>> \in backup
  BY <1>1 DEF IndInv, RotationInv
<1> HIDE DEF s
<1>5. /\ file' \in [Secret -> Content]
      /\ file'[s] = Of("empty")
      /\ \A t \in Secret \ {s} : file'[t] = file[t]
      /\ BackendInv' /\ NoneLost
  BY <1>1, <1>2, <1>3, <1>4, OneFileChanges, NothingLostWith
<1>6. TypeOK'
  BY <1>1, <1>2, <1>5 DEF IndInv, TypeOK, serviceVars
<1>7. RotationInv'
  <2>1. ASSUME NEW i \in 1 .. Len(Rotated), rotating <= i, Holds(Rotated[i])'
        PROVE  <<Rotated[i], file'[Rotated[i]]>> \in backup'
    <3>1. Rotated[i] # s /\ Rotated[i] \in Secret
      BY <1>3, <1>5, <2>1, RotatedSecrets DEF Holds
    <3> QED BY <1>1, <1>2, <1>5, <2>1, <3>1 DEF IndInv, RotationInv, Holds
  <2> QED BY <1>2, <1>3, <1>5, <2>1 DEF RotationInv, s
<1> QED BY <1>5, <1>6, <1>7 DEF IndInv

LEMMA RotateWriteKeeps == IndInv /\ RotateWrite => IndInv' /\ NoneLost
<1> SUFFICES ASSUME IndInv, RotateWrite PROVE IndInv' /\ NoneLost
  OBVIOUS
<1>1. /\ rotating \in 1 .. Len(Rotated)
      /\ filling # "none" /\ filling = Rotated[rotating] /\ filling' = "none"
      /\ UNCHANGED <<dotenv, prodenv, backup, deploying, serviceVars>>
  BY RotatedSecrets DEF IndInv, TypeOK, RotationInv, RotateWrite
<1>2. /\ minted' \in 0 .. MaxGen
      /\ \/ \E x \in Content : file' = [file EXCEPT ![filling] = x]
         \/ UNCHANGED file
  <2>1. CASE Mint(filling)
    BY <2>1, MintFills
  <2>2. CASE UNCHANGED <<file, minted>>
    BY <2>2 DEF IndInv, TypeOK
  <2> QED BY <2>1, <2>2 DEF RotateWrite
<1>3. /\ file' \in [Secret -> Content]
      /\ \A t \in Secret \ {filling} : file'[t] = file[t]
      /\ BackendInv' /\ NoneLost
  BY <1>1, <1>2, FilledOrNot
<1>4. rotating' \in 0 .. Len(Rotated) /\ (rotating' > rotating \/ rotating' = 0)
  BY <1>1, StartUpAssumption DEF RotateWrite
<1>5. TypeOK'
  BY <1>1, <1>2, <1>3, <1>4 DEF IndInv, TypeOK, serviceVars
<1>6. RotationInv'
  <2>1. ASSUME NEW i \in 1 .. Len(Rotated), rotating' > 0, rotating' <= i, Holds(Rotated[i])'
        PROVE  <<Rotated[i], file'[Rotated[i]]>> \in backup'
    <3>1. i # rotating /\ rotating <= i
      BY <1>1, <1>4, <2>1
    <3>2. Rotated[i] # filling /\ Rotated[i] \in Secret
      BY <1>1, <3>1, RotatedSecrets, StartUpAssumption
    <3> QED BY <1>1, <1>3, <2>1, <3>1, <3>2 DEF IndInv, RotationInv, Holds
  <2> QED BY <1>1, <2>1 DEF RotationInv
<1> QED BY <1>3, <1>5, <1>6 DEF IndInv

LEMMA InterruptedKeeps == IndInv /\ Interrupted => IndInv' /\ NoneLost
<1> SUFFICES ASSUME IndInv, Interrupted PROVE IndInv' /\ NoneLost
  OBVIOUS
<1>1. TypeOK'
  BY RotatedSecrets DEF IndInv, TypeOK, Interrupted, serviceVars
<1>2. RotationInv'
  BY DEF RotationInv, Interrupted
<1> QED BY <1>1, <1>2 DEF IndInv, BackendInv, NoneLost, Recoverable, Interrupted, serviceVars
-----------------------------------------------------------------------------
LEMMA ComposedType ==
    ASSUME TypeOK
    PROVE  Composed \in Environments
<1>1. /\ dotenv.node \in Mode
      /\ dotenv.auth \in {"real", "development", "unset"}
      /\ dotenv.app \in Mode
      /\ prodenv.redisPassword \in BOOLEAN
  BY StartUpAssumption DEF TypeOK
<1> QED BY <1>1 DEF Composed, Environments, OrElse, Mode

(* A service moves on, or back, with copies that are not empty, or none.   *)
LEMMA ServiceMoves ==
    ASSUME IndInv, UNCHANGED <<dotenv, prodenv, secretsVars>>,
           deploying' \in {"no", "checked", "up"},
           container' \in Environments,
           state' \in [Service -> Phase],
           loaded' \in [Copy -> Content],
           \A c \in Copy : \/ loaded'[c] = loaded[c]
                           \/ loaded'[c] = Nothing
                           \/ loaded'[c] = file[SecretOf(c)] /\ Holds(SecretOf(c))
    PROVE  /\ TypeOK' /\ RotationInv' /\ NoneLost
           /\ \A c \in Copy : loaded'[c] # Nothing => loaded'[c].kind \notin {"missing", "empty"}
<1>1. TypeOK' /\ RotationInv'
  BY DEF IndInv, TypeOK, RotationInv, Holds, secretsVars
<1>2. NoneLost
  BY DEF NoneLost, Recoverable, secretsVars
<1>3. \A c \in Copy : loaded'[c] # Nothing => loaded'[c].kind \notin {"missing", "empty"}
  BY DEF IndInv, BackendInv, Holds
<1> QED BY <1>1, <1>2, <1>3

LEMMA DroppedCopies ==
    ASSUME IndInv, NEW copies \in SUBSET Copy
    PROVE  /\ Dropped(copies) \in [Copy -> Content]
           /\ \A c \in copies : Dropped(copies)[c] = Nothing
           /\ \A c \in Copy \ copies : Dropped(copies)[c] = loaded[c]
BY Contents DEF Dropped, IndInv, TypeOK

LEMMA ReachMoves ==
    ASSUME IndInv, NEW s \in Service, NEW phase \in Phase, Reach(s, phase)
    PROVE  /\ state' \in [Service -> Phase]
           /\ state'[s] = phase
           /\ \A t \in Service \ {s} : state'[t] = state[t]
BY DEF Reach, IndInv, TypeOK

LEMMA CopiesTyped ==
    /\ \A s \in Service : CopiesOf(s) \in SUBSET Copy
    /\ CopiesOf("backend") = {"signs", "verifies"}
    /\ "signs" \notin CopiesOf("redis") /\ "verifies" \notin CopiesOf("redis")
    /\ "signs" \notin CopiesOf("reports-api") /\ "verifies" \notin CopiesOf("reports-api")
BY DEF CopiesOf, Copy, Service

(* A backend that has not come far, or stays where it is, keeps BackendInv. *)
LEMMA BackendStays ==
    ASSUME IndInv,
           \A c \in Copy : loaded'[c] # Nothing => loaded'[c].kind \notin {"missing", "empty"},
           \/ state'["backend"] \in {"absent", "new", "starting"}
           \/ /\ state'["backend"] = state["backend"] /\ container' = container
              /\ loaded'["signs"] = loaded["signs"] /\ loaded'["verifies"] = loaded["verifies"]
    PROVE  BackendInv'
<1>1. CASE state'["backend"] \in {"absent", "new", "starting"}
  BY <1>1 DEF BackendInv
<1>2. CASE /\ state'["backend"] = state["backend"] /\ container' = container
           /\ loaded'["signs"] = loaded["signs"] /\ loaded'["verifies"] = loaded["verifies"]
  BY <1>2 DEF IndInv, BackendInv
<1> QED BY <1>1, <1>2

LEMMA UpMayGoOn ==
    ASSUME NEW states
    PROVE  UpGoesOn(states) \in {"no", "checked", "up"}
<1>1. CASE \E s \in Service : states[s] = "new"
  BY <1>1 DEF UpGoesOn
<1>2. CASE ~ \E s \in Service : states[s] = "new"
  BY <1>2 DEF UpGoesOn
<1> QED BY <1>1, <1>2

LEMMA ComposeUpKeeps ==
    ASSUME IndInv, NEW newImage \in BOOLEAN, ComposeUp(newImage)
    PROVE  IndInv' /\ NoneLost
<1> DEFINE Recreated(s) == s # "redis" /\ (newImage \/ Composed # container)
           Created == {s \in Service : state[s] = "absent" \/ Recreated(s)}
           copies == UNION {CopiesOf(s) : s \in Created}
<1>1. /\ deploying' = UpGoesOn(state')
      /\ container' = Composed
      /\ state' = [s \in Service |-> IF s \in Created THEN "new" ELSE state[s]]
      /\ loaded' = Dropped(copies)
      /\ UNCHANGED <<dotenv, prodenv, secretsVars>>
  BY DEF ComposeUp
<1>2. copies \in SUBSET Copy
  BY CopiesTyped
<1>3. /\ loaded' \in [Copy -> Content]
      /\ \A c \in copies : loaded'[c] = Nothing
      /\ \A c \in Copy \ copies : loaded'[c] = loaded[c]
  <2> HIDE DEF copies
  <2> QED BY <1>1, <1>2, DroppedCopies
<1>4. /\ state' \in [Service -> Phase] /\ container' \in Environments
      /\ deploying' \in {"no", "checked", "up"}
  BY <1>1, ComposedType, UpMayGoOn DEF IndInv, TypeOK, Phase
<1>5. /\ TypeOK' /\ RotationInv' /\ NoneLost
      /\ \A c \in Copy : loaded'[c] # Nothing => loaded'[c].kind \notin {"missing", "empty"}
  BY <1>1, <1>3, <1>4, ServiceMoves
<1>6. BackendInv'
  <2>1. CASE "backend" \in Created
    <3>1. state'["backend"] = "new"
      BY <1>1, <2>1
    <3> QED BY <1>5, <3>1, BackendStays
  <2>2. CASE "backend" \notin Created
    <3>1. state'["backend"] = state["backend"] /\ container' = container
      BY <1>1, <2>2 DEF Service
    <3>2. "signs" \notin copies /\ "verifies" \notin copies
      BY <2>2, CopiesTyped DEF Service
    <3>3. loaded'["signs"] = loaded["signs"] /\ loaded'["verifies"] = loaded["verifies"]
      BY <1>3, <3>2 DEF Copy
    <3> QED BY <1>5, <3>1, <3>3, BackendStays
  <2> QED BY <2>1, <2>2
<1> QED BY <1>5, <1>6 DEF IndInv

(* An accepted secret is one that holds something.                         *)
LEMMA AcceptedHolds ==
    ASSUME IndInv, NEW s \in Generated, Accepted(s)
    PROVE  /\ file[s] \in Content /\ Holds(s)
           /\ ReadSecret(container.node, file[s].kind)
BY RotatedSecrets DEF IndInv, TypeOK, Accepted, ReadSecret, Holds

(* The backend reads jwt_secret into c.                                    *)
LEMMA BackendLoads ==
    ASSUME IndInv, NEW c \in {"signs", "verifies"}, NEW phase \in Phase,
           Accepted("jwt_secret"),
           UNCHANGED <<dotenv, prodenv, secretsVars, deploying, container>>,
           loaded' = [loaded EXCEPT ![c] = file["jwt_secret"]],
           Reach("backend", phase)
    PROVE  /\ TypeOK' /\ RotationInv' /\ NoneLost
           /\ state'["backend"] = phase
           /\ ReadSecret(container'.node, loaded'[c].kind)
           /\ \A d \in Copy \ {c} : loaded'[d] = loaded[d]
           /\ \A d \in Copy : loaded'[d] # Nothing => loaded'[d].kind \notin {"missing", "empty"}
<1>1. /\ file["jwt_secret"] \in Content /\ Holds("jwt_secret")
      /\ ReadSecret(container.node, file["jwt_secret"].kind)
  BY RotatedSecrets, AcceptedHolds
<1>2. state' \in [Service -> Phase] /\ state'["backend"] = phase
  BY ReachMoves DEF Service
<1>3. /\ loaded' \in [Copy -> Content]
      /\ loaded'[c] = file["jwt_secret"]
      /\ \A d \in Copy \ {c} : loaded'[d] = loaded[d]
  BY <1>1 DEF IndInv, TypeOK, Copy
<1>4. container' \in Environments /\ deploying' \in {"no", "checked", "up"}
  BY DEF IndInv, TypeOK
<1>5. /\ TypeOK' /\ RotationInv' /\ NoneLost
      /\ \A d \in Copy : loaded'[d] # Nothing => loaded'[d].kind \notin {"missing", "empty"}
  BY <1>1, <1>2, <1>3, <1>4, ServiceMoves DEF SecretOf
<1> QED BY <1>1, <1>2, <1>3, <1>5

LEMMA BackendImportsKeeps == IndInv /\ BackendImports => IndInv' /\ NoneLost
<1> SUFFICES ASSUME IndInv, BackendImports PROVE IndInv' /\ NoneLost
  OBVIOUS
<1>1. container'.node = "production" => container'.auth = "real"
  BY DEF BackendImports
<1>2. /\ TypeOK' /\ RotationInv' /\ NoneLost
      /\ state'["backend"] = "imported"
      /\ ReadSecret(container'.node, loaded'["signs"].kind)
      /\ \A d \in Copy : loaded'[d] # Nothing => loaded'[d].kind \notin {"missing", "empty"}
  BY BackendLoads DEF BackendImports, Phase
<1>3. BackendInv'
  BY <1>1, <1>2 DEF BackendInv
<1> QED BY <1>2, <1>3 DEF IndInv

LEMMA BackendCreatesKeeps == IndInv /\ BackendCreates => IndInv' /\ NoneLost
<1> SUFFICES ASSUME IndInv, BackendCreates PROVE IndInv' /\ NoneLost
  OBVIOUS
<1>1. container' = container /\ container.node = "production" /\ state["backend"] = "imported"
  BY DEF BackendCreates, CanCreate, LoggerLoads
<1>2. /\ TypeOK' /\ RotationInv' /\ NoneLost
      /\ state'["backend"] = "created"
      /\ ReadSecret(container'.node, loaded'["verifies"].kind)
      /\ loaded'["signs"] = loaded["signs"]
      /\ \A d \in Copy : loaded'[d] # Nothing => loaded'[d].kind \notin {"missing", "empty"}
  BY BackendLoads DEF BackendCreates, CanCreate, Phase, Copy
<1>3. BackendInv'
  BY <1>1, <1>2 DEF IndInv, BackendInv, ReadSecret
<1> QED BY <1>2, <1>3 DEF IndInv

(* The steps that load nothing: phases alone change.                       *)
LEMMA PhaseKeeps ==
    ASSUME IndInv, UNCHANGED <<dotenv, prodenv, secretsVars, container, loaded>>,
           deploying' \in {"no", "checked", "up"},
           \/ state["backend"] = "created" /\ Reach("backend", "running")
           \/ Reach("reports-api", "running")
           \/ \E s \in Service : Reach(s, "starting")
    PROVE  IndInv' /\ NoneLost
<1>1. /\ state' \in [Service -> Phase]
      /\ \/ state["backend"] = "created" /\ state'["backend"] = "running"
         \/ state'["backend"] = state["backend"]
         \/ state'["backend"] = "starting"
  BY ReachMoves DEF Service, Phase
<1>2. /\ container' \in Environments
      /\ loaded' \in [Copy -> Content] /\ loaded' = loaded
  BY DEF IndInv, TypeOK
<1>3. /\ TypeOK' /\ RotationInv' /\ NoneLost
      /\ \A c \in Copy : loaded'[c] # Nothing => loaded'[c].kind \notin {"missing", "empty"}
  BY <1>1, <1>2, ServiceMoves
<1>4. BackendInv'
  <2>1. CASE state["backend"] = "created" /\ state'["backend"] = "running"
    BY <1>2, <1>3, <2>1 DEF IndInv, BackendInv, ReadSecret
  <2>2. CASE state'["backend"] \in {state["backend"], "starting"}
    BY <1>2, <1>3, <2>2, BackendStays
  <2> QED BY <1>1, <2>1, <2>2
<1> QED BY <1>3, <1>4 DEF IndInv

LEMMA UpStartsKeeps ==
    ASSUME IndInv, NEW s \in Service, UpStarts(s)
    PROVE  IndInv' /\ NoneLost
<1>1. Reach(s, "starting") /\ deploying' = UpGoesOn(state')
      /\ UNCHANGED <<dotenv, prodenv, secretsVars, container, loaded>>
  BY DEF UpStarts, Reach
<1> QED BY <1>1, UpMayGoOn, PhaseKeeps

LEMMA RedisStartsKeeps == IndInv /\ RedisStarts => IndInv' /\ NoneLost
<1> SUFFICES ASSUME IndInv, RedisStarts PROVE IndInv' /\ NoneLost
  OBVIOUS
<1>1. /\ UNCHANGED <<dotenv, prodenv, secretsVars, deploying, container>>
      /\ loaded' = [loaded EXCEPT !["requirepass"] = file["redis_secret"]]
      /\ Reach("redis", "running")
  BY DEF RedisStarts
<1>2. file["redis_secret"] \in Content /\ Holds("redis_secret")
  BY RotatedSecrets DEF RedisStarts, IndInv, TypeOK, Holds
<1>3. state' \in [Service -> Phase] /\ state'["backend"] = state["backend"]
  BY <1>1, ReachMoves DEF Service, Phase
<1>4. /\ loaded' \in [Copy -> Content]
      /\ loaded'["requirepass"] = file["redis_secret"]
      /\ \A c \in Copy \ {"requirepass"} : loaded'[c] = loaded[c]
  BY <1>1, <1>2 DEF IndInv, TypeOK, Copy
<1>5. container' \in Environments /\ deploying' \in {"no", "checked", "up"}
  BY <1>1 DEF IndInv, TypeOK
<1>6. /\ TypeOK' /\ RotationInv' /\ NoneLost
      /\ \A c \in Copy : loaded'[c] # Nothing => loaded'[c].kind \notin {"missing", "empty"}
  BY <1>1, <1>2, <1>3, <1>4, <1>5, ServiceMoves DEF SecretOf
<1>7. loaded'["signs"] = loaded["signs"] /\ loaded'["verifies"] = loaded["verifies"]
  BY <1>4 DEF Copy
<1>8. BackendInv'
  BY <1>1, <1>3, <1>6, <1>7, BackendStays
<1> QED BY <1>6, <1>8 DEF IndInv

(* A failed start, or a crash, of s.                                       *)
LEMMA RestartKeeps ==
    ASSUME IndInv, NEW s \in Service, Reach(s, "starting"),
           loaded' = Dropped(CopiesOf(s)),
           UNCHANGED <<dotenv, prodenv, secretsVars, deploying, container>>
    PROVE  IndInv' /\ NoneLost
<1>1. /\ state' \in [Service -> Phase]
      /\ state'[s] = "starting"
      /\ \A t \in Service \ {s} : state'[t] = state[t]
  BY ReachMoves DEF Phase
<1>2. /\ loaded' \in [Copy -> Content]
      /\ \A c \in CopiesOf(s) : loaded'[c] = Nothing
      /\ \A c \in Copy \ CopiesOf(s) : loaded'[c] = loaded[c]
  BY CopiesTyped, DroppedCopies
<1>3. container' \in Environments /\ deploying' \in {"no", "checked", "up"}
  BY DEF IndInv, TypeOK
<1>4. /\ TypeOK' /\ RotationInv' /\ NoneLost
      /\ \A c \in Copy : loaded'[c] # Nothing => loaded'[c].kind \notin {"missing", "empty"}
  BY <1>1, <1>2, <1>3, CopiesTyped, ServiceMoves
<1>5. BackendInv'
  <2>1. CASE s = "backend"
    BY <1>1, <1>4, <2>1, BackendStays
  <2>2. CASE s # "backend"
    <3>1. state'["backend"] = state["backend"]
      BY <1>1, <2>2 DEF Service
    <3>2. loaded'["signs"] = loaded["signs"] /\ loaded'["verifies"] = loaded["verifies"]
      BY <1>2, <2>2, CopiesTyped DEF Copy, Service
    <3> QED BY <1>4, <3>1, <3>2, BackendStays
  <2> QED BY <2>1, <2>2
<1> QED BY <1>4, <1>5 DEF IndInv
-----------------------------------------------------------------------------
(* Every step keeps IndInv, and each but the operator's typing keeps the   *)
(* secrets in use.                                                         *)
LEMMA StepKeeps ==
    ASSUME IndInv, Next
    PROVE  /\ IndInv'
           /\ \A c \in Copy :
                 \/ Recoverable(c) => Recoverable(c)'
                 \/ \E k \in Typed : EditSecret(SecretOf(c), k)
<1>1. CASE EditSettings \/ PassChecks \/ DeploymentFails
  BY <1>1, SettingsSteps DEF NoneLost
<1>2. ASSUME NEW s \in Secret, NEW k \in Typed, EditSecret(s, k)
      PROVE  /\ IndInv'
             /\ \A c \in Copy :
                   \/ Recoverable(c) => Recoverable(c)'
                   \/ \E j \in Typed : EditSecret(SecretOf(c), j)
  BY <1>2, EditSecretKeeps
<1>3. CASE SecretsStep
  <2>1. IndInv' /\ NoneLost
    BY <1>3, SecretsInitKeeps, SecretsInitWritesKeeps, RotateBackupKeeps,
       RotateTruncateKeeps, RotateWriteKeeps, InterruptedKeeps DEF SecretsStep
  <2> QED BY <2>1 DEF NoneLost
<1>4. CASE DeploymentStep
  <2>1. IndInv' /\ NoneLost
    BY <1>4, SettingsSteps, ComposeUpKeeps, UpStartsKeeps DEF DeploymentStep
  <2> QED BY <2>1 DEF NoneLost
<1>5. CASE BackendStep \/ RedisStarts \/ ReportsStarts \/ \E s \in Service : Crash(s)
  <2>1. CASE BackendImports \/ BackendCreates \/ RedisStarts
    BY <2>1, BackendImportsKeeps, BackendCreatesKeeps, RedisStartsKeeps DEF NoneLost
  <2>2. CASE BackendListens \/ ReportsStarts
    <3>1. deploying' \in {"no", "checked", "up"}
      BY <2>2 DEF BackendListens, ReportsStarts, IndInv, TypeOK
    <3>2. IndInv' /\ NoneLost
      BY <2>2, <3>1, PhaseKeeps DEF BackendListens, ReportsStarts
    <3> QED BY <3>2 DEF NoneLost
  <2>3. CASE BackendFails
    <3>1. IndInv' /\ NoneLost
      BY <2>3, RestartKeeps DEF BackendFails, Service
    <3> QED BY <3>1 DEF NoneLost
  <2>4. ASSUME NEW s \in Service, Crash(s) PROVE IndInv' /\ NoneLost
    BY <2>4, RestartKeeps DEF Crash
  <2> QED BY <1>5, <2>1, <2>2, <2>3, <2>4 DEF BackendStep, NoneLost
<1> QED BY <1>1, <1>2, <1>3, <1>4, <1>5 DEF Next

LEMMA NextKeeps == IndInv /\ [Next]_vars => IndInv'
<1>1. ASSUME IndInv, UNCHANGED vars PROVE IndInv'
  BY <1>1 DEF vars, IndInv, TypeOK, RotationInv, Holds, BackendInv
<1> QED BY <1>1, StepKeeps

(* IndInv is an invariant of every start-up, deployment and rotation.      *)
THEOREM Invariance == Spec => []IndInv
BY InitHolds, NextKeeps, PTL DEF Spec

(* The variables keep their types.                                         *)
THEOREM TypeCorrect == Spec => []TypeOK
<1>1. IndInv => TypeOK
  BY DEF IndInv
<1> QED BY Invariance, <1>1, PTL

(* No secrets-init, rotation or start loses a secret that a running        *)
(* process still uses: only an operator who types over it does.            *)
THEOREM LiveValuesAreRecoverable == Spec => LiveValuesRecoverable
<1>1. IndInv /\ [Next]_vars =>
         [\A c \in Copy :
             Recoverable(c) /\ ~Recoverable(c)' => \E k \in Typed : EditSecret(SecretOf(c), k)]_vars
  BY StepKeeps
<1> QED BY <1>1, Invariance, PTL DEF Spec, LiveValuesRecoverable

(* A backend that listens is in production mode with AUTH_MODE=real, and   *)
(* its copies of JWT_SECRET are none of those that readSecret rejects,     *)
(* whatever the settings files and secrets hold, whoever types over them   *)
(* and however they change while it starts.                                *)
THEOREM BackendRunsReal == Spec => []RunningBackendIsReal
<1>1. IndInv => RunningBackendIsReal
  BY DEF IndInv, BackendInv, RunningBackendIsReal
<1> QED BY Invariance, <1>1, PTL
=============================================================================
