--------------------------- MODULE SecretsProofs ---------------------------
(***************************************************************************)
(* StartUp implements VersionedSecrets: for any secrets and settings, any  *)
(* typing over, and any number of rotations, failed or interrupted or not. *)
(* What a failure, an interruption, or an edit in the midst of a start     *)
(* spoils holds without them.                                              *)
(***************************************************************************)
EXTENDS StartUpProofs

(* A version is the number of a generated value.                           *)
LEMMA Values ==
    /\ MaxGen \in Nat
    /\ \A g \in 1 .. MaxGen : Value(g) \in Content /\ Value(g).gen = g
    /\ \A g \in 1 .. MaxGen : Value(g).kind \notin {"missing", "empty"}
    /\ \A g, h \in 1 .. MaxGen : Value(g) = Value(h) => g = h
    /\ \A g \in 1 .. MaxGen, k \in Kind : Value(g) # Of(k)
    /\ \A x \in Content : x.gen = 0 \/ \E g \in 1 .. MaxGen : x = Value(g)
<1>1. /\ MaxGen \in Nat
      /\ \A g \in 1 .. MaxGen : Value(g) \in Content
      /\ \A g : Value(g).gen = g /\ Value(g).kind = "strong"
      /\ \A k : Of(k).gen = 0
  BY StartUpAssumption DEF Content, Value, Of
<1>2. \A x \in Content : x.gen = 0 \/ \E g \in 1 .. MaxGen : x = Value(g)
  BY <1>1 DEF Content
<1>3. \A g \in 1 .. MaxGen, k \in Kind : Value(g) # Of(k)
  BY <1>1
<1>4. \A g, h \in 1 .. MaxGen : Value(g) = Value(h) => g = h
  BY <1>1
<1> QED BY <1>1, <1>2, <1>3, <1>4

(* The files and backups of s that hold version n.                         *)
HasVersion(s, n) == file[s] = Value(n) \/ <<s, Value(n)>> \in backup

LEMMA VersionsOf ==
    ASSUME NEW s \in Generated
    PROVE  /\ \A n : n \in Versions[s] <=> n \in 1 .. MaxGen /\ HasVersion(s, n)
           /\ \A n : n \in Versions'[s] <=> n \in 1 .. MaxGen /\ HasVersion(s, n)'
<1>1. Versions[s] = Kept(s) /\ Versions'[s] = Kept(s)'
  BY DEF Versions
<1>2. \A n : n \in Kept(s) <=> n \in 1 .. MaxGen /\ HasVersion(s, n)
  BY DEF Kept, HasVersion
<1>3. \A n : n \in Kept(s)' <=> n \in 1 .. MaxGen /\ HasVersion(s, n)'
  BY DEF Kept, HasVersion
<1> QED BY <1>1, <1>2, <1>3

(* Every version has been generated, and none is newer than the one in its *)
(* secret's file.                                                          *)
LEMMA VersionsBounded ==
    ASSUME IndInv, VersionInv, NEW s \in Generated, NEW n \in Versions[s]
    PROVE  /\ n \in 1 .. MaxGen /\ n <= minted
           /\ \A h \in 1 .. MaxGen : file[s] = Value(h) => n <= h
<1>1. n \in 1 .. MaxGen /\ HasVersion(s, n)
  BY VersionsOf
<1>2. ASSUME NEW h \in 1 .. MaxGen, file[s] = Value(h) PROVE n <= h
  <2>1. CASE file[s] = Value(n)
    <3>1. n = h
      BY <1>1, <1>2, <2>1, Values
    <3> QED BY <1>1, <3>1
  <2>2. CASE <<s, Value(n)>> \in backup
    BY <1>1, <1>2, <2>2 DEF VersionInv
  <2> QED BY <1>1, <2>1, <2>2 DEF HasVersion
<1>3. n <= minted
  BY <1>1 DEF HasVersion, VersionInv
<1> QED BY <1>1, <1>2, <1>3

(* Files and backups that hold the same generated values.                  *)
LEMMA SameVersions ==
    ASSUME \A s \in Generated, g \in 1 .. MaxGen : HasVersion(s, g)' <=> HasVersion(s, g)
    PROVE  Versions' = Versions
<1>1. ASSUME NEW s \in Generated PROVE Versions'[s] = Versions[s]
  <2>1. \A n : n \in Versions'[s] <=> n \in Versions[s]
    BY VersionsOf
  <2> QED BY <2>1
<1>2. Versions' = [s \in Generated |-> Versions'[s]] /\ Versions = [s \in Generated |-> Versions[s]]
  BY DEF Versions
<1> QED BY <1>1, <1>2, Zenon

(* One secret's versions change.                                           *)
LEMMA OneSecretChanges ==
    ASSUME NEW s \in Generated, NEW V,
           \A n : n \in Versions'[s] <=> n \in V,
           \A t \in Generated \ {s}, g \in 1 .. MaxGen : HasVersion(t, g)' <=> HasVersion(t, g)
    PROVE  Versions' = [Versions EXCEPT ![s] = V]
<1>1. Versions'[s] = V
  OBVIOUS
<1>2. ASSUME NEW t \in Generated \ {s} PROVE Versions'[t] = Versions[t]
  <2>1. \A n : n \in Versions'[t] <=> n \in Versions[t]
    BY VersionsOf
  <2> QED BY <2>1
<1>3. Versions' = [t \in Generated |-> Versions'[t]] /\ Versions = [t \in Generated |-> Versions[t]]
  BY DEF Versions
<1>4. [Versions EXCEPT ![s] = V] = [t \in Generated |-> IF t = s THEN V ELSE Versions[t]]
  BY <1>3
<1>5. \A t \in Generated : Versions'[t] = IF t = s THEN V ELSE Versions[t]
  BY <1>1, <1>2
<1> QED BY <1>3, <1>4, <1>5, Zenon
-----------------------------------------------------------------------------
(* What a step does to the versions and to the copies in memory.           *)
Added(s, n) ==
    /\ \A t \in Generated : \A m \in Versions[t] : m < n
    /\ Versions' = [Versions EXCEPT ![s] = @ \cup {n}]
    /\ UNCHANGED loaded

TypedOver(s, n) ==
    /\ s \in Overtyped
    /\ n \in Versions[s] /\ \A m \in Versions[s] : m <= n
    /\ Versions' = [Versions EXCEPT ![s] = @ \ {n}]
    /\ UNCHANGED loaded

Taken(c) ==
    /\ loaded' = [loaded EXCEPT ![c] = file[SecretOf(c)]]
    /\ UNCHANGED <<file, minted, backup>>

Left(copies) == loaded' = Dropped(copies) /\ UNCHANGED <<file, minted, backup>>

Idling == UNCHANGED <<Versions, loaded>>

SecretsMove ==
    \/ \E s \in Generated, n \in 1 .. MaxGen : Added(s, n)
    \/ \E s \in Generated, n \in 1 .. MaxGen : TypedOver(s, n)
    \/ \E c \in Copy : Taken(c)
    \/ \E copies \in SUBSET Copy : Left(copies)
    \/ Idling

(* The steps that write a file of a secret or a backup.                    *)

(* A new value in a file that held nothing.                                *)
LEMMA MintMoves ==
    ASSUME IndInv, VersionInv, NEW s \in Generated, ~Holds(s), Mint(s),
           UNCHANGED <<backup, loaded>>
    PROVE  VersionInv' /\ SecretsMove
<1> DEFINE g == minted + 1
<1>1. /\ minted \in Nat /\ g \in 1 .. MaxGen /\ minted' = g
      /\ file' = [file EXCEPT ![s] = Value(g)]
  BY StartUpAssumption DEF Mint, IndInv, TypeOK
<1>2. /\ file'[s] = Value(g)
      /\ \A t \in Generated \ {s} : file'[t] = file[t]
  BY <1>1, RotatedSecrets DEF IndInv, TypeOK
<1>3. \A h \in 1 .. MaxGen : file[s] # Value(h)
  BY Values DEF Holds
<1>4. \A t \in Generated : \A m \in Versions[t] : m \in 1 .. MaxGen /\ m <= minted
  BY VersionsBounded
<1>5. \A h \in 1 .. MaxGen : file'[s] = Value(h) => h = g
  BY <1>1, <1>2, Values
<1> HIDE DEF g
<1>6. VersionInv'
  <2>1. ASSUME NEW t \in Generated, NEW h \in 1 .. MaxGen, file'[t] = Value(h)
        PROVE  h <= minted'
    <3>1. CASE t = s
      BY <1>1, <1>5, <2>1, <3>1
    <3>2. CASE t # s
      <4>1. h <= minted
        BY <1>2, <2>1, <3>2 DEF VersionInv
      <4> QED BY <1>1, <4>1 DEF g
    <3> QED BY <3>1, <3>2
  <2>2. ASSUME NEW t \in Generated, NEW n \in 1 .. MaxGen, <<t, Value(n)>> \in backup'
        PROVE  n <= minted' /\ \A h \in 1 .. MaxGen : file'[t] = Value(h) => n <= h
    <3>1. n <= minted
      BY <2>2 DEF VersionInv
    <3>2. n <= minted'
      BY <1>1, <3>1 DEF g
    <3>3. CASE t = s
      BY <1>1, <1>5, <3>2, <3>3
    <3>4. CASE t # s
      BY <1>2, <2>2, <3>2, <3>4 DEF VersionInv
    <3> QED BY <3>3, <3>4
  <2> QED BY <2>1, <2>2 DEF VersionInv
<1>7. Versions' = [Versions EXCEPT ![s] = @ \cup {g}]
  <2>1. \A n : n \in Versions'[s] <=> n \in Versions[s] \cup {g}
    BY <1>1, <1>2, <1>3, <1>5, VersionsOf DEF HasVersion
  <2>2. \A t \in Generated \ {s}, h \in 1 .. MaxGen : HasVersion(t, h)' <=> HasVersion(t, h)
    BY <1>2 DEF HasVersion
  <2> QED BY <2>1, <2>2, OneSecretChanges
<1>8. \A t \in Generated : \A m \in Versions[t] : m < g
  BY <1>1, <1>4 DEF g
<1>9. Added(s, g)
  BY <1>7, <1>8 DEF Added
<1> QED BY <1>1, <1>6, <1>9 DEF SecretsMove

(* A file loses what a backup has, or what is no generated value.          *)
LEMMA EmptiedMoves ==
    ASSUME IndInv, VersionInv, NEW s \in Secret, NEW k \in Kind,
           file' = [file EXCEPT ![s] = Of(k)], UNCHANGED <<minted, backup, loaded>>,
           s \in Generated /\ Holds(s) => <<s, file[s]>> \in backup
    PROVE  VersionInv' /\ SecretsMove
<1>1. /\ file'[s] = Of(k)
      /\ \A t \in Generated \ {s} : file'[t] = file[t]
  BY RotatedSecrets DEF IndInv, TypeOK
<1>2. \A g \in 1 .. MaxGen : file'[s] # Value(g)
  BY <1>1, Values
<1>3. VersionInv'
  BY <1>1, <1>2 DEF VersionInv
<1>4. ASSUME NEW t \in Generated, NEW g \in 1 .. MaxGen
      PROVE  HasVersion(t, g)' <=> HasVersion(t, g)
  <2>1. CASE t = s
    <3>1. file[s] = Value(g) => <<s, Value(g)>> \in backup
      BY <2>1, Values DEF Holds
    <3> QED BY <1>2, <2>1, <3>1 DEF HasVersion
  <2>2. CASE t # s
    BY <1>1, <2>2 DEF HasVersion
  <2> QED BY <2>1, <2>2
<1> QED BY <1>3, <1>4, SameVersions DEF SecretsMove, Idling

LEMMA EditMoves ==
    ASSUME IndInv, VersionInv, NEW s \in Secret, NEW k \in Typed, EditSecret(s, k)
    PROVE  VersionInv' /\ SecretsMove
<1>1. /\ k \in Kind
      /\ file' = [file EXCEPT ![s] = Of(k)] /\ UNCHANGED <<minted, backup, loaded>>
      /\ s \in Generated => s \in Overtyped
  BY StartUpAssumption DEF EditSecret, serviceVars
<1>2. CASE s \in Generated /\ Holds(s) => <<s, file[s]>> \in backup
  BY <1>1, <1>2, EmptiedMoves
<1>3. ASSUME s \in Generated, Holds(s), <<s, file[s]>> \notin backup
      PROVE  VersionInv' /\ SecretsMove
  <2>1. /\ file'[s] = Of(k)
        /\ \A t \in Generated \ {s} : file'[t] = file[t]
        /\ file[s] \in Content
    BY <1>1, RotatedSecrets DEF IndInv, TypeOK
  <2>2. \A g \in 1 .. MaxGen : file'[s] # Value(g)
    BY <1>1, <2>1, Values
  <2>3. VersionInv'
    BY <1>1, <2>1, <2>2 DEF VersionInv
  <2>4. \A t \in Generated \ {s}, g \in 1 .. MaxGen : HasVersion(t, g)' <=> HasVersion(t, g)
    BY <1>1, <2>1 DEF HasVersion
  <2>5. CASE \A g \in 1 .. MaxGen : file[s] # Value(g)
    <3>1. \A g \in 1 .. MaxGen : HasVersion(s, g)' <=> HasVersion(s, g)
      BY <1>1, <2>2, <2>5 DEF HasVersion
    <3>2. Versions' = Versions
      BY <2>4, <3>1, SameVersions
    <3> QED BY <1>1, <2>3, <3>2 DEF SecretsMove, Idling
  <2>6. ASSUME NEW n \in 1 .. MaxGen, file[s] = Value(n)
        PROVE  SecretsMove
    <3>1. n \in Versions[s]
      BY <1>3, <2>6, VersionsOf DEF HasVersion
    <3>2. \A m \in Versions[s] : m <= n
      BY <1>3, <2>6, VersionsBounded
    <3>3. \A m : m \in Versions'[s] <=> m \in Versions[s] \ {n}
      BY <1>1, <1>3, <2>2, <2>6, Values, VersionsOf DEF HasVersion
    <3>4. Versions' = [Versions EXCEPT ![s] = @ \ {n}]
      BY <1>3, <2>4, <3>3, OneSecretChanges
    <3>5. TypedOver(s, n)
      BY <1>1, <1>3, <3>1, <3>2, <3>4 DEF TypedOver
    <3> QED BY <1>3, <3>5 DEF SecretsMove
  <2> QED BY <2>3, <2>5, <2>6
<1> QED BY <1>2, <1>3

LEMMA SecretsInitMoves ==
    ASSUME IndInv, VersionInv, NEW s \in Secret, SecretsInit(s)
    PROVE  VersionInv' /\ SecretsMove
<1>1. file' = [file EXCEPT ![s] = Of("empty")] /\ UNCHANGED <<minted, backup, loaded>> /\ ~Holds(s)
  BY DEF SecretsInit, Empty, Holds, serviceVars
<1> QED BY <1>1, EmptiedMoves DEF Kind

LEMMA BackupMoves ==
    ASSUME IndInv, VersionInv, RotateBackup
    PROVE  VersionInv' /\ SecretsMove
<1>1. /\ UNCHANGED <<file, minted, loaded>>
      /\ backup' = backup \cup {<<s, file[s]>> : s \in {t \in Generated : Holds(t)}}
  BY DEF RotateBackup, serviceVars
<1>2. \A s, x : <<s, x>> \in backup' => <<s, x>> \in backup \/ x = file[s]
  BY <1>1
<1>3. VersionInv'
  <2>1. ASSUME NEW s \in Generated, NEW g \in 1 .. MaxGen, <<s, Value(g)>> \in backup'
        PROVE  g <= minted /\ \A h \in 1 .. MaxGen : file[s] = Value(h) => g <= h
    <3>1. CASE <<s, Value(g)>> \in backup
      BY <3>1 DEF VersionInv
    <3>2. CASE file[s] = Value(g)
      <4>1. ASSUME NEW h \in 1 .. MaxGen, file[s] = Value(h) PROVE g <= h
        <5>1. g = h
          BY <3>2, <4>1, Values
        <5> QED BY <5>1
      <4>2. g <= minted
        BY <3>2 DEF VersionInv
      <4> QED BY <4>1, <4>2
    <3> QED BY <1>2, <2>1, <3>1, <3>2
  <2> QED BY <1>1, <2>1 DEF VersionInv
<1>4. \A s \in Generated, g \in 1 .. MaxGen : HasVersion(s, g)' <=> HasVersion(s, g)
  BY <1>1, <1>2 DEF HasVersion
<1> QED BY <1>1, <1>3, <1>4, SameVersions DEF SecretsMove, Idling

LEMMA TruncateMoves ==
    ASSUME IndInv, VersionInv, RotateTruncate
    PROVE  VersionInv' /\ SecretsMove
<1> DEFINE s == Rotated[rotating]
<1>1. /\ file' = [file EXCEPT ![s] = Of("empty")]
      /\ UNCHANGED <<minted, backup, loaded>>
  BY DEF RotateTruncate, Empty, serviceVars
<1>2. rotating \in 1 .. Len(Rotated) /\ s \in Secret
  BY RotatedSecrets DEF IndInv, TypeOK, RotateTruncate
<1>3. Holds(s) => <<s, file[s]>> \in backup
  BY <1>2 DEF IndInv, RotationInv
<1> HIDE DEF s
<1> QED BY <1>1, <1>2, <1>3, EmptiedMoves DEF Kind

(* The steps that leave files, backups and the count of values alone.      *)
LEMMA QuietMoves ==
    ASSUME VersionInv, UNCHANGED <<file, minted, backup>>,
           \/ UNCHANGED loaded
           \/ \E c \in Copy : Taken(c)
           \/ \E copies \in SUBSET Copy : loaded' = Dropped(copies)
    PROVE  VersionInv' /\ SecretsMove
<1>1. Versions' = Versions
  BY SameVersions DEF HasVersion
<1>2. VersionInv'
  BY DEF VersionInv
<1> QED BY <1>1, <1>2 DEF SecretsMove, Idling, Left

LEMMA WriteMoves ==
    ASSUME IndInv, VersionInv, SecretsInitWrites \/ RotateWrite
    PROVE  VersionInv' /\ SecretsMove
<1>1. /\ UNCHANGED <<backup, loaded>>
      /\ filling # "none" /\ filling \in Secret /\ ~Holds(filling)
      /\ \/ /\ filling \in Manual
            /\ file' = [file EXCEPT ![filling] = Of("template")] /\ UNCHANGED minted
         \/ filling \in Generated /\ Mint(filling)
         \/ UNCHANGED <<file, minted>>
  <2>1. CASE SecretsInitWrites
    BY <2>1 DEF SecretsInitWrites, IndInv, TypeOK, RotationInv, Holds, serviceVars
  <2>2. CASE RotateWrite
    <3>1. filling = Rotated[rotating] /\ filling \in Generated
      BY <2>2, RotatedSecrets DEF RotateWrite, IndInv, TypeOK, RotationInv
    <3> QED BY <2>2, <3>1 DEF RotateWrite, IndInv, TypeOK, RotationInv, Holds, serviceVars
  <2> QED BY <2>1, <2>2
<1>2. CASE file' = [file EXCEPT ![filling] = Of("template")] /\ UNCHANGED minted
  BY <1>1, <1>2, EmptiedMoves DEF Kind
<1>3. CASE filling \in Generated /\ Mint(filling)
  BY <1>1, <1>3, MintMoves
<1>4. CASE UNCHANGED <<file, minted>>
  BY <1>1, <1>4, QuietMoves
<1> QED BY <1>1, <1>2, <1>3, <1>4

LEMMA ServiceStepMoves ==
    ASSUME IndInv, VersionInv,
           \/ EditSettings \/ Interrupted \/ DeploymentStep
           \/ BackendStep \/ RedisStarts \/ ReportsStarts
           \/ \E s \in Service : Crash(s)
    PROVE  VersionInv' /\ SecretsMove
<1>1. CASE \/ EditSettings \/ Interrupted \/ PassChecks \/ DeploymentFails
           \/ \E s \in Service : UpStarts(s)
           \/ BackendListens \/ ReportsStarts
  <2>1. UNCHANGED <<file, minted, backup, loaded>>
    BY <1>1 DEF EditSettings, Interrupted, PassChecks, DeploymentFails, UpStarts,
       BackendListens, ReportsStarts, secretsVars, serviceVars
  <2> QED BY <2>1, QuietMoves
<1>2. ASSUME NEW newImage \in BOOLEAN, ComposeUp(newImage) PROVE VersionInv' /\ SecretsMove
  <2> DEFINE Recreated(s) == s # "redis" /\ (newImage \/ Composed # container)
             Created == {s \in Service : state[s] = "absent" \/ Recreated(s)}
             copies == UNION {CopiesOf(s) : s \in Created}
  <2>1. loaded' = Dropped(copies) /\ UNCHANGED <<file, minted, backup>>
    BY <1>2 DEF ComposeUp, secretsVars
  <2>2. copies \in SUBSET Copy
    BY CopiesTyped
  <2> HIDE DEF copies
  <2> QED BY <2>1, <2>2, QuietMoves
<1>3. CASE BackendFails \/ \E s \in Service : Crash(s)
  <2>1. PICK s \in Service : loaded' = Dropped(CopiesOf(s)) /\ UNCHANGED <<file, minted, backup>>
    BY <1>3 DEF BackendFails, Crash, secretsVars, Service
  <2>2. CopiesOf(s) \in SUBSET Copy
    BY CopiesTyped
  <2> QED BY <2>1, <2>2, QuietMoves
<1>4. CASE BackendImports \/ BackendCreates \/ RedisStarts
  <2>1. \/ Taken("signs") \/ Taken("verifies") \/ Taken("requirepass")
    BY <1>4 DEF BackendImports, BackendCreates, RedisStarts, Taken, SecretOf, secretsVars
  <2>2. \E c \in Copy : Taken(c)
    BY <2>1 DEF Copy
  <2>3. UNCHANGED <<file, minted, backup>>
    BY <2>1 DEF Taken
  <2> QED BY <2>2, <2>3, QuietMoves
<1> QED BY <1>1, <1>2, <1>3, <1>4 DEF BackendStep, DeploymentStep

LEMMA NextMoves ==
    ASSUME IndInv, VersionInv, Next
    PROVE  VersionInv' /\ SecretsMove
<1>1. ASSUME NEW s \in Secret, SecretsInit(s) \/ \E k \in Typed : EditSecret(s, k)
      PROVE  VersionInv' /\ SecretsMove
  BY <1>1, SecretsInitMoves, EditMoves
<1>2. CASE SecretsInitWrites \/ RotateBackup \/ RotateTruncate \/ RotateWrite
  BY <1>2, BackupMoves, TruncateMoves, WriteMoves
<1>3. CASE \/ EditSettings \/ Interrupted \/ DeploymentStep
           \/ BackendStep \/ RedisStarts \/ ReportsStarts
           \/ \E s \in Service : Crash(s)
  BY <1>3, ServiceStepMoves
<1> QED BY <1>1, <1>2, <1>3 DEF Next, SecretsStep
-----------------------------------------------------------------------------
LEMMA InUseOf ==
    /\ \A c \in Copy : InUse[c] = loaded[c].gen /\ InUse'[c] = loaded'[c].gen
    /\ InUse = [c \in Copy |-> InUse[c]] /\ InUse' = [c \in Copy |-> InUse'[c]]
BY DEF InUse

(* A process takes the newest version, or a typed value, which is none.    *)
LEMMA TakenMaps ==
    ASSUME IndInv, VersionInv, NEW c \in Copy, Taken(c)
    PROVE  Versioned!SecretsNext
<1> DEFINE s == SecretOf(c)
<1>1. s \in Generated /\ file[s] \in Content
  BY RotatedSecrets DEF IndInv, TypeOK
<1>2. Versions' = Versions
  BY SameVersions DEF Taken, HasVersion
<1>3. InUse' = [d \in Copy |-> IF d = c THEN file[s].gen ELSE InUse[d]]
  <2>1. loaded' = [loaded EXCEPT ![c] = file[s]] /\ loaded \in [Copy -> Content]
    BY DEF Taken, IndInv, TypeOK
  <2>2. \A d \in Copy : InUse'[d] = IF d = c THEN file[s].gen ELSE InUse[d]
    BY <2>1, InUseOf
  <2> QED BY <2>2, InUseOf
<1>4. CASE file[s].gen = 0
  <2>1. InUse' = [d \in Copy |-> IF d \in {c} THEN 0 ELSE InUse[d]]
    BY <1>3, <1>4
  <2>2. Versioned!Drop({c})
    BY <1>2, <2>1 DEF Versioned!Drop
  <2> QED BY <2>2 DEF Versioned!SecretsNext
<1>5. ASSUME NEW n \in 1 .. MaxGen, file[s] = Value(n)
      PROVE  Versioned!SecretsNext
  <2>1. file[s].gen = n
    BY <1>5, Values
  <2>2. n \in Versions[s] /\ \A m \in Versions[s] : m <= n
    BY <1>1, <1>5, VersionsOf, VersionsBounded DEF HasVersion
  <2>3. InUse' = [InUse EXCEPT ![c] = n]
    <3>1. [InUse EXCEPT ![c] = n] = [d \in Copy |-> IF d = c THEN n ELSE InUse[d]]
      BY DEF InUse
    <3> QED BY <1>3, <2>1, <3>1
  <2>4. Versioned!Take(c, n)
    BY <1>2, <2>2, <2>3 DEF Versioned!Take
  <2> QED BY <1>5, <2>4 DEF Versioned!SecretsNext
<1> QED BY <1>1, <1>4, <1>5, Values

LEMMA LeftMaps ==
    ASSUME NEW copies \in SUBSET Copy, Left(copies)
    PROVE  Versioned!SecretsNext
<1>1. Versions' = Versions
  BY SameVersions DEF Left, HasVersion
<1>2. InUse' = [c \in Copy |-> IF c \in copies THEN 0 ELSE InUse[c]]
  <2>1. loaded' = [c \in Copy |-> IF c \in copies THEN Nothing ELSE loaded[c]]
    BY DEF Left, Dropped
  <2>2. \A c \in Copy : InUse'[c] = IF c \in copies THEN 0 ELSE InUse[c]
    BY <2>1, InUseOf DEF Nothing, Of
  <2> QED BY <2>2, InUseOf
<1>3. Versioned!Drop(copies)
  BY <1>1, <1>2 DEF Versioned!Drop
<1> QED BY <1>3 DEF Versioned!SecretsNext

LEMMA MoveMaps ==
    ASSUME IndInv, VersionInv, SecretsMove
    PROVE  [Versioned!SecretsNext]_(Versioned!secretVars)
<1>1. ASSUME NEW s \in Generated, NEW n \in 1 .. MaxGen, Added(s, n) \/ TypedOver(s, n)
      PROVE  Versioned!SecretsNext
  <2>1. InUse' = InUse
    BY <1>1 DEF Added, TypedOver, InUse
  <2>2. Versioned!Add(s, n) \/ Versioned!Overwrite(s, n)
    BY <1>1, <2>1 DEF Added, TypedOver, Versioned!Add, Versioned!Overwrite
  <2> QED BY <2>2 DEF Versioned!SecretsNext
<1>2. CASE Idling
  BY <1>2 DEF Idling, InUse, Versioned!secretVars
<1> QED BY <1>1, <1>2, TakenMaps, LeftMaps DEF SecretsMove

LEMMA VersionsInitially == Init => VersionInv /\ Versioned!NoSecrets
<1> SUFFICES ASSUME Init PROVE VersionInv /\ Versioned!NoSecrets
  OBVIOUS
<1>1. /\ \A s \in Generated : file[s] = Nothing
      /\ backup = {} /\ loaded = [c \in Copy |-> Nothing]
  BY RotatedSecrets DEF Init
<1>2. \A s \in Generated, g \in 1 .. MaxGen : ~HasVersion(s, g)
  BY <1>1, Contents, Values DEF HasVersion
<1>3. VersionInv
  BY <1>2 DEF VersionInv, HasVersion
<1>4. Versions = [s \in Generated |-> {}]
  <2>1. \A s \in Generated : Versions[s] = {}
    <3>1. ASSUME NEW s \in Generated PROVE \A n : n \notin Versions[s]
      BY <1>2, VersionsOf
    <3> QED BY <3>1
  <2>2. Versions = [s \in Generated |-> Versions[s]]
    BY DEF Versions
  <2> QED BY <2>1, <2>2
<1>5. InUse = [c \in Copy |-> 0]
  BY <1>1 DEF InUse, Nothing, Of
<1> QED BY <1>3, <1>4, <1>5 DEF Versioned!NoSecrets

(* No generated value is ever shared, or lost but to an operator who types *)
(* over the newest, and every process takes the newest of its secret, or   *)
(* the typed one, whatever interrupts, fails, repeats or overlaps          *)
(* rotations and starts, and whatever the settings say meanwhile.          *)
THEOREM SecretsKeepTheirVersions == Spec => SecretsAreVersioned
<1> DEFINE Inv == IndInv /\ VersionInv
<1>1. Init => Inv /\ Versioned!NoSecrets
  BY InitHolds, VersionsInitially
<1>2. Inv /\ [Next]_vars => Inv' /\ [Versioned!SecretsNext]_(Versioned!secretVars)
  <2>1. ASSUME Inv, Next
        PROVE  VersionInv' /\ [Versioned!SecretsNext]_(Versioned!secretVars)
    BY <2>1, NextMoves, MoveMaps
  <2>2. ASSUME Inv, UNCHANGED vars
        PROVE  VersionInv' /\ UNCHANGED Versioned!secretVars
    <3>1. UNCHANGED <<file, minted, backup, loaded>>
      BY <2>2 DEF vars
    <3>2. Versions' = Versions
      BY <3>1, SameVersions DEF HasVersion
    <3>3. VersionInv'
      BY <2>2, <3>1 DEF VersionInv
    <3> QED BY <3>1, <3>2, <3>3 DEF InUse, Versioned!secretVars
  <2> QED BY <2>1, <2>2, NextKeeps
<1> QED BY <1>1, <1>2, PTL DEF Spec, SecretsAreVersioned, Versioned!SecretsSpec
-----------------------------------------------------------------------------
(* Failures of openssl and interruptions, of secrets-init as of rotations, *)
(* are the only ways to an empty secret that stays so.                     *)
LEMMA EmptyWhileFilled ==
    ASSUME Interruptible = FALSE, OpensslFails = FALSE, "empty" \notin Typed
    PROVE  Spec => []EmptyInv
<1>1. Init => EmptyInv
  BY Contents DEF Init, EmptyInv
<1>2. IndInv /\ EmptyInv /\ [Next]_vars => EmptyInv'
  <2> SUFFICES ASSUME IndInv, EmptyInv, [Next]_vars PROVE EmptyInv'
    OBVIOUS
  <2>0. file \in [Secret -> Content] /\ "none" \notin Secret
    BY StartUpAssumption DEF IndInv, TypeOK
  <2>1. ASSUME NEW s \in Secret, NEW k \in Typed, EditSecret(s, k) PROVE EmptyInv'
    <3>1. Of(k).kind # "empty"
      BY Contents, StartUpAssumption
    <3>2. file' = [file EXCEPT ![s] = Of(k)] /\ UNCHANGED filling
      BY <2>1 DEF EditSecret
    <3> QED BY <2>0, <3>1, <3>2 DEF EmptyInv
  <2>2. ASSUME NEW s \in Secret, filling = "none", Empty(s) PROVE EmptyInv'
    <3>1. \A t \in Secret : file[t].kind # "empty"
      BY <2>0, <2>2 DEF EmptyInv
    <3> QED BY <2>0, <2>2, <3>1 DEF Empty, EmptyInv
  <2>3. ASSUME NEW x, x.kind # "empty", filling \in Secret,
               file' = [file EXCEPT ![filling] = x]
        PROVE  EmptyInv'
    BY <2>0, <2>3 DEF EmptyInv
  <2>4. ASSUME filling \in Secret, Mint(filling) PROVE EmptyInv'
    <3>1. minted + 1 \in 1 .. MaxGen
      BY <2>4, StartUpAssumption DEF Mint, IndInv, TypeOK
    <3>2. Value(minted + 1).kind # "empty"
      BY <3>1, Values
    <3> QED BY <2>3, <2>4, <3>2 DEF Mint
  <2>5. CASE SecretsInitWrites
    <3>1. filling \in Secret
      BY <2>5 DEF SecretsInitWrites, Secret
    <3>2. CASE file' = [file EXCEPT ![filling] = Of("template")]
      <4>1. Of("template").kind # "empty"
        BY Contents DEF Kind
      <4> QED BY <2>3, <3>1, <3>2, <4>1
    <3> QED BY <2>4, <2>5, <3>1, <3>2 DEF SecretsInitWrites
  <2>6. CASE RotateWrite
    <3>1. filling \in Secret
      BY <2>6 DEF RotateWrite, IndInv, TypeOK
    <3> QED BY <2>4, <2>6, <3>1 DEF RotateWrite
  <2>7. CASE RotateTruncate
    <3>1. Rotated[rotating] \in Secret
      BY <2>7, RotatedSecrets DEF RotateTruncate, IndInv, TypeOK
    <3> QED BY <2>2, <2>7, <3>1 DEF RotateTruncate
  <2>8. ASSUME NEW s \in Secret, SecretsInit(s) PROVE EmptyInv'
    BY <2>2, <2>8 DEF SecretsInit, Quiet
  <2>9. CASE UNCHANGED <<file, filling>>
    BY <2>9 DEF EmptyInv
  <2> QED BY <2>1, <2>5, <2>6, <2>7, <2>8, <2>9
          DEF Next, SecretsStep, DeploymentStep, BackendStep, EditSettings, RotateBackup,
              Interrupted, PassChecks, DeploymentFails, ComposeUp, UpStarts,
              BackendImports, BackendCreates, BackendListens, BackendFails,
              RedisStarts, ReportsStarts, Crash, vars, secretsVars
<1> QED BY <1>1, <1>2, Invariance, PTL DEF Spec

(* If openssl never fails, neither secrets-init nor a rotation is          *)
(* interrupted, and nobody types an empty secret, secrets that pass the    *)
(* checks have values, which secrets-check announces without looking.      *)
THEOREM CheckedSecretsAreNotEmpty ==
    ASSUME Interruptible = FALSE, OpensslFails = FALSE, "empty" \notin Typed
    PROVE  Spec => []CheckedSecretsHaveValues
<1>1. EmptyInv => CheckedSecretsHaveValues
  BY StartUpAssumption DEF EmptyInv, CheckedSecretsHaveValues, Quiet
<1> QED BY <1>1, EmptyWhileFilled, PTL
-----------------------------------------------------------------------------
(* jwt_secret is left alone while a backend is between its first reading   *)
(* of it, for JwtModule, and its second, for AuthService ...               *)
JwtSecretStands ==
    state["backend"] = "imported" => file'["jwt_secret"] = file["jwt_secret"]

(* ... and until its third, in bootstrap.                                  *)
JwtSecretStandsLonger ==
    state["backend"] \in {"imported", "created"} => file'["jwt_secret"] = file["jwt_secret"]

JwtInv ==
    /\ state["backend"] = "imported" => loaded["signs"] = file["jwt_secret"]
    /\ state["backend"] \in {"created", "running"} => loaded["signs"] = loaded["verifies"]

(* The backend signs and verifies with a strong secret, as bootstrap means *)
(* to make sure.                                                           *)
StrongJwtSecret ==
    state["backend"] = "running" =>
        loaded["signs"].kind = "strong" /\ loaded["verifies"].kind = "strong"

StrongInv ==
    /\ state["backend"] \in {"imported", "created"} => loaded["signs"] = file["jwt_secret"]
    /\ state["backend"] = "created" => loaded["verifies"] = file["jwt_secret"]
    /\ StrongJwtSecret

(* A step that leaves the backend and its copies alone, or ends it.        *)
BackendAlone ==
    \/ state'["backend"] \in {"absent", "new", "starting"}
    \/ /\ state'["backend"] = state["backend"]
       /\ loaded'["signs"] = loaded["signs"] /\ loaded'["verifies"] = loaded["verifies"]

(* When a service is restarted, or a copy dropped, the backend is as well  *)
(* or keeps its own.                                                       *)
LEMMA DroppedAlone ==
    ASSUME TypeOK, NEW S \in SUBSET Service, "backend" \notin S,
           loaded' = Dropped(UNION {CopiesOf(s) : s \in S})
    PROVE  loaded'["signs"] = loaded["signs"] /\ loaded'["verifies"] = loaded["verifies"]
<1>1. \A s \in S : "signs" \notin CopiesOf(s) /\ "verifies" \notin CopiesOf(s)
  BY DEF CopiesOf, Service
<1>2. {"signs", "verifies"} \cap UNION {CopiesOf(s) : s \in S} = {}
  BY <1>1
<1> QED BY <1>2 DEF Dropped, Copy

LEMMA OthersLeaveItAlone ==
    ASSUME TypeOK, Next
    PROVE  BackendAlone \/ BackendImports \/ BackendCreates \/ BackendListens
<1>1. CASE UNCHANGED serviceVars
  BY <1>1 DEF BackendAlone, serviceVars
<1>2. ASSUME NEW newImage \in BOOLEAN, ComposeUp(newImage) PROVE BackendAlone
  <2>1. PICK S \in SUBSET Service :
           /\ state' = [s \in Service |-> IF s \in S THEN "new" ELSE state[s]]
           /\ loaded' = Dropped(UNION {CopiesOf(s) : s \in S})
    BY <1>2 DEF ComposeUp
  <2>2. CASE "backend" \in S
    BY <2>1, <2>2 DEF Service, BackendAlone
  <2>3. CASE "backend" \notin S
    BY <2>1, <2>3, DroppedAlone DEF Service, BackendAlone
  <2> QED BY <2>2, <2>3
<1>3. CASE BackendFails
  BY <1>3 DEF BackendFails, Reach, TypeOK, Service, BackendAlone
<1>4. CASE RedisStarts \/ ReportsStarts
  BY <1>4 DEF RedisStarts, ReportsStarts, Reach, TypeOK, Service, Copy, BackendAlone
<1>5. ASSUME NEW s \in Service, UpStarts(s) PROVE BackendAlone
  BY <1>5 DEF UpStarts, TypeOK, Service, BackendAlone
<1>6. ASSUME NEW s \in Service, Crash(s) PROVE BackendAlone
  <2>1. CASE s = "backend"
    BY <1>6, <2>1 DEF Crash, Reach, TypeOK, Service, BackendAlone
  <2>2. CASE s # "backend"
    <3>1. UNION {CopiesOf(x) : x \in {s}} = CopiesOf(s)
      OBVIOUS
    <3>2. state'["backend"] = state["backend"] /\ loaded' = Dropped(UNION {CopiesOf(x) : x \in {s}})
      BY <1>6, <2>2, <3>1 DEF Crash, Reach, TypeOK, Service
    <3>3. {s} \in SUBSET Service /\ "backend" \notin {s}
      BY <2>2
    <3> QED BY <3>2, <3>3, DroppedAlone DEF BackendAlone
  <2> QED BY <2>1, <2>2
<1> QED BY <1>1, <1>2, <1>3, <1>4, <1>5, <1>6
        DEF Next, BackendStep, SecretsStep, DeploymentStep, EditSettings, SecretsInit,
            SecretsInitWrites, EditSecret, RotateBackup, RotateTruncate, RotateWrite,
            Interrupted, PassChecks, DeploymentFails, serviceVars

(* A listening backend signs and verifies with one JWT secret, as the code *)
(* means it to, if jwt_secret is not written between its first two         *)
(* readings; what happens to the file before, or about the third, does no  *)
(* harm.  (Without the assumption it may have two.)                        *)
THEOREM OneSecretIfItStands == Spec /\ [][JwtSecretStands]_vars => []OneJwtSecret
<1>1. Init => JwtInv
  BY DEF Init, JwtInv, Service
<1>2. TypeOK /\ JwtInv /\ [Next]_vars /\ [JwtSecretStands]_vars => JwtInv'
  <2> SUFFICES ASSUME TypeOK, JwtInv, [Next]_vars, [JwtSecretStands]_vars PROVE JwtInv'
    OBVIOUS
  <2>1. CASE UNCHANGED vars
    BY <2>1 DEF vars, JwtInv
  <2>2. CASE BackendAlone /\ JwtSecretStands
    BY <2>2 DEF BackendAlone, JwtInv, JwtSecretStands
  <2>3. CASE BackendImports
    BY <2>3 DEF BackendImports, Reach, TypeOK, Service, Copy, JwtInv, secretsVars
  <2>4. CASE BackendCreates
    BY <2>4 DEF BackendCreates, Reach, TypeOK, Service, Copy, JwtInv
  <2>5. CASE BackendListens
    BY <2>5 DEF BackendListens, Reach, TypeOK, Service, JwtInv
  <2> QED BY <2>1, <2>2, <2>3, <2>4, <2>5, OthersLeaveItAlone
<1>3. JwtInv => OneJwtSecret
  BY DEF JwtInv, OneJwtSecret
<1> QED BY <1>1, <1>2, <1>3, TypeCorrect, PTL DEF Spec

(* A listening backend has a strong JWT secret, as bootstrap means to make *)
(* sure, if jwt_secret is not written between its first and its third      *)
(* reading.  (Otherwise the third may judge another value than the backend *)
(* uses: a weak one typed before, then replaced.)                          *)
THEOREM StrongSecretIfItStands == Spec /\ [][JwtSecretStandsLonger]_vars => []StrongJwtSecret
<1>1. Init => StrongInv
  BY DEF Init, StrongInv, StrongJwtSecret, Service
<1>2. TypeOK /\ StrongInv /\ [Next]_vars /\ [JwtSecretStandsLonger]_vars => StrongInv'
  <2> SUFFICES ASSUME TypeOK, StrongInv, [Next]_vars, [JwtSecretStandsLonger]_vars
               PROVE  StrongInv'
    OBVIOUS
  <2>1. CASE UNCHANGED vars
    BY <2>1 DEF vars, StrongInv, StrongJwtSecret
  <2>2. CASE BackendAlone /\ JwtSecretStandsLonger
    BY <2>2 DEF BackendAlone, StrongInv, StrongJwtSecret, JwtSecretStandsLonger
  <2>3. CASE BackendImports
    BY <2>3 DEF BackendImports, Reach, TypeOK, Service, Copy, StrongInv, StrongJwtSecret,
       secretsVars
  <2>4. CASE BackendCreates
    BY <2>4 DEF BackendCreates, Reach, TypeOK, Service, Copy, StrongInv, StrongJwtSecret,
       secretsVars
  <2>5. CASE BackendListens
    BY <2>5 DEF BackendListens, CanListen, Reach, TypeOK, Service, StrongInv, StrongJwtSecret,
       secretsVars
  <2> QED BY <2>1, <2>2, <2>3, <2>4, <2>5, OthersLeaveItAlone
<1>3. StrongInv => StrongJwtSecret
  BY DEF StrongInv
<1> QED BY <1>1, <1>2, <1>3, TypeCorrect, PTL DEF Spec
=============================================================================
