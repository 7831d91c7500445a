SPECIFICATION FairSpec
CONSTANTS
    Rotated <- TwoRotated
    Manual = {"db_password"}
    Overtyped = {"jwt_secret"}
    Typed = {"short"}
    DotEnvs <- SeveralDotEnvs
    ProdEnvs <- WorkingProdEnv
    Interruptible = TRUE
    OpensslFails = TRUE
    MaxGen = 3
INVARIANTS TypeOK RunningBackendIsReal IndInv
PROPERTIES LiveValuesRecoverable SecretsAreVersioned ServicesComeBack
