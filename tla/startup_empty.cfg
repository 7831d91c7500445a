SPECIFICATION Spec
CONSTANTS
    Rotated <- TwoRotated
    Manual = {"db_password"}
    Overtyped = {}
    Typed = {"strong"}
    DotEnvs <- ProductionDotEnv
    ProdEnvs <- WorkingProdEnv
    Interruptible = TRUE
    OpensslFails = TRUE
    MaxGen = 4
INVARIANT CheckedSecretsHaveValues
