SPECIFICATION Spec
CONSTANTS
    Rotated <- TwoRotated
    Manual = {"db_password"}
    Overtyped = {}
    Typed = {"strong"}
    DotEnvs <- ProductionDotEnv
    ProdEnvs <- WorkingProdEnv
    Interruptible = FALSE
    OpensslFails = FALSE
    MaxGen = 6
INVARIANT OneJwtSecret
