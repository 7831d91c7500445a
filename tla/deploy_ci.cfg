SPECIFICATION FairSpec
CONSTANTS
    MaxCommit = 3
    Deployer = {"ci"}
    Tag = {"latest"}
    NoTag = NoTag
    SessionTag = "latest"
    TagsFor <- LatestTag
    MaxPolls = 2
INVARIANTS DeployedIsConsistent UpCanProceed
PROPERTIES NeverBackwards WorkflowImplementsProduction DeploymentEnds
CHECK_DEADLOCK FALSE
