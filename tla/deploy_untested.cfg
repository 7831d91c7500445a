SPECIFICATION Spec
CONSTANTS
    MaxCommit = 2
    Deployer = {"ci"}
    Tag <- ShaTags
    NoTag = NoTag
    SessionTag = NoTag
    TagsFor <- ShaTag
    MaxPolls = 2
INVARIANT DeployedPassedCi
CHECK_DEADLOCK FALSE
