SPECIFICATION Spec
CONSTANTS
    MaxCommit = 2
    Deployer = {"operator"}
    Tag = {"latest"}
    NoTag = NoTag
    SessionTag = NoTag
    TagsFor <- LatestTag
    MaxPolls = 2
INVARIANT SchemaReady
CHECK_DEADLOCK FALSE
