SPECIFICATION Spec
CONSTANTS
    MaxCommit = 3
    Deployer = {"operator"}
    Tag <- ShaTags
    NoTag = NoTag
    SessionTag = NoTag
    TagsFor <- ShaTag
    MaxPolls = 1
INVARIANTS TypeOK SchemaReady
PROPERTY OperatorImplementsProduction
CHECK_DEADLOCK FALSE
