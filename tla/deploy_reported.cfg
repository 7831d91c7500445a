SPECIFICATION Spec
CONSTANTS
    MaxCommit = 2
    Deployer = {"operator"}
    Tag <- ShaTags
    NoTag = NoTag
    SessionTag = NoTag
    TagsFor <- ShaTag
    MaxPolls = 2
PROPERTY ReportedHealthyIsHealthy
CHECK_DEADLOCK FALSE
