SPECIFICATION Spec
CONSTANTS
    Analyzers = {a1, a2}
    Logs <- MCLogs
    Rules <- MCRules
    EndpointSampleLimit = 1
    PushLimit = 1
    BucketLength <- MCBucketLength
    MaxEvents = 3
    SuiteRequests <- MCSuiteRequests
    FailingTypes = {"BOLA"}
    Policy <- MCPolicy
    URLs <- MCURLs
CONSTRAINT UntilAnswered
SYMMETRY Symmetry
CHECK_DEADLOCK FALSE
INVARIANT TypeOK
INVARIANT SamplesAreTheNewest
INVARIANT CountsWithinRequests
INVARIANT JobsUseOfferedTokens
INVARIANT SuiteIsAccounted
