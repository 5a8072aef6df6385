SPECIFICATION Spec
CONSTANTS
    Requests = {r1, r2}
    Values = {v1, v2}
    Default = v1
    Same = Same
    MaxRequests = 5
    MaxFaults = 1
SYMMETRY Symmetry
CHECK_DEADLOCK FALSE
INVARIANT TypeOK
INVARIANT ActiveAgentIsServed
INVARIANT EnrollmentYieldsOneAgent
INVARIANT AutoSourcesBounded
INVARIANT ShownTokenWorks
INVARIANT SequentialUpdatesKept
