SPECIFICATION FairSpec
CONSTANTS
    Invalid = Invalid
    MaxChanges = 2
    MaxFaults = 2
    MaxQueue = 1
CHECK_DEADLOCK FALSE
PROPERTIES NeverGoesBack EndpointsAreLearnt StopEndsClient
