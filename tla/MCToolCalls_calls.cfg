\* Two calls of any kind, one replacement of the executor's binary.
CONSTANTS
    c1 = c1
    c2 = c2
    Calls = {c1, c2}
    Requests <- MCRequests
    Policies <- MCPolicies
    Hosts <- MCHosts
    Nobody = Nobody
    FileMax = 1
    KeepN = 5
    Builds <- MCBuilds
    MaxReplaced = 1
SPECIFICATION Spec
INVARIANTS DenialDisclosed CacheHonest NoInstallBehindTheCaller DecisionsOnRecord 
PROPERTY Answered
