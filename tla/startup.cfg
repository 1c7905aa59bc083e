SPECIFICATION Spec
CONSTANTS
    Lo = lo
    Lan = lan
    Cap1 = cap1
    Cap2 = cap2
    Addrs = {lo, lan}
    Loopback = {lo}
    Localhost = lo
    Scopes = {cap1, cap2}
    Files <- MCFiles
    IRIs <- MCIRIs
    Prefixes <- MCPrefixes
    Claims <- MCClaims
    Length <- MCLength
    MaxLines = 4
    MaxArgs = 2
    Malformed = Malformed
    Missing = Missing
    Unset = Unset
    Root = Root
CHECK_DEADLOCK FALSE
INVARIANTS RootNeverBeyondLoopback SocketOnlyIfAdmitted EveryMountServed ExposureIsSpelled CeilingIsSpelled ContradictionNeverOpens
