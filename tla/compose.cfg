SPECIFICATION ComposeSpec
CONSTANTS
    IRIs <- MCIRIs
    Prefixes <- MCPrefixes
    Claims <- MCClaims
    Length <- MCLength
    MaxLines = 4
CHECK_DEADLOCK FALSE
INVARIANTS WholeOrNothing MostSpecificAnswers
