SPECIFICATION FairSpec
CONSTANTS
    Clients = {c1, c2, c3, c4}
    Table = 3
    Floor = 10
    Ceiling = 1000
    Transient <- AnyTransient
    LimitAborts = TRUE
    MaxFailures = 10
INVARIANTS EpisodeConsistent EpisodeReported Schedule OnlyDeathEnds
PROPERTIES QueueMoves DeathShows Implements
