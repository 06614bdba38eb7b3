\* One picture per connection and a web server that waits for its result.
CONSTANTS
    Board = {b1, b2}
    Limit = 1
    PerConn = 1
    FlagLimit = 2
    MaxConns = 4
    MaxWaiting = 1
    Overlap = FALSE
    MaxDeaths = 0
SPECIFICATION FairSpec
INVARIANTS
    ResultsOnTheirConnection
    ServedBeforeClosed
PROPERTY
    AllResultsDelivered
