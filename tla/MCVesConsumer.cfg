SPECIFICATION FairSpec
CONSTANTS
    Hosts = {g, h}
INVARIANTS
    NoStrayConnection
PROPERTIES
    DownloadEnds
    FetchEnds
    StopEnds
