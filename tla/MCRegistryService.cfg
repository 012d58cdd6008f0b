SPECIFICATION Spec
CONSTANTS
    Names = {1, 2}
    Protocols = {1}
    Versions = {1, 2}
    Transactions = {1, 2}
    Endpoints = {1, 2, 3, 4, 5}
    MaxServices = 2
    MaxClients = 2
    MaxPendingWatches = 2
    MaxOutstanding = 2
    ClientReplay = 1
    PublicationReplay = 1
    MaxEndpointIds = 4
    MaxPublicationIds = 3
    MaxClientIds = 2
    PublicationInstalls <- MCPublications
    ClientInstalls <- MCClients
    Observed = {0, 1}
    PageRecords = 1
    MaxInstalls = 3
    MaxRequests = 4
INVARIANTS
    TypeOK
    AnsweredExactlyOnce
    HandlesBalanced
    NoticesAreTrue
    PublicationsAdvance
    ListingIsCanonical
CHECK_DEADLOCK FALSE
