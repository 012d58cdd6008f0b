SPECIFICATION Spec
CONSTANTS
    Names = {1, 2}
    Protocols = {1}
    Versions = {1}
    Transactions = {1, 2}
    Endpoints = {1, 2, 3}
    MaxServices = 2
    MaxClients = 1
    MaxPendingWatches = 2
    MaxOutstanding = 2
    ClientReplay = 1
    PublicationReplay = 1
    MaxEndpointIds = 3
    MaxPublicationIds = 2
    MaxClientIds = 2
    PublicationInstalls <- MCPublications
    ClientInstalls <- MCClients
    Observed = {0, 1}
INVARIANTS
    TypeOK
    WatchesAreCurrent
    WatchesAreLive
    TicketsAreOwn
    EndpointsAreDistinct
