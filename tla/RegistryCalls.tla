---------------------------- MODULE RegistryCalls ----------------------------
(***************************************************************************)
(* What the registry state promises to any caller: the methods of module   *)
(* Registry called in any order with any arguments.  The service loop of   *)
(* RegistryService is one such caller (and is shown to implement this      *)
(* specification); the invariants below do not depend on its discipline    *)
(* beyond the tickets the types force on it.                               *)
(***************************************************************************)
EXTENDS Registry

VARIABLES
    reg,       \* the registry; generation 0 before the first install
    tickets    \* enumerations begun and neither completed nor abandoned

vars == <<reg, tickets>>

Init == reg = NewRegistry(0) /\ tickets = {}

Call(r) == reg' = r /\ UNCHANGED tickets

Open(g) == Call(Opened(reg, g))
CallInstallPublication(i) == Call(InstallPublication(Opened(reg, i.registry), i).reg)
CallInstallClient(i) == Call(InstallClient(reg, i).reg)

CallPreparePublish(e, t) ==
    e \in PublicationEndpoints(reg) /\ Call(PreparePublish(reg, e, t).reg)
CallCommitPublish(e, t) ==
    e \in PublicationEndpoints(reg) /\ Call(CommitPublish(reg, e, t).reg)
CallRetire(e, t) ==
    e \in PublicationEndpoints(reg) /\ Call(Retire(reg, e, t).reg)
CallPeerClosed(e) == Call(PeerClosed(reg, e).reg)

CallLookup(e, t, q) ==
    e \in ClientEndpoints(reg) /\ Call(Lookup(reg, e, t, q).reg)
CallWatch(e, t, q) ==
    e \in ClientEndpoints(reg) /\ Call(Watch(reg, e, t, q).reg)
CallCancel(e, t, target) ==
    e \in ClientEndpoints(reg) /\ Call(Cancel(reg, e, t, target).reg)
CallCompleteTransaction(e, t) ==
    /\ e \in ClientEndpoints(reg) \cup PublicationEndpoints(reg)
    /\ Call(CompleteTransaction(reg, e, t).reg)

\* An enumeration owns its ticket from enumerate_begin to
\* enumeration_complete, or until the service gives the client up.
BeginEnumeration(e, t) ==
    /\ e \in ClientEndpoints(reg)
    /\ reg' = EnumerateBegin(reg, e, t).reg
    /\ tickets' = IF EnumerateBegin(reg, e, t).ok THEN tickets \cup {<<e, t>>}
                  ELSE tickets

CompleteEnumeration(e, t) ==
    /\ <<e, t>> \in tickets /\ e \in ClientEndpoints(reg)
    /\ reg' = FinishClient(reg, e, t)
    /\ tickets' = tickets \ {<<e, t>>}

AbandonEnumeration(e, t) ==
    /\ <<e, t>> \in tickets
    /\ tickets' = tickets \ {<<e, t>>}
    /\ UNCHANGED reg

\* The process ends.
Crash == reg' = NewRegistry(0) /\ tickets' = {}

Next ==
    \/ \E i \in PublicationInstalls : CallInstallPublication(i)
    \/ \E i \in ClientInstalls : Open(i.registry) \/ CallInstallClient(i)
    \/ \E e \in Endpoints : CallPeerClosed(e)
    \/ \E e \in Endpoints, t \in Transactions :
           \/ CallPreparePublish(e, t) \/ CallCommitPublish(e, t) \/ CallRetire(e, t)
           \/ CallCompleteTransaction(e, t)
           \/ BeginEnumeration(e, t) \/ CompleteEnumeration(e, t)
           \/ AbandonEnumeration(e, t)
           \/ \E q \in LookupRequests : CallLookup(e, t, q)
           \/ \E q \in WatchRequests : CallWatch(e, t, q)
           \/ \E target \in Transactions : CallCancel(e, t, target)
    \/ Crash

Spec == Init /\ [][Next]_vars

-----------------------------------------------------------------------------
(* Properties                                                              *)

IsFcn(f) == f = [x \in DOMAIN f |-> f[x]]

\* Every service slot holds a well-formed publication of its latest generation
\* or none, clients sit at issued endpoints, watches are well formed, and
\* nothing exists before the registry is opened (lib.rs RegistryState).
WellFormed(r) ==
    /\ r \in [generation : Nat,
              services : [Names -> [lastGeneration : Nat,
                                    active : Publications \cup {Unpublished}]],
              clients : {r.clients},
              watches : SUBSET Watches,
              endpointIds : SUBSET Endpoints,
              publicationIds : {r.publicationIds},
              clientIds : {r.clientIds}]
    /\ IsFcn(r.clients)
    /\ DOMAIN r.clients \subseteq r.endpointIds
    /\ r.generation = 0 => r.endpointIds = {} /\ r.watches = {}
    /\ \A n \in Names : r.services[n].active # Unpublished =>
           r.services[n].active.generation = r.services[n].lastGeneration

TypeOK ==
    /\ WellFormed(reg)
    /\ tickets \subseteq Endpoints \X Transactions

\* No missed change: a pending watch waits on the generation that is current
\* for its service, whatever was published, retired or closed since it was
\* registered (watch, notify, commit_publish, retire, peer_closed).
CurrentWatches(r) ==
    \A w \in r.watches : w.last = CurrentGeneration(r, w.protocol, w.name)

WatchesAreCurrent == CurrentWatches(reg)

\* Every pending watch belongs to an installed client and holds one of its
\* live transactions, and no two watches share one: nothing completes a
\* watch's transaction while the watch is pending, and no watch outlives its
\* client (Client::reserve and complete, cancel, notify, peer_closed).
LiveWatches(r) ==
    \A w \in r.watches :
        /\ w.client \in ClientEndpoints(r)
        /\ w.transaction \in r.clients[w.client].live
        /\ \A v \in r.watches :
               v.client = w.client /\ v.transaction = w.transaction => v = w

WatchesAreLive == LiveWatches(reg)

\* An enumeration in progress owns its transaction: it stays live, and no
\* watch ever shares it, until the last page completes it, whatever a caller
\* that holds the ticket calls in between.  The daemon calls nothing: it sends
\* all pages in one step (enumerate_begin, enumeration_complete).
OwnTickets(r, held) ==
    \A k \in held :
        /\ k[1] \in r.endpointIds
        /\ k[1] \in ClientEndpoints(r) =>
               /\ k[2] \in r.clients[k[1]].live
               /\ \A w \in r.watches : w.client = k[1] => w.transaction # k[2]

TicketsAreOwn == OwnTickets(reg, tickets)

\* An endpoint names one party: no two publications share one, and none is a
\* client's, so peer_closed and the dispatch of a request find the party that
\* sent it (validate_fresh_endpoint_id, install_publication, install_client).
DistinctEndpoints(r) ==
    \A n \in Names : r.services[n].active # Unpublished =>
        /\ r.services[n].active.endpoint \in r.endpointIds \ ClientEndpoints(r)
        /\ \A m \in Names :
               r.services[m].active.endpoint = r.services[n].active.endpoint => m = n

EndpointsAreDistinct == DistinctEndpoints(reg)
=============================================================================
