--------------------------- MODULE RegistryProofs ---------------------------
(***************************************************************************)
(* The invariants of RegistryCalls for every value of its constants.       *)
(***************************************************************************)
EXTENDS RegistryCalls, TLAPS

\* The registry as each method sees it; held stands for the tickets.
RegistryInv(r, held) ==
    /\ WellFormed(r)
    /\ CurrentWatches(r)
    /\ LiveWatches(r)
    /\ OwnTickets(r, held)
    /\ DistinctEndpoints(r)

\* A registry is a record of these fields.
Fields(r) ==
    r \in [generation : {r.generation}, services : {r.services},
          clients : {r.clients}, watches : {r.watches},
          endpointIds : {r.endpointIds}, publicationIds : {r.publicationIds},
          clientIds : {r.clientIds}]

Tickets(held) == held \subseteq Endpoints \X Transactions

-----------------------------------------------------------------------------
(* Building blocks                                                         *)

\* A fresh registry satisfies every invariant (RegistryState::new).
LEMMA FreshRegistry ==
    ASSUME NEW g \in Nat
    PROVE  RegistryInv(NewRegistry(g), {})
  <1> DEFINE r == NewRegistry(g)
  <1>2. /\ r.watches = {} /\ r.clients = <<>> /\ r.endpointIds = {}
        /\ r.generation = g
    BY DEF NewRegistry
  <1>4. r.services \in [Names -> [lastGeneration : Nat,
                                  active : Publications \cup {Unpublished}]]
    BY DEF NewRegistry
  <1>6. \A n \in Names : r.services[n].active = Unpublished
    BY DEF NewRegistry
  <1>5. DOMAIN r.clients = {} /\ IsFcn(r.clients)
    BY <1>2 DEF IsFcn
  <1>1. WellFormed(r)
    BY <1>2, <1>4, <1>5, <1>6 DEF WellFormed, NewRegistry
  <1> QED
    BY <1>1, <1>2, <1>6
       DEF RegistryInv, CurrentWatches, LiveWatches, OwnTickets, DistinctEndpoints

\* Wherever a publication endpoint is known, its slot is one of the names.
LEMMA SlotExists ==
    ASSUME NEW r, WellFormed(r), NEW e \in PublicationEndpoints(r)
    PROVE  /\ SlotOf(r, e) \in Names
           /\ PublicationAt(r, e) = r.services[SlotOf(r, e)].active
           /\ PublicationAt(r, e) \in Publications
           /\ PublicationAt(r, e).endpoint = e
  <1>1. PICK n \in Names : r.services[n].active.endpoint = e
    BY DEF PublicationEndpoints
  <1>2. e # 0
    BY DEF PublicationEndpoints
  <1>3. /\ SlotOf(r, e) \in Names
        /\ r.services[SlotOf(r, e)].active.endpoint = e
    BY <1>1 DEF SlotOf
  <1>4. r.services[SlotOf(r, e)].active \in Publications
    BY <1>2, <1>3 DEF WellFormed, Unpublished
  <1> QED
    BY <1>3, <1>4 DEF PublicationAt

\* The watches notify consumes.
Hit(r, p, n, g) ==
    {w \in r.watches : w.protocol = p /\ w.name = n /\ w.last # g}

\* s is r without the watches hit and, in each client, their transactions.
Notified(r, s, hit) ==
    /\ Fields(s)
    /\ s.generation = r.generation
    /\ s.services = r.services
    /\ s.endpointIds = r.endpointIds
    /\ s.watches = r.watches \ hit
    /\ IsFcn(s.clients)
    /\ DOMAIN s.clients = DOMAIN r.clients
    /\ \A e \in DOMAIN r.clients : \A t :
           t \in s.clients[e].live <=>
               /\ t \in r.clients[e].live
               /\ \A w \in hit : w.client = e => w.transaction # t

\* What notify does to the fields: it consumes the watches it hits, and in
\* each client only their transactions.
LEMMA NotifyFields ==
    ASSUME NEW r, WellFormed(r), NEW p, NEW n, NEW g
    PROVE  Notified(r, Notify(r, p, n, g).reg, Hit(r, p, n, g))
  <1> DEFINE s == Notify(r, p, n, g).reg
             hit == Hit(r, p, n, g)
             woken == {w \in hit : w.client \in ClientEndpoints(r)}
             of(e) == {w.transaction : w \in {v \in woken : v.client = e}}
             wake(e) == [scope |-> r.clients[e].scope,
                         live |-> r.clients[e].live \ of(e),
                         replay |-> PushAll(r.clients[e].replay,
                                            of(e) \cap r.clients[e].live)]
  <1>1. s = [r EXCEPT !.watches = r.watches \ hit,
                      !.clients = [e \in DOMAIN r.clients |-> wake(e)]]
    BY DEF Notify, Ok, Hit
  <1> HIDE DEF s, wake
  <1>2. /\ Fields(s) /\ s.generation = r.generation
        /\ s.services = r.services
        /\ s.endpointIds = r.endpointIds
        /\ s.watches = r.watches \ hit
        /\ s.clients = [e \in DOMAIN r.clients |-> wake(e)]
    BY <1>1, Zenon DEF WellFormed, Fields
  <1>3. IsFcn(s.clients) /\ DOMAIN s.clients = DOMAIN r.clients
    BY <1>2 DEF IsFcn
  <1>4. ASSUME NEW e \in DOMAIN r.clients, NEW t
        PROVE  t \in s.clients[e].live <=>
                   /\ t \in r.clients[e].live
                   /\ \A w \in hit : w.client = e => w.transaction # t
    <2>1. s.clients[e].live = r.clients[e].live \ of(e)
      BY <1>2 DEF wake
    <2>2. t \in of(e) <=> \E w \in hit : w.client = e /\ w.transaction = t
      BY DEF ClientEndpoints
    <2> QED
      BY <2>1, <2>2
  <1> QED
    BY <1>2, <1>3, <1>4, Zenon DEF Notified, s


\* A step that leaves the services alone and only drops watches, clients and
\* tickets keeps the invariant, provided it keeps the transactions of the
\* watches and tickets that remain.
LEMMA Shrink ==
    ASSUME NEW r, NEW s, NEW held, NEW kept, RegistryInv(r, held),
           Fields(s), s.generation = r.generation, s.services = r.services,
           s.endpointIds = r.endpointIds, s.watches \subseteq r.watches,
           IsFcn(s.clients), DOMAIN s.clients \subseteq DOMAIN r.clients,
           kept \subseteq held,
           \A w \in s.watches : /\ w.client \in DOMAIN s.clients
                                /\ w.transaction \in s.clients[w.client].live,
           \A k \in kept : k[1] \in DOMAIN s.clients =>
                               k[2] \in s.clients[k[1]].live
    PROVE  RegistryInv(s, kept)
  <1>1. WellFormed(s)
    BY DEF RegistryInv, WellFormed, Fields
  <1>2. CurrentWatches(s)
    BY DEF RegistryInv, CurrentWatches, CurrentGeneration, IsPublished
  <1>3. LiveWatches(s)
    BY DEF RegistryInv, LiveWatches, ClientEndpoints
  <1>4. OwnTickets(s, kept)
    BY DEF RegistryInv, OwnTickets, ClientEndpoints
  <1>5. DistinctEndpoints(s)
    BY DEF RegistryInv, DistinctEndpoints, ClientEndpoints
  <1> QED
    BY <1>1, <1>2, <1>3, <1>4, <1>5 DEF RegistryInv

\* A step that touches only the services, and no current generation, keeps
\* the invariant.
LEMMA SameCurrent ==
    ASSUME NEW r, NEW s, NEW held, RegistryInv(r, held), WellFormed(s),
           DistinctEndpoints(s), s.watches = r.watches, s.clients = r.clients,
           r.endpointIds \subseteq s.endpointIds,
           \A p \in Protocols, n \in Names :
               CurrentGeneration(s, p, n) = CurrentGeneration(r, p, n)
    PROVE  RegistryInv(s, held)
  <1>1. CurrentWatches(s)
    BY DEF RegistryInv, CurrentWatches, WellFormed, Watches
  <1>2. LiveWatches(s)
    BY DEF RegistryInv, LiveWatches, ClientEndpoints
  <1>3. OwnTickets(s, held)
    BY DEF RegistryInv, OwnTickets, ClientEndpoints
  <1> QED
    BY <1>1, <1>2, <1>3 DEF RegistryInv

\* A change of one service's current generation followed by notify keeps the
\* invariant: the watches that the change outdates are the ones notify consumes.
LEMMA NotifyStep ==
    ASSUME NEW r, NEW r1, NEW held, RegistryInv(r, held), WellFormed(r1),
           DistinctEndpoints(r1), r1.generation = r.generation,
           r1.watches = r.watches, r1.clients = r.clients,
           r1.endpointIds = r.endpointIds,
           NEW p \in Protocols, NEW n \in Names, NEW g \in Nat,
           CurrentGeneration(r1, p, n) = g,
           \A q \in Protocols, m \in Names :
               q # p \/ m # n => CurrentGeneration(r1, q, m) = CurrentGeneration(r, q, m)
    PROVE  RegistryInv(Notify(r1, p, n, g).reg, held)
  <1> DEFINE s == Notify(r1, p, n, g).reg
             hit == Hit(r1, p, n, g)
  <1>0. Notified(r1, s, hit)
    BY NotifyFields
  <1> HIDE DEF s, hit
  <1>1. /\ Fields(s)
        /\ s.generation = r1.generation
        /\ s.services = r1.services
        /\ s.endpointIds = r1.endpointIds
        /\ s.watches = r1.watches \ hit
        /\ IsFcn(s.clients)
        /\ DOMAIN s.clients = DOMAIN r1.clients
        /\ \A e \in DOMAIN r1.clients : \A t :
               t \in s.clients[e].live <=>
                   /\ t \in r1.clients[e].live
                   /\ \A w \in hit : w.client = e => w.transaction # t
    BY <1>0 DEF Notified
  <1>a. hit \subseteq r.watches
    BY DEF Hit, hit
  <1>2. WellFormed(s)
    BY <1>1 DEF WellFormed, Fields
  <1>3. CurrentWatches(s)
    <2> SUFFICES ASSUME NEW w \in s.watches
                 PROVE  w.last = CurrentGeneration(s, w.protocol, w.name)
      BY DEF CurrentWatches
    <2>1. w \in r.watches /\ w \in Watches /\ w \notin hit
      BY <1>1 DEF WellFormed
    <2>2. CurrentGeneration(s, w.protocol, w.name)
              = CurrentGeneration(r1, w.protocol, w.name)
      BY <1>1 DEF CurrentGeneration, IsPublished
    <2>3. CASE w.protocol = p /\ w.name = n
      BY <2>1, <2>2, <2>3 DEF Hit, hit
    <2>4. CASE w.protocol # p \/ w.name # n
      <3>1. w.last = CurrentGeneration(r, w.protocol, w.name)
        BY <2>1 DEF RegistryInv, CurrentWatches
      <3> QED
        BY <2>1, <2>2, <2>4, <3>1 DEF Watches
    <2> QED
      BY <2>3, <2>4
  <1>4. LiveWatches(s)
    <2> SUFFICES ASSUME NEW w \in s.watches
                 PROVE  /\ w.client \in ClientEndpoints(s)
                        /\ w.transaction \in s.clients[w.client].live
                        /\ \A v \in s.watches :
                               v.client = w.client /\ v.transaction = w.transaction
                                   => v = w
      BY DEF LiveWatches
    <2>1. /\ w \in r.watches /\ w \notin hit
          /\ w.client \in DOMAIN r.clients
          /\ w.transaction \in r.clients[w.client].live
          /\ \A v \in r.watches :
                 v.client = w.client /\ v.transaction = w.transaction => v = w
      BY <1>1 DEF RegistryInv, LiveWatches, ClientEndpoints
    <2>2. \A v \in hit : v.client = w.client => v.transaction # w.transaction
      BY <1>a, <2>1
    <2>3. w.client \in DOMAIN s.clients /\ w.transaction \in s.clients[w.client].live
      BY <1>1, <2>1, <2>2
    <2> QED
      BY <1>1, <2>1, <2>3 DEF ClientEndpoints
  <1>5. OwnTickets(s, held)
    <2> SUFFICES ASSUME NEW k \in held
                 PROVE  /\ k[1] \in s.endpointIds
                        /\ k[1] \in DOMAIN s.clients =>
                               /\ k[2] \in s.clients[k[1]].live
                               /\ \A w \in s.watches :
                                      w.client = k[1] => w.transaction # k[2]
      BY DEF OwnTickets, ClientEndpoints
    <2>1. /\ k[1] \in r.endpointIds
          /\ k[1] \in DOMAIN r.clients =>
                 /\ k[2] \in r.clients[k[1]].live
                 /\ \A w \in r.watches : w.client = k[1] => w.transaction # k[2]
      BY DEF RegistryInv, OwnTickets, ClientEndpoints
    <2>2. k[1] \in DOMAIN r.clients => k[2] \in s.clients[k[1]].live
      BY <1>1, <1>a, <2>1
    <2> QED
      BY <1>1, <2>1, <2>2
  <1>6. DistinctEndpoints(s)
    BY <1>1 DEF DistinctEndpoints, ClientEndpoints
  <1> QED
    BY <1>2, <1>3, <1>4, <1>5, <1>6 DEF RegistryInv, s

-----------------------------------------------------------------------------
(* Client methods                                                          *)

\* Reserving adds one live transaction to one client.
LEMMA ReserveFields ==
    ASSUME NEW r, WellFormed(r), NEW e \in DOMAIN r.clients, NEW t
    PROVE  LET s == ReserveClient(r, e, t)
           IN  /\ WellFormed(s) /\ Fields(s)
               /\ s.generation = r.generation
               /\ s.services = r.services
               /\ s.endpointIds = r.endpointIds
               /\ s.watches = r.watches
               /\ IsFcn(s.clients)
               /\ DOMAIN s.clients = DOMAIN r.clients
               /\ \A f \in DOMAIN r.clients : s.clients[f].live =
                      IF f = e THEN r.clients[f].live \cup {t} ELSE r.clients[f].live
  BY Zenon DEF ReserveClient, WellFormed, Fields, IsFcn

\* s is r with t completed at client e.
Finished(r, s, e, t) ==
    /\ WellFormed(s) /\ Fields(s)
    /\ s.generation = r.generation
    /\ s.services = r.services
    /\ s.endpointIds = r.endpointIds
    /\ s.watches = r.watches
    /\ IsFcn(s.clients)
    /\ DOMAIN s.clients = DOMAIN r.clients
    /\ \A f \in DOMAIN r.clients : s.clients[f].live =
           IF f = e THEN r.clients[f].live \ {t} ELSE r.clients[f].live

\* Completing removes at most one live transaction of one client.
LEMMA FinishFields ==
    ASSUME NEW r, WellFormed(r), NEW e \in DOMAIN r.clients, NEW t
    PROVE  Finished(r, FinishClient(r, e, t), e, t)
  <1>1. CompleteClient(r.clients[e], t).live = r.clients[e].live \ {t}
    BY DEF CompleteClient
  <1> QED
    BY <1>1, Zenon DEF Finished, FinishClient, WellFormed, Fields, IsFcn

\* A transaction the client accepts is not live.
LEMMA AcceptedIsFresh ==
    ASSUME NEW c, NEW t, ClientRefuses(c, t) = "None"
    PROVE  t \notin c.live
  BY DEF ClientRefuses

\* A request settled at once leaves the live transactions as they were
\* (lookup, the immediate and refused watches, complete_transaction).
LEMMA SettleInv ==
    ASSUME NEW r, NEW held, RegistryInv(r, held), NEW e \in DOMAIN r.clients,
           NEW t, ClientRefuses(r.clients[e], t) = "None", NEW error
    PROVE  RegistryInv(Settle(r, e, t, error).reg, held)
  <1> DEFINE r1 == ReserveClient(r, e, t)
             s == FinishClient(r1, e, t)
  <1>1. Settle(r, e, t, error).reg = s
    BY DEF Settle, Ok, Err
  <1>2. t \notin r.clients[e].live
    BY AcceptedIsFresh
  <1>3. WellFormed(r)
    BY DEF RegistryInv
  <1>4. /\ WellFormed(r1) /\ r1.generation = r.generation
        /\ r1.services = r.services /\ r1.endpointIds = r.endpointIds
        /\ r1.watches = r.watches /\ DOMAIN r1.clients = DOMAIN r.clients
        /\ \A f \in DOMAIN r.clients : r1.clients[f].live =
               IF f = e THEN r.clients[f].live \cup {t} ELSE r.clients[f].live
    BY <1>3, ReserveFields
  <1> HIDE DEF r1
  <1>a. Finished(r1, s, e, t)
    BY <1>4, FinishFields
  <1> HIDE DEF s
  <1>5. /\ Fields(s) /\ s.generation = r.generation
        /\ s.services = r.services /\ s.endpointIds = r.endpointIds
        /\ s.watches = r.watches /\ DOMAIN s.clients = DOMAIN r.clients
        /\ IsFcn(s.clients)
        /\ \A f \in DOMAIN r.clients : s.clients[f].live =
               IF f = e THEN r1.clients[f].live \ {t} ELSE r1.clients[f].live
    BY <1>4, <1>a DEF Finished
  <1>6. \A f \in DOMAIN r.clients : s.clients[f].live = r.clients[f].live
    BY <1>2, <1>4, <1>5, Zenon
  <1>7. \A w \in s.watches : /\ w.client \in DOMAIN s.clients
                             /\ w.transaction \in s.clients[w.client].live
    BY <1>5, <1>6 DEF RegistryInv, LiveWatches, ClientEndpoints
  <1>8. \A k \in held : k[1] \in DOMAIN s.clients => k[2] \in s.clients[k[1]].live
    BY <1>5, <1>6 DEF RegistryInv, OwnTickets, ClientEndpoints
  <1> QED
    BY <1>1, <1>5, <1>7, <1>8, Shrink

\* lookup keeps the invariant.
LEMMA LookupInv ==
    ASSUME NEW r, NEW held, RegistryInv(r, held), NEW e \in DOMAIN r.clients,
           NEW t, NEW q
    PROVE  RegistryInv(Lookup(r, e, t, q).reg, held)
  <1>1. CASE ClientRefuses(r.clients[e], t) # "None"
    BY <1>1 DEF Lookup, Err
  <1>2. CASE ClientRefuses(r.clients[e], t) = "None"
    <2>1. \E error : Lookup(r, e, t, q) = Settle(r, e, t, error)
      BY <1>2 DEF Lookup
    <2> QED
      BY <1>2, <2>1, SettleInv
  <1> QED
    BY <1>1, <1>2

\* A client with a transaction reserved for a new watch keeps the invariant:
\* the watch is current, and its transaction is nobody else's.
LEMMA WatchInv ==
    ASSUME NEW r, NEW held, RegistryInv(r, held), NEW e \in Endpoints,
           e \in DOMAIN r.clients, NEW t \in Transactions, NEW q \in WatchRequests
    PROVE  RegistryInv(Watch(r, e, t, q).reg, held)
  <1> DEFINE watch == [client |-> e, transaction |-> t, protocol |-> q.protocol,
                       name |-> q.name, last |-> q.last]
             r1 == ReserveClient(r, e, t)
             s == [r1 EXCEPT !.watches = @ \cup {watch}]
  <1>1. CASE ClientRefuses(r.clients[e], t) # "None"
    BY <1>1 DEF Watch, Err
  <1>2. CASE /\ ClientRefuses(r.clients[e], t) = "None"
             /\ \E error : Watch(r, e, t, q) = Settle(r, e, t, error)
    BY <1>2, SettleInv
  <1>3. CASE /\ ClientRefuses(r.clients[e], t) = "None"
             /\ CurrentGeneration(r, q.protocol, q.name) = q.last
             /\ Watch(r, e, t, q).reg = s
    <2>1. WellFormed(r) /\ t \notin r.clients[e].live
      BY <1>3, AcceptedIsFresh DEF RegistryInv
    <2>2. /\ WellFormed(r1) /\ r1.generation = r.generation
          /\ r1.services = r.services /\ r1.endpointIds = r.endpointIds
          /\ r1.watches = r.watches /\ DOMAIN r1.clients = DOMAIN r.clients
          /\ \A f \in DOMAIN r.clients : r1.clients[f].live =
                 IF f = e THEN r.clients[f].live \cup {t} ELSE r.clients[f].live
      BY <2>1, ReserveFields
    <2> HIDE DEF r1
    <2>3. watch \in Watches
      BY RegistryAssumption, Zenon DEF Watches, WatchRequests
    <2>4. r.generation # 0
      BY <2>1 DEF WellFormed
    <2>5. /\ WellFormed(s) /\ s.services = r.services /\ s.clients = r1.clients
          /\ s.endpointIds = r.endpointIds /\ s.watches = r.watches \cup {watch}
      BY <2>2, <2>3, <2>4 DEF WellFormed
    <2> HIDE DEF s
    <2>6. CurrentWatches(s)
      <3>1. \A p, n : CurrentGeneration(s, p, n) = CurrentGeneration(r, p, n)
        BY <2>5 DEF CurrentGeneration, IsPublished
      <3> QED
        BY <1>3, <2>5, <3>1 DEF RegistryInv, CurrentWatches
    <2>7. \A w \in r.watches : w.client = e => w.transaction # t
      BY <2>1 DEF RegistryInv, LiveWatches
    <2>8. LiveWatches(s)
      <3>1. \A w \in r.watches :
                /\ w.client \in DOMAIN r.clients
                /\ w.transaction \in r.clients[w.client].live
                /\ \A v \in r.watches :
                       v.client = w.client /\ v.transaction = w.transaction => v = w
        BY DEF RegistryInv, LiveWatches, ClientEndpoints
      <3>2. \A w \in r.watches : /\ w.client \in DOMAIN s.clients
                                 /\ w.transaction \in s.clients[w.client].live
        BY <2>2, <2>5, <3>1, Zenon
      <3>3. watch.client = e /\ watch.transaction = t
        OBVIOUS
      <3>4. e \in DOMAIN s.clients /\ t \in s.clients[e].live
        BY <2>2, <2>5, Zenon
      <3> HIDE DEF watch
      <3> QED
        BY <2>5, <2>7, <3>1, <3>2, <3>3, <3>4 DEF LiveWatches, ClientEndpoints
    <2>9. \A k \in held : k[1] = e => k[2] # t
      BY <2>1 DEF RegistryInv, OwnTickets, ClientEndpoints
    <2>10. OwnTickets(s, held)
      <3>1. watch.client = e /\ watch.transaction = t
        OBVIOUS
      <3> HIDE DEF watch
      <3>2. ASSUME NEW k \in held
            PROVE  /\ k[1] \in s.endpointIds
                   /\ k[1] \in DOMAIN s.clients =>
                          k[2] \in s.clients[k[1]].live
        BY <2>2, <2>5, Zenon DEF RegistryInv, OwnTickets, ClientEndpoints
      <3>3. ASSUME NEW k \in held, k[1] \in DOMAIN s.clients,
                   NEW w \in s.watches, w.client = k[1]
            PROVE  w.transaction # k[2]
        BY <2>2, <2>5, <2>9, <3>1, <3>3 DEF RegistryInv, OwnTickets, ClientEndpoints
      <3> QED
        BY <3>2, <3>3 DEF OwnTickets, ClientEndpoints
    <2>11. DistinctEndpoints(s)
      BY <2>2, <2>5 DEF RegistryInv, DistinctEndpoints, ClientEndpoints
    <2> QED
      BY <1>3, <2>5, <2>6, <2>8, <2>10, <2>11 DEF RegistryInv
  <1> QED
    BY <1>1, <1>2, <1>3, Zenon DEF Watch, Ok

\* cancel keeps the invariant: it drops a watch together with the transaction
\* the watch held.
LEMMA CancelInv ==
    ASSUME NEW r, NEW held, RegistryInv(r, held), NEW e \in DOMAIN r.clients,
           NEW t, NEW target
    PROVE  RegistryInv(Cancel(r, e, t, target).reg, held)
  <1> DEFINE hit == {w \in r.watches : w.client = e /\ w.transaction = target}
             r1 == ReserveClient(r, e, t)
             r2 == FinishClient(r1, e, target)
             r3 == FinishClient(r2, e, t)
             s == [r3 EXCEPT !.watches = @ \ hit]
  <1>1. CASE ClientRefuses(r.clients[e], t) # "None"
    BY <1>1 DEF Cancel, Err
  <1>2. CASE ClientRefuses(r.clients[e], t) = "None" /\ hit = {}
    <2>1. Cancel(r, e, t, target) = Settle(r, e, t, "UnknownTransaction")
      BY <1>2 DEF Cancel
    <2> QED
      BY <1>2, <2>1, SettleInv
  <1>3. CASE ClientRefuses(r.clients[e], t) = "None" /\ hit # {}
    <2>1. Cancel(r, e, t, target).reg = s
      BY <1>3 DEF Cancel, Ok
    <2>2. WellFormed(r) /\ t \notin r.clients[e].live
      BY <1>3, AcceptedIsFresh DEF RegistryInv
    <2>3. /\ WellFormed(r1) /\ r1.generation = r.generation
          /\ r1.services = r.services /\ r1.endpointIds = r.endpointIds
          /\ r1.watches = r.watches /\ DOMAIN r1.clients = DOMAIN r.clients
          /\ \A f \in DOMAIN r.clients : r1.clients[f].live =
                 IF f = e THEN r.clients[f].live \cup {t} ELSE r.clients[f].live
      BY <2>2, ReserveFields
    <2> HIDE DEF r1
    <2>a. Finished(r1, r2, e, target)
      BY <2>3, FinishFields
    <2> HIDE DEF r2
    <2>4. /\ WellFormed(r2) /\ r2.generation = r.generation
          /\ r2.services = r.services /\ r2.endpointIds = r.endpointIds
          /\ r2.watches = r.watches /\ DOMAIN r2.clients = DOMAIN r.clients
          /\ \A f \in DOMAIN r.clients : r2.clients[f].live =
                 IF f = e THEN r1.clients[f].live \ {target} ELSE r1.clients[f].live
      BY <2>3, <2>a DEF Finished
    <2>b. Finished(r2, r3, e, t)
      BY <2>4, FinishFields
    <2> HIDE DEF r3
    <2>5. /\ Fields(r3) /\ r3.generation = r.generation
          /\ r3.services = r.services /\ r3.endpointIds = r.endpointIds
          /\ r3.watches = r.watches /\ DOMAIN r3.clients = DOMAIN r.clients
          /\ IsFcn(r3.clients)
          /\ \A f \in DOMAIN r.clients : r3.clients[f].live =
                 IF f = e THEN r2.clients[f].live \ {t} ELSE r2.clients[f].live
      BY <2>4, <2>b DEF Finished
    <2>6. /\ Fields(s) /\ s.generation = r.generation
          /\ s.services = r.services /\ s.endpointIds = r.endpointIds
          /\ s.watches = r.watches \ hit /\ s.clients = r3.clients
      BY <2>5 DEF Fields
    <2> HIDE DEF s
    <2>7. \A f \in DOMAIN r.clients : s.clients[f].live =
              IF f = e THEN r.clients[f].live \ {target} ELSE r.clients[f].live
      BY <2>2, <2>3, <2>4, <2>5, <2>6, ZenonT(30)
    <2>8. \A w \in s.watches : /\ w.client \in DOMAIN s.clients
                               /\ w.transaction \in s.clients[w.client].live
      BY <2>5, <2>6, <2>7, Zenon DEF RegistryInv, LiveWatches, ClientEndpoints
    <2>9. \A k \in held : k[1] = e => k[2] # target
      BY <1>3 DEF RegistryInv, OwnTickets, ClientEndpoints
    <2>10. \A k \in held : k[1] \in DOMAIN s.clients => k[2] \in s.clients[k[1]].live
      BY <2>5, <2>6, <2>7, <2>9, Zenon DEF RegistryInv, OwnTickets, ClientEndpoints
    <2> QED
      BY <2>1, <2>5, <2>6, <2>8, <2>10, Shrink
  <1> QED
    BY <1>1, <1>2, <1>3

\* enumerate_begin keeps the invariant: on success its transaction is live and
\* belongs to no watch, so the ticket is its only owner.
LEMMA EnumerateInv ==
    ASSUME NEW r, NEW held, RegistryInv(r, held), NEW e \in DOMAIN r.clients,
           NEW t
    PROVE  RegistryInv(EnumerateBegin(r, e, t).reg,
                       IF EnumerateBegin(r, e, t).ok THEN held \cup {<<e, t>>}
                       ELSE held)
  <1> DEFINE s == ReserveClient(r, e, t)
             more == held \cup {<<e, t>>}
  <1>1. CASE ClientRefuses(r.clients[e], t) # "None"
    BY <1>1 DEF EnumerateBegin, Err
  <1>2. CASE /\ ClientRefuses(r.clients[e], t) = "None"
             /\ r.clients[e].scope # "BootstrapMetadata"
    <2>1. EnumerateBegin(r, e, t) = Settle(r, e, t, "EnumerationDenied")
      BY <1>2 DEF EnumerateBegin
    <2>2. ~ Settle(r, e, t, "EnumerationDenied").ok
      BY DEF Settle, Err
    <2> QED
      BY <1>2, <2>1, <2>2, SettleInv
  <1>3. CASE /\ ClientRefuses(r.clients[e], t) = "None"
             /\ r.clients[e].scope = "BootstrapMetadata"
    <2>1. EnumerateBegin(r, e, t).reg = s /\ EnumerateBegin(r, e, t).ok
      BY <1>3 DEF EnumerateBegin, Ok
    <2>2. WellFormed(r) /\ t \notin r.clients[e].live
      BY <1>3, AcceptedIsFresh DEF RegistryInv
    <2>3. /\ WellFormed(s) /\ s.services = r.services
          /\ s.endpointIds = r.endpointIds
          /\ s.watches = r.watches /\ DOMAIN s.clients = DOMAIN r.clients
          /\ \A f \in DOMAIN r.clients : s.clients[f].live =
                 IF f = e THEN r.clients[f].live \cup {t} ELSE r.clients[f].live
      BY <2>2, ReserveFields
    <2> HIDE DEF s
    <2>4. CurrentWatches(s)
      BY <2>3 DEF RegistryInv, CurrentWatches, CurrentGeneration, IsPublished
    <2>5. LiveWatches(s)
      BY <2>3, Zenon DEF RegistryInv, LiveWatches, ClientEndpoints
    <2>6. \A w \in r.watches : w.client = e => w.transaction # t
      BY <2>2 DEF RegistryInv, LiveWatches
    <2>7. e \in s.endpointIds
      BY <2>2, <2>3 DEF WellFormed
    <2>8. OwnTickets(s, more)
      <3> SUFFICES ASSUME NEW k \in more
                   PROVE  /\ k[1] \in s.endpointIds
                          /\ k[1] \in DOMAIN s.clients =>
                                 /\ k[2] \in s.clients[k[1]].live
                                 /\ \A w \in s.watches :
                                        w.client = k[1] => w.transaction # k[2]
        BY DEF OwnTickets, ClientEndpoints
      <3>1. CASE k \in held
        BY <2>3, <3>1, Zenon DEF RegistryInv, OwnTickets, ClientEndpoints
      <3>2. CASE k = <<e, t>>
        BY <2>3, <2>6, <2>7, <3>2, Zenon
      <3> QED
        BY <3>1, <3>2
    <2>9. DistinctEndpoints(s)
      BY <2>3 DEF RegistryInv, DistinctEndpoints, ClientEndpoints
    <2> QED
      BY <2>1, <2>3, <2>4, <2>5, <2>8, <2>9 DEF RegistryInv
  <1> QED
    BY <1>1, <1>2, <1>3

\* enumeration_complete gives up the ticket together with its transaction.
LEMMA CompleteEnumerationInv ==
    ASSUME NEW r, NEW held, RegistryInv(r, held), Tickets(held),
           NEW e \in DOMAIN r.clients, NEW t, <<e, t>> \in held
    PROVE  RegistryInv(FinishClient(r, e, t), held \ {<<e, t>>})
  <1> DEFINE s == FinishClient(r, e, t)
             kept == held \ {<<e, t>>}
  <1>1. WellFormed(r)
    BY DEF RegistryInv
  <1>a. Finished(r, s, e, t)
    BY <1>1, FinishFields
  <1> HIDE DEF s
  <1>2. /\ Fields(s) /\ s.generation = r.generation
        /\ s.services = r.services /\ s.endpointIds = r.endpointIds
        /\ s.watches = r.watches /\ DOMAIN s.clients = DOMAIN r.clients
        /\ IsFcn(s.clients)
        /\ \A f \in DOMAIN r.clients : s.clients[f].live =
               IF f = e THEN r.clients[f].live \ {t} ELSE r.clients[f].live
    BY <1>a DEF Finished
  <1>3. \A w \in r.watches : w.client = e => w.transaction # t
    BY DEF RegistryInv, OwnTickets, ClientEndpoints
  <1>4. \A w \in s.watches : /\ w.client \in DOMAIN s.clients
                             /\ w.transaction \in s.clients[w.client].live
    BY <1>2, <1>3, Zenon DEF RegistryInv, LiveWatches, ClientEndpoints
  <1>5. \A k \in kept : k = <<k[1], k[2]>>
    BY DEF Tickets
  <1>6. \A k \in kept : k[1] \in DOMAIN s.clients => k[2] \in s.clients[k[1]].live
    BY <1>2, <1>5, Zenon DEF RegistryInv, OwnTickets, ClientEndpoints
  <1> QED
    BY <1>2, <1>4, <1>6, Shrink DEF s

\* A ticket given up by its holder constrains nothing any more.
LEMMA AbandonInv ==
    ASSUME NEW r, NEW held, RegistryInv(r, held), NEW kept, kept \subseteq held
    PROVE  RegistryInv(r, kept)
  BY DEF RegistryInv, OwnTickets

-----------------------------------------------------------------------------
(* Publication methods                                                     *)

\* A replay window stays a sequence of transactions.
LEMMA PushType ==
    ASSUME NEW window \in Seq(Transactions), NEW t \in Transactions,
           NEW capacity \in Nat \ {0}
    PROVE  Push(window, t, capacity) \in Seq(Transactions)
  <1>1. CASE Len(window) < capacity
    BY <1>1 DEF Push
  <1>2. CASE ~ (Len(window) < capacity)
    <2>1. window # <<>>
      BY <1>2
    <2>2. Tail(window) \in Seq(Transactions)
      BY <2>1
    <2> QED
      BY <1>2, <2>2 DEF Push
  <1> QED
    BY <1>1, <1>2

\* q is p but for its phase and transactions.
SamePublication(p, q) ==
    /\ q \in Publications
    /\ q.endpoint = p.endpoint
    /\ q.generation = p.generation
    /\ q.protocol = p.protocol

\* Reserving and completing a publication's transaction leave its identity
\* and its phase alone.
LEMMA PublicationTransactions ==
    ASSUME NEW p \in Publications, NEW t \in Transactions
    PROVE  /\ SamePublication(p, [p EXCEPT !.live = t])
           /\ [p EXCEPT !.live = t].phase = p.phase
           /\ SamePublication(p, CompletePublication(p, t))
           /\ CompletePublication(p, t).phase = p.phase
  <1>1. p.replay \in Seq(Transactions)
    BY DEF Publications
  <1>2. Push(p.replay, t, PublicationReplay) \in Seq(Transactions)
    BY <1>1, PushType, RegistryAssumption
  <1> QED
    BY <1>2, Zenon DEF SamePublication, CompletePublication, Publications

\* s is r with q in the slot of service n.
Placed(r, s, n, q) ==
    /\ WellFormed(s)
    /\ s.generation = r.generation /\ s.clients = r.clients
    /\ s.watches = r.watches /\ s.endpointIds = r.endpointIds
    /\ s.services[n].active = q
    /\ \A m \in Names \ {n} : s.services[m] = r.services[m]

\* Replacing the active publication of a slot by none, or by one of the same
\* generation.
LEMMA Place ==
    ASSUME NEW r, WellFormed(r), NEW n \in Names,
           NEW q \in Publications \cup {Unpublished},
           q # Unpublished => q.generation = r.services[n].lastGeneration
    PROVE  Placed(r, [r EXCEPT !.services[n].active = q], n, q)
  <1> DEFINE s == [r EXCEPT !.services[n].active = q]
             slot == [lastGeneration |-> r.services[n].lastGeneration, active |-> q]
  <1>1. r.services[n] \in [lastGeneration : Nat, active : Publications \cup {Unpublished}]
    BY DEF WellFormed
  <1>2. [r.services[n] EXCEPT !.active = q] = slot
    BY <1>1
  <1>3. s = [r EXCEPT !.services = [r.services EXCEPT ![n] = slot]]
    BY <1>2 DEF WellFormed
  <1>4. /\ s.generation = r.generation /\ s.clients = r.clients
        /\ s.watches = r.watches /\ s.endpointIds = r.endpointIds
        /\ s.publicationIds = r.publicationIds /\ s.clientIds = r.clientIds
        /\ s.services = [r.services EXCEPT ![n] = slot]
        /\ Fields(s)
    BY <1>3, Zenon DEF WellFormed, Fields
  <1>5. slot \in [lastGeneration : Nat, active : Publications \cup {Unpublished}]
    BY <1>1
  <1>6. s.services \in [Names -> [lastGeneration : Nat,
                                  active : Publications \cup {Unpublished}]]
    BY <1>4, <1>5 DEF WellFormed
  <1>7. s.services[n] = slot /\ \A m \in Names \ {n} : s.services[m] = r.services[m]
    BY <1>4 DEF WellFormed
  <1> HIDE DEF s
  <1>8. \A m \in Names : s.services[m].active # Unpublished =>
            s.services[m].active.generation = s.services[m].lastGeneration
    BY <1>7 DEF WellFormed
  <1>9. WellFormed(s)
    BY <1>4, <1>6, <1>8 DEF WellFormed, Fields
  <1> QED
    BY <1>4, <1>7, <1>9 DEF Placed, s

\* Other services keep their generation.
LEMMA OthersCurrent ==
    ASSUME NEW r, NEW s, NEW n \in Names, NEW q, Placed(r, s, n, q)
    PROVE  \A p, m : m \in Names \ {n} =>
               CurrentGeneration(s, p, m) = CurrentGeneration(r, p, m)
  BY DEF Placed, CurrentGeneration, IsPublished

\* Endpoints stay distinct when a slot is vacated or keeps its endpoint.
LEMMA PlacedDistinct ==
    ASSUME NEW r, NEW s, DistinctEndpoints(r), WellFormed(r),
           NEW n \in Names, NEW q, Placed(r, s, n, q),
           \/ q = Unpublished
           \/ /\ q \in Publications /\ r.services[n].active # Unpublished
              /\ q.endpoint = r.services[n].active.endpoint
    PROVE  DistinctEndpoints(s)
  <1> SUFFICES ASSUME NEW k \in Names, s.services[k].active # Unpublished
               PROVE  /\ s.services[k].active.endpoint
                             \in s.endpointIds \ DOMAIN s.clients
                      /\ \A m \in Names : s.services[m].active.endpoint
                             = s.services[k].active.endpoint => m = k
    BY DEF DistinctEndpoints, ClientEndpoints
  <1>1. r.services[k].active # Unpublished
    BY DEF Placed
  <1>2. s.services[k].active.endpoint = r.services[k].active.endpoint
    BY DEF Placed
  <1>3. /\ r.services[k].active.endpoint \in r.endpointIds \ DOMAIN r.clients
        /\ \A m \in Names : r.services[m].active.endpoint
               = r.services[k].active.endpoint => m = k
    BY <1>1 DEF DistinctEndpoints, ClientEndpoints
  <1>4. r.services[k].active.endpoint # 0
    BY <1>3, RegistryAssumption DEF WellFormed
  <1>5. \A m \in Names : s.services[m].active.endpoint
            \in {r.services[m].active.endpoint, 0}
    BY DEF Placed, Unpublished
  <1> QED
    BY <1>2, <1>3, <1>4, <1>5 DEF Placed

\* A publication replaced by one of the same identity and phase leaves every
\* current generation alone.
LEMMA SamePhaseInv ==
    ASSUME NEW r, NEW held, RegistryInv(r, held), NEW n \in Names, NEW q,
           r.services[n].active \in Publications,
           SamePublication(r.services[n].active, q),
           q.phase = r.services[n].active.phase
    PROVE  RegistryInv([r EXCEPT !.services[n].active = q], held)
  <1> DEFINE s == [r EXCEPT !.services[n].active = q]
             p == r.services[n].active
  <1>1. p # Unpublished
    BY RegistryAssumption DEF Publications, Unpublished
  <1>2. q \in Publications /\ q.generation = r.services[n].lastGeneration
    BY <1>1 DEF RegistryInv, WellFormed, SamePublication
  <1>3. Placed(r, s, n, q)
    BY <1>2, Place DEF RegistryInv
  <1> HIDE DEF s
  <1>4. q # Unpublished
    BY <1>2, RegistryAssumption DEF Publications, Unpublished
  <1>5. \A c \in Protocols, m \in Names :
            CurrentGeneration(s, c, m) = CurrentGeneration(r, c, m)
    <2>1. \A c \in Protocols : CurrentGeneration(s, c, n) = CurrentGeneration(r, c, n)
      BY <1>1, <1>3, <1>4 DEF Placed, CurrentGeneration, IsPublished, SamePublication
    <2>2. \A c, m : m \in Names \ {n} =>
              CurrentGeneration(s, c, m) = CurrentGeneration(r, c, m)
      BY <1>3, OthersCurrent
    <2> QED
      BY <2>1, <2>2
  <1>6. DistinctEndpoints(s)
    BY <1>1, <1>2, <1>3, PlacedDistinct DEF RegistryInv, SamePublication
  <1>7. /\ WellFormed(s) /\ s.watches = r.watches /\ s.clients = r.clients
        /\ r.endpointIds \subseteq s.endpointIds
    BY <1>3 DEF Placed
  <1> QED
    BY <1>5, <1>6, <1>7, SameCurrent, Zenon DEF s

\* prepare_publish changes no current generation.
LEMMA PrepareInv ==
    ASSUME NEW r, NEW held, RegistryInv(r, held), NEW t \in Transactions,
           NEW e \in PublicationEndpoints(r)
    PROVE  RegistryInv(PreparePublish(r, e, t).reg, held)
  <1> DEFINE n == SlotOf(r, e)
             p == PublicationAt(r, e)
             reserved == [p EXCEPT !.live = t]
             done == CompletePublication(reserved, t)
  <1>1. n \in Names /\ p = r.services[n].active /\ p \in Publications
    BY SlotExists DEF RegistryInv
  <1>2. \/ PreparePublish(r, e, t).reg = r
        \/ PreparePublish(r, e, t).reg = [r EXCEPT !.services[n].active = reserved]
        \/ PreparePublish(r, e, t).reg = [r EXCEPT !.services[n].active = done]
    BY DEF PreparePublish, Ok, Err
  <1> HIDE DEF n, p
  <1>3. SamePublication(p, reserved) /\ reserved.phase = p.phase
    BY <1>1, PublicationTransactions
  <1>4. reserved \in Publications
    BY <1>3 DEF SamePublication
  <1> HIDE DEF reserved
  <1>5. SamePublication(reserved, done) /\ done.phase = reserved.phase
    BY <1>4, PublicationTransactions, Zenon
  <1> HIDE DEF done
  <1>6. SamePublication(p, done) /\ done.phase = p.phase
    BY <1>3, <1>5 DEF SamePublication
  <1>7. /\ RegistryInv([r EXCEPT !.services[n].active = reserved], held)
        /\ RegistryInv([r EXCEPT !.services[n].active = done], held)
    BY <1>1, <1>3, <1>6, SamePhaseInv
  <1> QED
    BY <1>2, <1>7

\* complete_transaction settles a request and changes nothing else.
LEMMA CompleteTransactionInv ==
    ASSUME NEW r, NEW held, RegistryInv(r, held), NEW t \in Transactions,
           NEW e \in ClientEndpoints(r) \cup PublicationEndpoints(r)
    PROVE  RegistryInv(CompleteTransaction(r, e, t).reg, held)
  <1>1. CASE e \in ClientEndpoints(r)
    <2>1. \/ CompleteTransaction(r, e, t).reg = r
          \/ /\ ClientRefuses(r.clients[e], t) = "None"
             /\ CompleteTransaction(r, e, t) = Settle(r, e, t, "None")
      BY <1>1 DEF CompleteTransaction, Err
    <2> QED
      BY <1>1, <2>1, SettleInv DEF ClientEndpoints
  <1>2. CASE e \in PublicationEndpoints(r) \ ClientEndpoints(r)
    <2> DEFINE n == SlotOf(r, e)
               p == PublicationAt(r, e)
               done == CompletePublication(p, t)
    <2>1. n \in Names /\ p = r.services[n].active /\ p \in Publications
      BY <1>2, SlotExists DEF RegistryInv
    <2>2. \/ CompleteTransaction(r, e, t).reg = r
          \/ CompleteTransaction(r, e, t).reg = [r EXCEPT !.services[n].active = done]
      BY <1>2 DEF CompleteTransaction, Ok, Err
    <2> HIDE DEF n, p
    <2>3. SamePublication(p, done) /\ done.phase = p.phase
      BY <2>1, PublicationTransactions, Zenon
    <2> HIDE DEF done
    <2>4. RegistryInv([r EXCEPT !.services[n].active = done], held)
      BY <2>1, <2>3, SamePhaseInv
    <2> QED
      BY <2>2, <2>4
  <1> QED
    BY <1>1, <1>2

\* commit_publish makes the generation current and tells exactly the watches
\* that waited for another one.
LEMMA CommitInv ==
    ASSUME NEW r, NEW held, RegistryInv(r, held), NEW t \in Transactions,
           NEW e \in PublicationEndpoints(r)
    PROVE  RegistryInv(CommitPublish(r, e, t).reg, held)
  <1> DEFINE n == SlotOf(r, e)
             p == PublicationAt(r, e)
             published == [p EXCEPT !.phase = "Published"]
             q == CompletePublication(published, t)
             r1 == [r EXCEPT !.services[n].active = q]
  <1>1. n \in Names /\ p = r.services[n].active /\ p \in Publications
    BY SlotExists DEF RegistryInv
  <1>2. \/ CommitPublish(r, e, t).reg = r
        \/ /\ p.phase = "Installed"
           /\ CommitPublish(r, e, t).reg = Notify(r1, p.protocol, n, p.generation).reg
    BY DEF CommitPublish, Err
  <1> HIDE DEF n, p
  <1>3. SamePublication(p, published) /\ published.phase = "Published"
    BY <1>1 DEF SamePublication, Publications
  <1> HIDE DEF published
  <1>4. SamePublication(p, q) /\ q.phase = "Published"
    <2>1. SamePublication(published, q) /\ q.phase = published.phase
      BY <1>3, PublicationTransactions, Zenon DEF SamePublication
    <2> QED
      BY <1>3, <2>1 DEF SamePublication
  <1> HIDE DEF q
  <1>5. p # Unpublished /\ q # Unpublished /\ q \in Publications
    BY <1>1, <1>4, RegistryAssumption DEF SamePublication, Publications, Unpublished
  <1>6. p.protocol \in Protocols /\ p.generation \in Nat
    BY <1>1 DEF Publications
  <1>7. q.generation = r.services[n].lastGeneration
    BY <1>1, <1>4, <1>5 DEF RegistryInv, WellFormed, SamePublication
  <1>8. Placed(r, r1, n, q)
    BY <1>1, <1>5, <1>7, Place DEF RegistryInv
  <1> HIDE DEF r1
  <1>9. DistinctEndpoints(r1)
    BY <1>1, <1>4, <1>5, <1>8, PlacedDistinct DEF RegistryInv, SamePublication
  <1>10. CurrentGeneration(r1, p.protocol, n) = p.generation
    BY <1>4, <1>5, <1>8 DEF Placed, CurrentGeneration, IsPublished, SamePublication
  <1>11. ASSUME p.phase = "Installed",
                NEW c \in Protocols, NEW m \in Names, c # p.protocol \/ m # n
         PROVE  CurrentGeneration(r1, c, m) = CurrentGeneration(r, c, m)
    <2>1. CASE m # n
      BY <1>1, <1>8, <2>1, OthersCurrent
    <2>2. CASE m = n
      <3>1. CurrentGeneration(r1, c, m) = 0
        BY <1>4, <1>8, <1>11, <2>2
           DEF Placed, CurrentGeneration, IsPublished, SamePublication
      <3>2. CurrentGeneration(r, c, m) = 0
        BY <1>1, <1>11, <2>2 DEF CurrentGeneration, IsPublished
      <3> QED
        BY <3>1, <3>2
    <2> QED
      BY <2>1, <2>2
  <1>12. /\ WellFormed(r1) /\ r1.generation = r.generation
         /\ r1.watches = r.watches /\ r1.clients = r.clients
         /\ r1.endpointIds = r.endpointIds
    BY <1>8 DEF Placed
  <1>13. CASE p.phase = "Installed"
    <2>1. RegistryInv(Notify(r1, p.protocol, n, p.generation).reg, held)
      BY <1>1, <1>6, <1>9, <1>10, <1>11, <1>12, <1>13, NotifyStep
    <2> QED
      BY <1>2, <2>1
  <1> QED
    BY <1>2, <1>13

\* Vacating a slot makes no generation current and tells exactly the watches
\* that waited for one (retire, peer_closed of a publication).
LEMMA VacateInv ==
    ASSUME NEW r, NEW held, RegistryInv(r, held), NEW e \in PublicationEndpoints(r)
    PROVE  RegistryInv(Vacate(r, e).reg, held)
  <1> DEFINE n == SlotOf(r, e)
             p == PublicationAt(r, e)
             r1 == [r EXCEPT !.services[n].active = Unpublished]
  <1>1. n \in Names /\ p = r.services[n].active /\ p \in Publications
    BY SlotExists DEF RegistryInv
  <1>2. Vacate(r, e).reg = Notify(r1, p.protocol, n, 0).reg
    BY DEF Vacate
  <1> HIDE DEF n, p
  <1>3. p.protocol \in Protocols
    BY <1>1 DEF Publications
  <1>4. Placed(r, r1, n, Unpublished)
    BY <1>1, Place DEF RegistryInv
  <1> HIDE DEF r1
  <1>5. DistinctEndpoints(r1)
    BY <1>1, <1>4, PlacedDistinct DEF RegistryInv
  <1>6. \A c : CurrentGeneration(r1, c, n) = 0
    BY <1>4 DEF Placed, CurrentGeneration, IsPublished
  <1>7. ASSUME NEW c \in Protocols, NEW m \in Names, c # p.protocol \/ m # n
        PROVE  CurrentGeneration(r1, c, m) = CurrentGeneration(r, c, m)
    <2>1. CASE m # n
      BY <1>1, <1>4, <2>1, OthersCurrent
    <2>2. CASE m = n
      <3>1. CurrentGeneration(r, c, m) = 0
        BY <1>1, <1>7, <2>2 DEF CurrentGeneration, IsPublished
      <3> QED
        BY <1>6, <2>2, <3>1
    <2> QED
      BY <2>1, <2>2
  <1>8. /\ WellFormed(r1) /\ r1.generation = r.generation
        /\ r1.watches = r.watches /\ r1.clients = r.clients
        /\ r1.endpointIds = r.endpointIds
    BY <1>4 DEF Placed
  <1>9. RegistryInv(Notify(r1, p.protocol, n, 0).reg, held)
    BY <1>1, <1>3, <1>5, <1>6, <1>7, <1>8, NotifyStep
  <1> QED
    BY <1>2, <1>9

\* peer_closed vacates the publication at e, or drops the client at e with
\* its watches.
LEMMA PeerClosedInv ==
    ASSUME NEW r, NEW held, RegistryInv(r, held), NEW e
    PROVE  RegistryInv(PeerClosed(r, e).reg, held)
  <1>1. CASE e \in PublicationEndpoints(r)
    <2>1. e \notin ClientEndpoints(r)
      <3>1. PICK n \in Names : r.services[n].active.endpoint = e
        BY <1>1 DEF PublicationEndpoints
      <3>2. r.services[n].active # Unpublished
        BY <1>1, <3>1 DEF PublicationEndpoints, Unpublished
      <3> QED
        BY <3>1, <3>2 DEF RegistryInv, DistinctEndpoints
    <2>2. PeerClosed(r, e) = Vacate(r, e)
      BY <1>1, <2>1 DEF PeerClosed
    <2> QED
      BY <1>1, <2>2, VacateInv
  <1>2. CASE e \in ClientEndpoints(r) \ PublicationEndpoints(r)
    <2> DEFINE left == [f \in DOMAIN r.clients \ {e} |-> r.clients[f]]
               s == [r EXCEPT !.clients = left,
                              !.watches = {w \in r.watches : w.client # e}]
    <2>1. PeerClosed(r, e).reg = s
      BY <1>2 DEF PeerClosed, Ok
    <2> HIDE DEF left
    <2>2. /\ Fields(s) /\ s.generation = r.generation
          /\ s.services = r.services /\ s.endpointIds = r.endpointIds
          /\ s.watches = {w \in r.watches : w.client # e} /\ s.clients = left
      BY Zenon DEF RegistryInv, WellFormed, Fields
    <2> HIDE DEF s
    <2>3. /\ IsFcn(s.clients) /\ DOMAIN s.clients = DOMAIN r.clients \ {e}
          /\ \A f \in DOMAIN s.clients : s.clients[f] = r.clients[f]
      BY <2>2 DEF IsFcn, left
    <2>4. \A w \in s.watches : /\ w.client \in DOMAIN s.clients
                               /\ w.transaction \in s.clients[w.client].live
      BY <2>2, <2>3 DEF RegistryInv, LiveWatches, ClientEndpoints
    <2>5. \A k \in held : k[1] \in DOMAIN s.clients => k[2] \in s.clients[k[1]].live
      BY <2>2, <2>3 DEF RegistryInv, OwnTickets, ClientEndpoints
    <2> QED
      BY <2>1, <2>2, <2>3, <2>4, <2>5, Shrink
  <1>3. CASE e \notin ClientEndpoints(r) \cup PublicationEndpoints(r)
    BY <1>3 DEF PeerClosed, Err
  <1> QED
    BY <1>1, <1>2, <1>3

-----------------------------------------------------------------------------
(* Installation                                                            *)

\* An install that is not refused uses an endpoint never issued before, and
\* an opened registry.
LEMMA AcceptedInstall ==
    ASSUME NEW r, NEW i, InstallRefusal(r, i) = "None"
    PROVE  i.registry = r.generation /\ i.endpoint \notin r.endpointIds
  BY DEF InstallRefusal

\* install_publication fills an idle slot with a publication that is not yet
\* published, so no current generation changes.
LEMMA InstallPublicationInv ==
    ASSUME NEW r, NEW held, RegistryInv(r, held), NEW i \in PublicationInstalls
    PROVE  RegistryInv(InstallPublication(r, i).reg, held)
  <1> DEFINE q == [endpoint |-> i.endpoint, generation |-> i.generation,
                   protocol |-> i.protocol, versions |-> i.versions,
                   phase |-> "Installed", live |-> 0, replay |-> <<>>]
             n == i.name
             slot == [lastGeneration |-> i.generation, active |-> q]
             s == [r EXCEPT !.services[i.name] = slot,
                            !.endpointIds = @ \cup {i.endpoint},
                            !.publicationIds = @ \cup {i.publication}]
  <1>1. CASE PublicationRefusal(r, i) # "None"
    BY <1>1 DEF InstallPublication, Err
  <1>2. CASE PublicationRefusal(r, i) = "None"
    <2>1. InstallPublication(r, i).reg = s
      BY <1>2 DEF InstallPublication, Ok
    <2>2. InstallRefusal(r, i) = "None" /\ SlotRefusal(r, i) = "None"
      BY <1>2 DEF PublicationRefusal
    <2>3. i.registry = r.generation /\ i.endpoint \notin r.endpointIds
      BY <2>2, AcceptedInstall
    <2>4. /\ n \in Names /\ i.endpoint \in Endpoints /\ i.generation \in Nat \ {0}
          /\ i.protocol \in Protocols /\ i.versions \in SUBSET Versions
          /\ i.registry # 0
      BY RegistryAssumption
    <2>5. q \in Publications
      BY <2>4 DEF Publications
    <2>6. r.services[n].active = Unpublished
      <3>1. CASE r.services[n].lastGeneration # 0
        BY <2>2, <2>4, <3>1 DEF SlotRefusal
      <3>2. CASE r.services[n].lastGeneration = 0
        <4>1. r.services[n].active \in Publications \cup {Unpublished}
          BY <2>4 DEF RegistryInv, WellFormed
        <4>2. \A p \in Publications : p.generation # 0
          BY DEF Publications
        <4> QED
          BY <2>4, <3>2, <4>1, <4>2 DEF RegistryInv, WellFormed
      <3> QED
        BY <3>1, <3>2
    <2>7. q.generation = i.generation /\ q.endpoint = i.endpoint /\ q.phase = "Installed"
      OBVIOUS
    <2> HIDE DEF q
    <2>8. slot \in [lastGeneration : Nat, active : Publications \cup {Unpublished}]
      BY <2>4, <2>5
    <2>9. slot.active = q /\ slot.lastGeneration = i.generation
      OBVIOUS
    <2> HIDE DEF slot
    <2>10. /\ Fields(s) /\ s.generation = r.generation
           /\ s.clients = r.clients /\ s.watches = r.watches
           /\ s.services = [r.services EXCEPT ![n] = slot]
           /\ s.endpointIds = r.endpointIds \cup {i.endpoint}
      BY Zenon DEF RegistryInv, WellFormed, Fields
    <2> HIDE DEF s
    <2>11. s.services \in [Names -> [lastGeneration : Nat,
                                     active : Publications \cup {Unpublished}]]
      BY <2>8, <2>10, Zenon DEF RegistryInv, WellFormed
    <2>12. s.services[n] = slot /\ \A m \in Names \ {n} : s.services[m] = r.services[m]
      BY <2>4, <2>10 DEF RegistryInv, WellFormed
    <2>13. \A m \in Names : s.services[m].active # Unpublished =>
               s.services[m].active.generation = s.services[m].lastGeneration
      BY <2>7, <2>9, <2>12 DEF RegistryInv, WellFormed
    <2>14. WellFormed(s)
      BY <2>3, <2>4, <2>10, <2>11, <2>13 DEF RegistryInv, WellFormed, Fields
    <2>15. \A c \in Protocols, m \in Names :
               CurrentGeneration(s, c, m) = CurrentGeneration(r, c, m)
      <3>1. \A c : /\ CurrentGeneration(s, c, n) = 0
                   /\ CurrentGeneration(r, c, n) = 0
        BY <2>6, <2>7, <2>9, <2>12 DEF CurrentGeneration, IsPublished
      <3>2. \A c, m : m \in Names \ {n} =>
                CurrentGeneration(s, c, m) = CurrentGeneration(r, c, m)
        BY <2>12 DEF CurrentGeneration, IsPublished
      <3> QED
        BY <3>1, <3>2
    <2>16. DistinctEndpoints(s)
      <3> SUFFICES ASSUME NEW k \in Names, s.services[k].active # Unpublished
                   PROVE  /\ s.services[k].active.endpoint
                                 \in s.endpointIds \ DOMAIN s.clients
                          /\ \A m \in Names : s.services[m].active.endpoint
                                 = s.services[k].active.endpoint => m = k
        BY DEF DistinctEndpoints, ClientEndpoints
      <3>1. \A m \in Names \ {n} :
                s.services[m].active.endpoint \in r.endpointIds \cup {0}
        BY <2>12 DEF RegistryInv, DistinctEndpoints, Unpublished
      <3>2. i.endpoint \notin DOMAIN r.clients /\ i.endpoint # 0
        BY <2>3, <2>4, RegistryAssumption DEF RegistryInv, WellFormed
      <3>3. CASE k = n
        BY <2>3, <2>7, <2>9, <2>10, <2>12, <3>1, <3>2, <3>3
      <3>4. CASE k # n
        <4>1. /\ r.services[k].active.endpoint \in r.endpointIds \ DOMAIN r.clients
              /\ \A m \in Names : r.services[m].active.endpoint
                     = r.services[k].active.endpoint => m = k
          BY <2>12, <3>4 DEF RegistryInv, DistinctEndpoints, ClientEndpoints
        <4> QED
          BY <2>3, <2>7, <2>9, <2>10, <2>12, <3>4, <4>1
      <3> QED
        BY <3>3, <3>4
    <2>17. RegistryInv(s, held)
      BY <2>10, <2>14, <2>15, <2>16, SameCurrent
    <2> QED
      BY <2>1, <2>17
  <1> QED
    BY <1>1, <1>2

\* install_client adds a client without live transactions at an endpoint that
\* no publication, client or abandoned ticket ever used.
LEMMA InstallClientInv ==
    ASSUME NEW r, NEW held, RegistryInv(r, held), NEW i \in ClientInstalls
    PROVE  RegistryInv(InstallClient(r, i).reg, held)
  <1> DEFINE client == [scope |-> i.scope, live |-> {}, replay |-> <<>>]
             more == [e \in DOMAIN r.clients \cup {i.endpoint} |->
                          IF e = i.endpoint THEN client ELSE r.clients[e]]
             s == [r EXCEPT !.clients = more,
                            !.endpointIds = @ \cup {i.endpoint},
                            !.clientIds = @ \cup {i.client}]
  <1>1. CASE ClientRefusal(r, i) # "None"
    BY <1>1 DEF InstallClient, Err
  <1>2. CASE ClientRefusal(r, i) = "None"
    <2>1. InstallClient(r, i).reg = s
      BY <1>2 DEF InstallClient, Ok
    <2>2. InstallRefusal(r, i) = "None"
      BY <1>2 DEF ClientRefusal
    <2>3. i.registry = r.generation /\ i.endpoint \notin r.endpointIds
      BY <2>2, AcceptedInstall
    <2>4. i.endpoint \in Endpoints /\ i.registry # 0
      BY RegistryAssumption
    <2>5. i.endpoint \notin DOMAIN r.clients
      BY <2>3 DEF RegistryInv, WellFormed
    <2>6. /\ IsFcn(more) /\ DOMAIN more = DOMAIN r.clients \cup {i.endpoint}
          /\ \A f \in DOMAIN r.clients : more[f] = r.clients[f]
      BY <2>5 DEF IsFcn
    <2> HIDE DEF more
    <2>7. /\ Fields(s) /\ s.generation = r.generation
          /\ s.services = r.services /\ s.watches = r.watches
          /\ s.clients = more
          /\ s.endpointIds = r.endpointIds \cup {i.endpoint}
      BY Zenon DEF RegistryInv, WellFormed, Fields
    <2> HIDE DEF s
    <2>8. WellFormed(s)
      BY <2>3, <2>4, <2>6, <2>7 DEF RegistryInv, WellFormed, Fields
    <2>9. CurrentWatches(s)
      BY <2>7 DEF RegistryInv, CurrentWatches, CurrentGeneration, IsPublished
    <2>10. LiveWatches(s)
      BY <2>6, <2>7 DEF RegistryInv, LiveWatches, ClientEndpoints
    <2>11. \A k \in held : k[1] # i.endpoint
      BY <2>3 DEF RegistryInv, OwnTickets
    <2>12. OwnTickets(s, held)
      BY <2>6, <2>7, <2>11 DEF RegistryInv, OwnTickets, ClientEndpoints
    <2>13. DistinctEndpoints(s)
      BY <2>3, <2>6, <2>7 DEF RegistryInv, DistinctEndpoints, ClientEndpoints
    <2> QED
      BY <2>1, <2>8, <2>9, <2>10, <2>12, <2>13 DEF RegistryInv
  <1> QED
    BY <1>1, <1>2

\* The registry that the first install opens is fresh; later ones find it.
LEMMA OpenedInv ==
    ASSUME NEW r, NEW held, RegistryInv(r, held), NEW g \in Nat
    PROVE  RegistryInv(Opened(r, g), held)
  <1>1. CASE r.generation # 0
    BY <1>1 DEF Opened
  <1>2. CASE r.generation = 0
    <2>1. held = {}
      BY <1>2 DEF RegistryInv, WellFormed, OwnTickets
    <2> QED
      BY <1>2, <2>1, FreshRegistry DEF Opened
  <1> QED
    BY <1>1, <1>2

-----------------------------------------------------------------------------
(* The invariant of the calls                                              *)

\* The five properties together, which is what is inductive.
CallsInv == RegistryInv(reg, tickets) /\ Tickets(tickets)

\* Before the registry is opened nothing is in it (main).
LEMMA InitCallsInv == Init => CallsInv
  BY FreshRegistry DEF Init, CallsInv, Tickets

\* Every call keeps the invariant, whoever makes it and whenever.
LEMMA NextCallsInv == CallsInv /\ [Next]_vars => CallsInv'
  <1> SUFFICES ASSUME CallsInv, [Next]_vars
               PROVE  CallsInv'
    OBVIOUS
  <1>0. RegistryInv(reg, tickets) /\ Tickets(tickets)
    BY DEF CallsInv
  <1>1. ASSUME NEW i \in PublicationInstalls, CallInstallPublication(i)
        PROVE  CallsInv'
    <2>1. i.registry \in Nat
      BY RegistryAssumption
    <2>2. RegistryInv(Opened(reg, i.registry), tickets)
      BY <1>0, <2>1, OpenedInv
    <2>3. RegistryInv(InstallPublication(Opened(reg, i.registry), i).reg, tickets)
      BY <2>2, InstallPublicationInv
    <2> QED
      BY <1>0, <1>1, <2>3 DEF CallInstallPublication, Call, CallsInv
  <1>2. ASSUME NEW i \in ClientInstalls, Open(i.registry)
        PROVE  CallsInv'
    <2>1. i.registry \in Nat
      BY RegistryAssumption
    <2> QED
      BY <1>0, <1>2, <2>1, OpenedInv DEF Open, Call, CallsInv
  <1>3. ASSUME NEW i \in ClientInstalls, CallInstallClient(i)
        PROVE  CallsInv'
    BY <1>0, <1>3, InstallClientInv DEF CallInstallClient, Call, CallsInv
  <1>4. ASSUME NEW e \in Endpoints, CallPeerClosed(e)
        PROVE  CallsInv'
    BY <1>0, <1>4, PeerClosedInv DEF CallPeerClosed, Call, CallsInv
  <1>5. ASSUME NEW e \in Endpoints, NEW t \in Transactions,
               CallPreparePublish(e, t)
        PROVE  CallsInv'
    BY <1>0, <1>5, PrepareInv DEF CallPreparePublish, Call, CallsInv
  <1>6. ASSUME NEW e \in Endpoints, NEW t \in Transactions,
               CallCommitPublish(e, t)
        PROVE  CallsInv'
    BY <1>0, <1>6, CommitInv DEF CallCommitPublish, Call, CallsInv
  <1>7. ASSUME NEW e \in Endpoints, NEW t \in Transactions, CallRetire(e, t)
        PROVE  CallsInv'
    <2>1. \/ Retire(reg, e, t).reg = reg
          \/ Retire(reg, e, t) = Vacate(reg, e)
      BY DEF Retire, Err
    <2>2. e \in PublicationEndpoints(reg) /\ Call(Retire(reg, e, t).reg)
      BY <1>7 DEF CallRetire
    <2>3. RegistryInv(Retire(reg, e, t).reg, tickets)
      BY <1>0, <2>1, <2>2, VacateInv
    <2> QED
      BY <1>0, <2>2, <2>3 DEF Call, CallsInv
  <1>8. ASSUME NEW e \in Endpoints, NEW t \in Transactions,
               CallCompleteTransaction(e, t)
        PROVE  CallsInv'
    BY <1>0, <1>8, CompleteTransactionInv DEF CallCompleteTransaction, Call, CallsInv
  <1>9. ASSUME NEW e \in Endpoints, NEW t \in Transactions,
               BeginEnumeration(e, t)
        PROVE  CallsInv'
    <2>1. RegistryInv(reg', tickets')
      BY <1>0, <1>9, EnumerateInv DEF BeginEnumeration, ClientEndpoints
    <2>2. Tickets(tickets')
      BY <1>0, <1>9 DEF BeginEnumeration, Tickets
    <2> QED
      BY <2>1, <2>2 DEF CallsInv
  <1>10. ASSUME NEW e \in Endpoints, NEW t \in Transactions,
                CompleteEnumeration(e, t)
         PROVE  CallsInv'
    <2>1. RegistryInv(reg', tickets')
      BY <1>0, <1>10, CompleteEnumerationInv DEF CompleteEnumeration, ClientEndpoints
    <2>2. Tickets(tickets')
      BY <1>0, <1>10 DEF CompleteEnumeration, Tickets
    <2> QED
      BY <2>1, <2>2 DEF CallsInv
  <1>11. ASSUME NEW e \in Endpoints, NEW t \in Transactions,
                AbandonEnumeration(e, t)
         PROVE  CallsInv'
    <2>1. tickets' \subseteq tickets /\ reg' = reg
      BY <1>11 DEF AbandonEnumeration
    <2> QED
      BY <1>0, <2>1, AbandonInv DEF CallsInv, Tickets
  <1>12. ASSUME NEW e \in Endpoints, NEW t \in Transactions,
                NEW q \in LookupRequests, CallLookup(e, t, q)
         PROVE  CallsInv'
    BY <1>0, <1>12, LookupInv DEF CallLookup, Call, CallsInv, ClientEndpoints
  <1>13. ASSUME NEW e \in Endpoints, NEW t \in Transactions,
                NEW q \in WatchRequests, CallWatch(e, t, q)
         PROVE  CallsInv'
    BY <1>0, <1>13, WatchInv DEF CallWatch, Call, CallsInv, ClientEndpoints
  <1>14. ASSUME NEW e \in Endpoints, NEW t \in Transactions,
                NEW target \in Transactions, CallCancel(e, t, target)
         PROVE  CallsInv'
    BY <1>0, <1>14, CancelInv DEF CallCancel, Call, CallsInv, ClientEndpoints
  <1>15. CASE Crash
    BY <1>15, FreshRegistry DEF Crash, CallsInv, Tickets
  <1>16. CASE UNCHANGED vars
    BY <1>0, <1>16 DEF vars, CallsInv
  <1> QED
    BY <1>1, <1>2, <1>3, <1>4, <1>5, <1>6, <1>7, <1>8, <1>9, <1>10, <1>11,
       <1>12, <1>13, <1>14, <1>15, <1>16 DEF Next

\* The inductive invariant holds in every reachable state of the registry.
THEOREM CallsSafe == Spec => []CallsInv
  BY InitCallsInv, NextCallsInv, PTL DEF Spec

\* The registry's tables stay well formed (RegistryState).
THEOREM CallsTypeCorrect == Spec => []TypeOK
  <1>1. CallsInv => TypeOK
    BY DEF CallsInv, RegistryInv, TypeOK, Tickets
  <1> QED
    BY <1>1, CallsSafe, PTL

\* No pending watch ever misses a change of its service: it waits on the
\* generation that is current, after any sequence of calls (watch, notify,
\* commit_publish, retire, peer_closed).
THEOREM NoChangeIsMissed == Spec => []WatchesAreCurrent
  <1>1. CallsInv => WatchesAreCurrent
    BY DEF CallsInv, RegistryInv, WatchesAreCurrent
  <1> QED
    BY <1>1, CallsSafe, PTL

\* Every pending watch holds a live transaction of its own at an installed
\* client (Client::reserve and complete, cancel, notify, peer_closed).
THEOREM WatchesStayLive == Spec => []WatchesAreLive
  <1>1. CallsInv => WatchesAreLive
    BY DEF CallsInv, RegistryInv, WatchesAreLive
  <1> QED
    BY <1>1, CallsSafe, PTL

\* An enumeration is the only owner of its transaction until its last page
\* (enumerate_begin, enumeration_complete).
THEOREM EnumerationsOwnTickets == Spec => []TicketsAreOwn
  <1>1. CallsInv => TicketsAreOwn
    BY DEF CallsInv, RegistryInv, TicketsAreOwn
  <1> QED
    BY <1>1, CallsSafe, PTL

\* An endpoint id names one party for the registry's whole life
\* (validate_fresh_endpoint_id).
THEOREM EndpointsNameOneParty == Spec => []EndpointsAreDistinct
  <1>1. CallsInv => EndpointsAreDistinct
    BY DEF CallsInv, RegistryInv, EndpointsAreDistinct
  <1> QED
    BY <1>1, CallsSafe, PTL
=============================================================================
