------------------------------ MODULE Registry ------------------------------
(***************************************************************************)
(* The state the bootstrap registry keeps and the methods its service loop *)
(* calls on it (userspace/registryd/src/lib.rs, RegistryState).            *)
(*                                                                         *)
(* A method is an operator from a registry value and the call's arguments  *)
(* to an outcome: whether it returned Ok, the error, the registry after    *)
(* the call, and the watch notifications it hands back.  Abstractions:     *)
(* endpoint ids are never issued twice, so an id stands for the pair of id *)
(* and endpoint generation; the arrays are keyed by what identifies their  *)
(* entries (service name, client endpoint, watch), since no method depends *)
(* on a slot's position; names are numbers, ordered as the byte strings.   *)
(* The wire decoder refuses every zero identity, so none occurs here.      *)
(***************************************************************************)
EXTENDS Integers, Sequences, FiniteSets, Functions

CONSTANTS
    Names, Protocols, Versions, Transactions, Endpoints,
    MaxServices,          \* service slots
    MaxClients,           \* client slots
    MaxPendingWatches,    \* watch slots
    MaxOutstanding,       \* live transactions, and watches, of one client
    ClientReplay,         \* completed ids a client remembers
    PublicationReplay,    \* completed ids a publication remembers
    MaxEndpointIds,       \* endpoint ids issued in the registry's lifetime
    MaxPublicationIds,
    MaxClientIds,
    PublicationInstalls,  \* what the supervisor may install: publications
    ClientInstalls,       \* and clients
    Observed              \* generations a WATCH may claim to have observed

Scopes == {"None", "BootstrapMetadata"}

ASSUME RegistryAssumption ==
    /\ Names \subseteq Nat /\ Endpoints \subseteq Nat \ {0}
    /\ Transactions \subseteq Nat \ {0}
    /\ \A limit \in {MaxServices, MaxClients, MaxPendingWatches, MaxOutstanding,
                     ClientReplay, PublicationReplay, MaxEndpointIds,
                     MaxPublicationIds, MaxClientIds} : limit \in Nat \ {0}
    /\ Observed \subseteq Nat
    /\ \A i \in PublicationInstalls :
           /\ i.endpoint \in Endpoints /\ i.name \in Names /\ i.protocol \in Protocols
           /\ i.versions \in SUBSET Versions /\ i.generation \in Nat \ {0}
           /\ i.registry \in Nat \ {0}
    /\ \A i \in ClientInstalls :
           i.endpoint \in Endpoints /\ i.scope \in Scopes /\ i.registry \in Nat \ {0}

\* An active publication; Unpublished is the absence of one.
Unpublished == [endpoint |-> 0]

Publications ==
    [endpoint : Endpoints, generation : Nat \ {0}, protocol : Protocols,
     versions : SUBSET Versions, phase : {"Installed", "Published"},
     live : Transactions \cup {0}, replay : Seq(Transactions)]

\* A slot with lastGeneration 0 has never been used.
ServiceSlots == [lastGeneration : Nat, active : Publications \cup {Unpublished}]

Clients ==
    [scope : Scopes, live : SUBSET Transactions, replay : Seq(Transactions)]

Watches ==
    [client : Endpoints, transaction : Transactions, protocol : Protocols,
     name : Names, last : Nat]

NewRegistry(generation) ==
    [generation |-> generation,
     services |-> [n \in Names |-> [lastGeneration |-> 0, active |-> Unpublished]],
     clients |-> <<>>,
     watches |-> {},
     endpointIds |-> {},
     publicationIds |-> {},
     clientIds |-> {}]

\* The registry comes into being with the first install message.
Opened(r, generation) == IF r.generation = 0 THEN NewRegistry(generation) ELSE r

WatchRequests == [name : Names, protocol : Protocols, last : Observed]
LookupRequests == [name : Names, protocol : Protocols, version : Versions]

Ok(r, told) == [ok |-> TRUE, error |-> "None", reg |-> r, told |-> told]
Err(r, e) == [ok |-> FALSE, error |-> e, reg |-> r, told |-> {}]

-----------------------------------------------------------------------------
(* Replay windows and transaction slots                                    *)

\* A full window keeps growing.
MutGrowWindow(window, t, capacity) == Append(window, t)

\* Replay::push: a full window forgets its oldest entry.
Push(window, t, capacity) ==
    IF Len(window) < capacity THEN Append(window, t) ELSE Append(Tail(window), t)

\* Transactions completed together.  The code completes them in the order of
\* the watch slots; here the order is some fixed one, which only decides which
\* of them a full window forgets first.
PushAll(window, S) ==
    MapThenFoldSet(LAMBDA t, w : Push(w, t, ClientReplay), window,
                   LAMBDA t : t, LAMBDA T : CHOOSE t \in T : TRUE, S)

\* The error Client::reserve returns for t, or "None".
ClientRefuses(c, t) ==
    CASE t \in Range(c.replay) -> "TransactionReplay"
      [] t \notin Range(c.replay) /\ t \in c.live -> "TransactionLive"
      [] t \notin Range(c.replay) /\ t \notin c.live
             /\ Cardinality(c.live) = MaxOutstanding -> "OutstandingLimit"
      [] OTHER -> "None"

\* Client::complete ignores a transaction that is not live.
CompleteClient(c, t) ==
    IF t \in c.live
    THEN [scope |-> c.scope, live |-> c.live \ {t},
          replay |-> Push(c.replay, t, ClientReplay)]
    ELSE c

\* The error publication_reserve returns for t, or "None".
PublicationRefuses(p, t) ==
    CASE p.live = t -> "TransactionLive"
      [] p.live # t /\ t \in Range(p.replay) -> "TransactionReplay"
      [] p.live \notin {0, t} /\ t \notin Range(p.replay) -> "OutstandingLimit"
      [] OTHER -> "None"

CompletePublication(p, t) ==
    [p EXCEPT !.live = 0, !.replay = Push(@, t, PublicationReplay)]

-----------------------------------------------------------------------------
(* Queries                                                                 *)

ClientEndpoints(r) == DOMAIN r.clients

PublicationEndpoints(r) ==
    {r.services[n].active.endpoint : n \in Names} \ {0}

\* publication_index: the slot whose active publication uses endpoint e.
SlotOf(r, e) == CHOOSE n \in Names : r.services[n].active.endpoint = e

PublicationAt(r, e) == r.services[SlotOf(r, e)].active

IsPublished(r, n) ==
    /\ r.services[n].active # Unpublished
    /\ r.services[n].active.phase = "Published"

PublishedNames(r) == {n \in Names : IsPublished(r, n)}

\* current_generation: 0 unless n is published under protocol p.
CurrentGeneration(r, p, n) ==
    IF IsPublished(r, n) /\ r.services[n].active.protocol = p
    THEN r.services[n].active.generation
    ELSE 0

\* The walk does not move past the previous name.
MutRepeatName(r, target) ==
    LET least(S) == IF S = {} THEN -1 ELSE CHOOSE n \in S : \A m \in S : n <= m
    IN  IF target < Cardinality(PublishedNames(r)) THEN least(PublishedNames(r)) ELSE -1

\* nth_canonical: walk up the published names, each step to the least name
\* above the previous one; 0-based, and -1 once the names are exhausted.
NthCanonical(r, target) ==
    LET above(previous) == {n \in PublishedNames(r) : n > previous}
        least(S) == IF S = {} THEN -1 ELSE CHOOSE n \in S : \A m \in S : n <= m
        nth[k \in 0..target] ==
            IF k = 0 THEN least(PublishedNames(r))
            ELSE IF nth[k - 1] = -1 THEN -1 ELSE least(above(nth[k - 1]))
    IN  nth[target]

-----------------------------------------------------------------------------
(* Installation by the supervisor                                          *)

\* Endpoint ids of earlier installs are not compared.
MutForgetEndpoint(r, i) ==
    CASE i.registry # r.generation -> "WrongRegistryGeneration"
      [] i.registry = r.generation
             /\ Cardinality(r.endpointIds) = MaxEndpointIds -> "Capacity"
      [] OTHER -> "None"

\* validate_install and validate_fresh_endpoint_id.
InstallRefusal(r, i) ==
    CASE i.registry # r.generation -> "WrongRegistryGeneration"
      [] i.registry = r.generation /\ i.endpoint \in r.endpointIds ->
             "DuplicateEndpoint"
      [] i.registry = r.generation /\ i.endpoint \notin r.endpointIds
             /\ Cardinality(r.endpointIds) = MaxEndpointIds -> "Capacity"
      [] OTHER -> "None"

\* The slot install_publication selects must be idle, and its generation new.
SlotRefusal(r, i) ==
    LET slot == r.services[i.name]
        used == {n \in Names : r.services[n].lastGeneration # 0}
    IN  IF i.name \in used
        THEN CASE slot.active # Unpublished -> "DuplicateService"
               [] slot.active = Unpublished
                      /\ i.generation <= slot.lastGeneration ->
                      "StaleServiceGeneration"
               [] OTHER -> "None"
        ELSE IF Cardinality(used) = MaxServices THEN "Capacity" ELSE "None"

PublicationRefusal(r, i) ==
    CASE InstallRefusal(r, i) # "None" -> InstallRefusal(r, i)
      [] InstallRefusal(r, i) = "None" /\ i.publication \in r.publicationIds ->
             "DuplicatePublication"
      [] InstallRefusal(r, i) = "None" /\ i.publication \notin r.publicationIds
             /\ Cardinality(r.publicationIds) = MaxPublicationIds -> "Capacity"
      [] OTHER -> SlotRefusal(r, i)

\* A slot that was used before keeps its old generation.
MutKeepLastGeneration(r, i) ==
    LET publication ==
            [endpoint |-> i.endpoint, generation |-> i.generation,
             protocol |-> i.protocol, versions |-> i.versions,
             phase |-> "Installed", live |-> 0, replay |-> <<>>]
    IN  IF PublicationRefusal(r, i) # "None"
        THEN Err(r, PublicationRefusal(r, i))
        ELSE Ok([r EXCEPT
                    !.services[i.name] =
                        [lastGeneration |-> IF @.lastGeneration = 0 THEN i.generation
                                            ELSE @.lastGeneration,
                         active |-> publication],
                    !.endpointIds = @ \cup {i.endpoint},
                    !.publicationIds = @ \cup {i.publication}], {})

InstallPublication(r, i) ==
    LET refusal == PublicationRefusal(r, i)
        publication ==
            [endpoint |-> i.endpoint, generation |-> i.generation,
             protocol |-> i.protocol, versions |-> i.versions,
             phase |-> "Installed", live |-> 0, replay |-> <<>>]
    IN  IF refusal # "None"
        THEN Err(r, refusal)
        ELSE Ok([r EXCEPT
                    !.services[i.name] =
                        [lastGeneration |-> i.generation, active |-> publication],
                    !.endpointIds = @ \cup {i.endpoint},
                    !.publicationIds = @ \cup {i.publication}], {})

ClientRefusal(r, i) ==
    CASE InstallRefusal(r, i) # "None" -> InstallRefusal(r, i)
      [] InstallRefusal(r, i) = "None" /\ i.client \in r.clientIds ->
             "DuplicateClient"
      [] InstallRefusal(r, i) = "None" /\ i.client \notin r.clientIds
             /\ \/ Cardinality(r.clientIds) = MaxClientIds
                \/ Cardinality(ClientEndpoints(r)) = MaxClients -> "Capacity"
      [] OTHER -> "None"

InstallClient(r, i) ==
    LET refusal == ClientRefusal(r, i)
        client == [scope |-> i.scope, live |-> {}, replay |-> <<>>]
    IN  IF refusal # "None"
        THEN Err(r, refusal)
        ELSE Ok([r EXCEPT !.clients = [e \in DOMAIN @ \cup {i.endpoint} |->
                                          IF e = i.endpoint THEN client ELSE @[e]],
                          !.endpointIds = @ \cup {i.endpoint},
                          !.clientIds = @ \cup {i.client}], {})

-----------------------------------------------------------------------------
(* Watches and the changes that consume them                               *)

\* Only a newer generation wakes a watch, so a retirement is missed.
MutNotifyNewerOnly(r, protocol, name, generation) ==
    LET hit == {w \in r.watches : /\ w.protocol = protocol
                                  /\ w.name = name
                                  /\ w.last < generation}
        of(e) == {w.transaction : w \in {v \in hit : v.client = e}}
        wake(e) ==
            [scope |-> r.clients[e].scope,
             live |-> r.clients[e].live \ of(e),
             replay |-> PushAll(r.clients[e].replay, of(e))]
    IN  Ok([r EXCEPT !.watches = @ \ hit,
                     !.clients = [e \in DOMAIN @ |-> wake(e)]],
           {[client |-> w.client, transaction |-> w.transaction,
             name |-> w.name, protocol |-> w.protocol,
             generation |-> generation] : w \in hit})

\* notify: every watch on the service whose last generation differs is
\* completed in its client and handed back as a notification.
Notify(r, protocol, name, generation) ==
    LET hit == {w \in r.watches : /\ w.protocol = protocol
                                  /\ w.name = name
                                  /\ w.last # generation}
        woken == {w \in hit : w.client \in ClientEndpoints(r)}
        of(e) == {w.transaction : w \in {v \in woken : v.client = e}}
        wake(e) ==
            [scope |-> r.clients[e].scope,
             live |-> r.clients[e].live \ of(e),
             replay |-> PushAll(r.clients[e].replay, of(e) \cap r.clients[e].live)]
    IN  Ok([r EXCEPT !.watches = @ \ hit,
                     !.clients = [e \in DOMAIN @ |-> wake(e)]],
           {[client |-> w.client, transaction |-> w.transaction,
             name |-> w.name, protocol |-> w.protocol,
             generation |-> generation] : w \in woken})

\* prepare_publish.
PreparePublish(r, e, t) ==
    LET n == SlotOf(r, e)
        p == PublicationAt(r, e)
        refusal == PublicationRefuses(p, t)
        with(q) == [r EXCEPT !.services[n].active = q]
    IN  IF refusal # "None" THEN Err(r, refusal)
        ELSE IF p.phase # "Installed"
        THEN Err(with(CompletePublication([p EXCEPT !.live = t], t)), "InvalidState")
        ELSE Ok(with([p EXCEPT !.live = t]), {})

\* The watchers are told before the publication is marked published.
MutNotifyBeforeCommit(r, e, t) ==
    LET n == SlotOf(r, e)
        p == PublicationAt(r, e)
    IN  Notify([r EXCEPT !.services[n].active = CompletePublication(p, t)],
               p.protocol, n, p.generation)

\* commit_publish, whose ticket the service holds across one send.
CommitPublish(r, e, t) ==
    LET n == SlotOf(r, e)
        p == PublicationAt(r, e)
        q == CompletePublication([p EXCEPT !.phase = "Published"], t)
    IN  IF p.live # t \/ p.phase # "Installed"
        THEN Err(r, "InvalidState")
        ELSE Notify([r EXCEPT !.services[n].active = q], p.protocol, n, p.generation)

\* The slot is freed together with its memory of generations.
MutForgetSlot(r, e) ==
    LET n == SlotOf(r, e)
    IN  Notify([r EXCEPT !.services[n] = [lastGeneration |-> 0, active |-> Unpublished]],
               PublicationAt(r, e).protocol, n, 0)

\* The publication leaves its slot, which remembers the generation.
Vacate(r, e) ==
    LET n == SlotOf(r, e)
    IN  Notify([r EXCEPT !.services[n].active = Unpublished],
               PublicationAt(r, e).protocol, n, 0)

Retire(r, e, t) ==
    LET refusal == PublicationRefuses(PublicationAt(r, e), t)
    IN  IF refusal # "None" THEN Err(r, refusal) ELSE Vacate(r, e)

\* A closed client leaves its watches behind.
MutKeepWatches(r, e) ==
    CASE e \in PublicationEndpoints(r) -> Vacate(r, e)
      [] e \in ClientEndpoints(r) ->
             Ok([r EXCEPT !.clients = [f \in DOMAIN @ \ {e} |-> @[f]]], {})
      [] OTHER -> Err(r, "UnknownEndpoint")

PeerClosed(r, e) ==
    CASE e \in PublicationEndpoints(r) -> Vacate(r, e)
      [] e \in ClientEndpoints(r) ->
             Ok([r EXCEPT !.clients = [f \in DOMAIN @ \ {e} |-> @[f]],
                          !.watches = {w \in @ : w.client # e}], {})
      [] OTHER -> Err(r, "UnknownEndpoint")

-----------------------------------------------------------------------------
(* Client requests                                                         *)

ReserveClient(r, e, t) ==
    [r EXCEPT !.clients[e] =
        [scope |-> @.scope, live |-> @.live \cup {t}, replay |-> @.replay]]

FinishClient(r, e, t) == [r EXCEPT !.clients[e] = CompleteClient(@, t)]

\* Reserve t and complete it at once, answering with the given outcome.
Settle(r, e, t, error) ==
    LET done == FinishClient(ReserveClient(r, e, t), e, t)
    IN  IF error = "None" THEN Ok(done, {}) ELSE Err(done, error)

\* lookup; the offer goes to the publication in slot q.name.
Lookup(r, e, t, q) ==
    LET refusal == ClientRefuses(r.clients[e], t)
        result ==
            CASE CurrentGeneration(r, q.protocol, q.name) = 0 -> "NotPublished"
              [] CurrentGeneration(r, q.protocol, q.name) # 0
                     /\ q.version \notin r.services[q.name].active.versions ->
                     "UnsupportedVersion"
              [] OTHER -> "None"
    IN  IF refusal # "None" THEN Err(r, refusal) ELSE Settle(r, e, t, result)

\* watch: Ok leaves the watch pending, or completes t when the client's
\* generation is out of date.
Watch(r, e, t, q) ==
    LET refusal == ClientRefuses(r.clients[e], t)
        full == \/ Cardinality(r.watches) = MaxPendingWatches
                \/ Cardinality({w \in r.watches : w.client = e}) = MaxOutstanding
        watch == [client |-> e, transaction |-> t, protocol |-> q.protocol,
                  name |-> q.name, last |-> q.last]
    IN  IF refusal # "None" THEN Err(r, refusal)
        ELSE IF CurrentGeneration(r, q.protocol, q.name) # q.last
        THEN Settle(r, e, t, "None")
        ELSE IF full THEN Settle(r, e, t, "Capacity")
        ELSE Ok([ReserveClient(r, e, t) EXCEPT !.watches = @ \cup {watch}], {})

\* Any live transaction can be cancelled, not only a watch's.
MutCancelAny(r, e, t, target) ==
    IF ClientRefuses(r.clients[e], t) # "None"
    THEN Err(r, ClientRefuses(r.clients[e], t))
    ELSE Ok([FinishClient(FinishClient(ReserveClient(r, e, t), e, target), e, t)
                EXCEPT !.watches = {w \in @ : w.client # e \/ w.transaction # target}], {})

Cancel(r, e, t, target) ==
    LET refusal == ClientRefuses(r.clients[e], t)
        hit == {w \in r.watches : w.client = e /\ w.transaction = target}
        both == FinishClient(FinishClient(ReserveClient(r, e, t), e, target), e, t)
    IN  IF refusal # "None" THEN Err(r, refusal)
        ELSE IF hit = {} THEN Settle(r, e, t, "UnknownTransaction")
        ELSE Ok([both EXCEPT !.watches = @ \ hit], {})

\* enumerate_begin: on Ok, t stays live until enumeration_complete.
EnumerateBegin(r, e, t) ==
    LET refusal == ClientRefuses(r.clients[e], t)
    IN  IF refusal # "None" THEN Err(r, refusal)
        ELSE IF r.clients[e].scope # "BootstrapMetadata"
        THEN Settle(r, e, t, "EnumerationDenied")
        ELSE Ok(ReserveClient(r, e, t), {})

\* complete_transaction: a request refused before dispatch.
CompleteTransaction(r, e, t) ==
    IF e \in ClientEndpoints(r)
    THEN LET refusal == ClientRefuses(r.clients[e], t)
         IN  IF refusal # "None" THEN Err(r, refusal) ELSE Settle(r, e, t, "None")
    ELSE LET p == PublicationAt(r, e)
             refusal == PublicationRefuses(p, t)
         IN  IF refusal # "None" THEN Err(r, refusal)
             ELSE Ok([r EXCEPT !.services[SlotOf(r, e)].active =
                                   CompletePublication(p, t)], {})
=============================================================================
