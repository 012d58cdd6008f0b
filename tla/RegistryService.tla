--------------------------- MODULE RegistryService ---------------------------
(***************************************************************************)
(* The registry daemon's service loop (userspace/registryd/src/service.rs  *)
(* and main.rs) over the registry state of module Registry, with the       *)
(* supervisor on the control channel and peers that send, fill their       *)
(* queues and close their channel at any moment.                           *)
(*                                                                         *)
(* The loop is single threaded, but every kernel call it makes is a point  *)
(* where a peer may act.  work is the rest of the current step: a sequence *)
(* of tasks, each up to its next send, probe or close; it is empty while   *)
(* the loop waits.  The message a peer sent is chosen when it is received. *)
(***************************************************************************)
EXTENDS Registry, SequencesExt

CONSTANTS
    PageRecords,          \* records of one SERVICE_LIST page
    MaxInstalls,          \* bound: install messages received
    MaxRequests           \* bound: datagrams received on endpoints

ASSUME ServiceAssumption ==
    /\ PageRecords \in Nat \ {0} /\ MaxInstalls \in Nat /\ MaxRequests \in Nat

VARIABLES
    reg,       \* RegistryService.state; generation 0 before it exists
    work,      \* the tasks left in the current step
    held,      \* handles the process holds: endpoints, and one just received
    peer,      \* whether the far end of an endpoint's channel is open
    exited,    \* why the process ended, "No" while it runs
    owes,      \* history: requests minus replies, per endpoint and transaction
    history,   \* history: the generations published under each name
    installs,  \* install messages received
    requests   \* endpoint datagrams received

vars == <<reg, work, held, peer, exited, owes, history, installs, requests>>

Settled == <<held, peer, exited, history, installs, requests>>

Installed(r) == PublicationEndpoints(r) \cup ClientEndpoints(r)

Idle == work = <<>> /\ exited = "No"

\* The handle that arrived with the datagram in hand.
Incoming == 0

NoDebt == [t \in Transactions |-> 0]

Init ==
    /\ reg = NewRegistry(0)
    /\ work = <<>>
    /\ held = {}
    /\ peer = [e \in Endpoints |-> "Open"]
    /\ exited = "No"
    /\ owes = [e \in Endpoints |-> NoDebt]
    /\ history = [n \in Names |-> <<>>]
    /\ installs = 0 /\ requests = 0

-----------------------------------------------------------------------------
(* Tasks                                                                   *)

Probe(e) == [op |-> "Probe", e |-> e]
RetirePeer(e) == [op |-> "RetirePeer", e |-> e]
Admit(i) == [op |-> "Admit", install |-> i]
Published(e, t) == [op |-> "Published", e |-> e, t |-> t]
Retired(e, told) == [op |-> "Retired", e |-> e, told |-> told]
\* A reply that settles the given transactions of e.
Reply(e, settles) == [op |-> "Reply", e |-> e, settles |-> settles]
Forward(e, t, to) == [op |-> "Forward", e |-> e, t |-> t, to |-> to]
CloseChannel(e, t) == [op |-> "CloseChannel", e |-> e, t |-> t]
Page(e, t, page, total, listed) ==
    [op |-> "Page", e |-> e, t |-> t, page |-> page, total |-> total,
     listed |-> listed]
Notices(told) ==
    IF told = {} THEN <<>> ELSE <<[op |-> "Notices", told |-> told]>>

Current(op) == work # <<>> /\ Head(work).op = op /\ exited = "No"

Pay(e, settles) ==
    owes' = [owes EXCEPT ![e] = [t \in Transactions |->
                                     IF t \in settles THEN @[t] - 1 ELSE @[t]]]

\* A send reaches a peer that is open; it may also fail on a full queue, and
\* always fails on a handle that is no longer held.
SendOk(e) == e \in held /\ peer[e] = "Open"

\* A step that returns an error ends the process, and with it all it holds.
Exit(reason) ==
    /\ exited' = reason
    /\ reg' = NewRegistry(0) /\ work' = <<>> /\ held' = {}
    /\ owes' = [e \in Endpoints |-> NoDebt]
    /\ UNCHANGED <<peer, history, installs, requests>>

-----------------------------------------------------------------------------
(* Peers and platform                                                      *)

\* Closing before the endpoint is installed is closing just after: nothing
\* looks at the channel in between.
ClosePeer(e) ==
    /\ e \in held /\ peer[e] = "Open"
    /\ peer' = [peer EXCEPT ![e] = "Closed"]
    /\ UNCHANGED <<reg, work, held, exited, owes, history, installs, requests>>

\* The supervisor closes the control channel, or the wait itself fails.  (So
\* may closing a handle of the datagram received next, to the same effect.)
LoseControl == Idle /\ Exit("ControlPeerClosed")
WaitFails == Idle /\ Exit("Transport")

-----------------------------------------------------------------------------
(* The control channel                                                     *)

\* A control datagram that is not a well-formed install: its handles are closed.
DiscardControl ==
    /\ Idle /\ installs < MaxInstalls
    /\ installs' = installs + 1
    /\ UNCHANGED <<reg, work, held, peer, exited, owes, history, requests>>

ReceiveInstallPublication(i) ==
    LET outcome == InstallPublication(Opened(reg, i.registry), i)
    IN  /\ Idle /\ installs < MaxInstalls
        /\ installs' = installs + 1
        /\ reg' = outcome.reg
        /\ held' = IF outcome.ok THEN held \cup {i.endpoint} ELSE held
        /\ UNCHANGED <<work, peer, exited, owes, history, requests>>

\* Before a client is admitted every installed endpoint is probed, and the
\* closed ones are retired once all have been probed.  (Publications come
\* before clients; the order within each group is immaterial.)
ReceiveInstallClient(i) ==
    LET probes(S) == [k \in 1..Cardinality(S) |-> Probe(SetToSeq(S)[k])]
    IN  /\ Idle /\ installs < MaxInstalls
        /\ installs' = installs + 1
        /\ reg' = Opened(reg, i.registry)
        /\ held' = held \cup {Incoming}
        /\ work' = probes(PublicationEndpoints(reg)) \o probes(ClientEndpoints(reg))
                       \o <<Admit(i)>>
        /\ UNCHANGED <<peer, exited, owes, history, requests>>

ProbeEndpoint ==
    LET e == Head(work).e
        rest == Tail(work)
    IN  /\ Current("Probe")
        /\ work' = IF peer[e] = "Closed"
                   THEN Front(rest) \o <<RetirePeer(e), Last(rest)>>
                   ELSE rest
        /\ UNCHANGED <<reg, owes, Settled>>

ProbeFails == Current("Probe") /\ Exit("Transport")

AdmitClient ==
    LET i == Head(work).install
        outcome == InstallClient(reg, i)
    IN  /\ Current("Admit")
        /\ reg' = outcome.reg
        /\ held' = (held \ {Incoming}) \cup (IF outcome.ok THEN {i.endpoint} ELSE {})
        /\ work' = Tail(work)
        /\ UNCHANGED <<peer, exited, owes, history, installs, requests>>

-----------------------------------------------------------------------------
(* Removing an endpoint                                                    *)

\* retire_peer: the registry forgets the endpoint, its handle is closed and
\* the watches its departure consumed are notified.  An endpoint the registry
\* does not know is an error that ends the loop.
RetireEndpoint ==
    LET e == Head(work).e
        outcome == PeerClosed(reg, e)
    IN  /\ Current("RetirePeer")
        /\ IF ~outcome.ok THEN Exit("State")
           ELSE IF e \notin held THEN Exit("BadHandle")
           ELSE /\ reg' = outcome.reg
                /\ held' = held \ {e}
                /\ owes' = [owes EXCEPT ![e] = NoDebt]
                /\ work' = Notices(outcome.told) \o Tail(work)
                /\ UNCHANGED <<peer, exited, history, installs, requests>>

\* The close of a handle the process holds fails, and the loop with it: of an
\* endpoint the registry has just forgotten, of a channel no publication took,
\* or of a client the registry refused.
CloseFails ==
    /\ \/ Current("RetirePeer") /\ PeerClosed(reg, Head(work).e).ok
       \/ Current("Retired")
       \/ Current("CloseChannel")
       \/ Current("Admit") /\ ~InstallClient(reg, Head(work).install).ok
    /\ Exit("Transport")

\* A failed notification is ignored.
MutDropNotice ==
    /\ Current("Notices")
    /\ \E n \in Head(work).told :
           /\ work' = Notices(Head(work).told \ {n}) \o Tail(work)
           /\ \/ SendOk(n.client) /\ Pay(n.client, {n.transaction})
              \/ owes' = owes
    /\ UNCHANGED <<reg, Settled>>

\* A failed notification is sent again.
MutRetryNotice ==
    /\ Current("Notices")
    /\ \E n \in Head(work).told :
           \/ /\ SendOk(n.client)
              /\ Pay(n.client, {n.transaction})
              /\ work' = Notices(Head(work).told \ {n}) \o Tail(work)
           \/ work' = work /\ owes' = owes
    /\ UNCHANGED <<reg, Settled>>

\* send_notifications, one notification; a failed send removes the client.
SendNotice ==
    /\ Current("Notices")
    /\ \E n \in Head(work).told :
           LET rest == Notices(Head(work).told \ {n}) \o Tail(work)
           IN  \/ /\ SendOk(n.client)
                  /\ Pay(n.client, {n.transaction})
                  /\ work' = rest
               \/ /\ work' = <<RetirePeer(n.client)>> \o rest
                  /\ owes' = owes
    /\ UNCHANGED <<reg, Settled>>

\* A reply whose send fails removes the endpoint.
SendReply ==
    LET e == Head(work).e
    IN  /\ Current("Reply")
        /\ \/ /\ SendOk(e)
              /\ Pay(e, Head(work).settles)
              /\ work' = Tail(work)
           \/ /\ work' = <<RetirePeer(e)>> \o Tail(work)
              /\ owes' = owes
        /\ UNCHANGED <<reg, Settled>>

-----------------------------------------------------------------------------
(* Datagrams on an installed endpoint                                      *)

\* The wait selected e as readable; a closed peer's queue may still hold data.
Readable(e) ==
    /\ Idle /\ requests < MaxRequests
    /\ e \in Installed(reg)
    /\ requests' = requests + 1

Request(e, t) ==
    /\ Readable(e)
    /\ owes' = [owes EXCEPT ![e][t] = @ + 1]
    /\ UNCHANGED <<peer, exited, history, installs>>

\* The registry's answer, and what the service does after an Ok.
Answered(e, t, outcome, next) ==
    /\ reg' = outcome.reg
    /\ work' = IF outcome.ok THEN next ELSE <<Reply(e, {t})>>

\* A closed peer with an empty queue.
ReceivePeerClosed(e) ==
    /\ Idle /\ e \in Installed(reg) /\ peer[e] = "Closed"
    /\ work' = <<RetirePeer(e)>>
    /\ UNCHANGED <<reg, owes, Settled>>

\* An uncorrelatable datagram is dropped; one that does not fit the receive
\* buffer costs the peer its endpoint.
ReceiveGarbage(e) ==
    /\ Readable(e)
    /\ UNCHANGED <<reg, work, held, peer, exited, owes, history, installs>>

ReceiveFails(e) ==
    /\ Readable(e)
    /\ work' = <<RetirePeer(e)>>
    /\ UNCHANGED <<reg, held, peer, exited, owes, history, installs>>

\* A correlatable datagram refused before dispatch (version, type, direction,
\* correlation or framing), answered with an error.
ReceiveRefused(e, t) ==
    /\ Request(e, t)
    /\ Answered(e, t, CompleteTransaction(reg, e, t), <<Reply(e, {t})>>)
    /\ UNCHANGED held

ReceivePublish(e, t) ==
    /\ e \in PublicationEndpoints(reg)
    /\ Request(e, t)
    /\ Answered(e, t, PreparePublish(reg, e, t), <<Published(e, t)>>)
    /\ UNCHANGED held

\* The publication becomes visible only after PUBLISHED has been sent.
SendPublished ==
    LET e == Head(work).e
        t == Head(work).t
        outcome == CommitPublish(reg, e, t)
        name == SlotOf(reg, e)
    IN  /\ Current("Published")
        /\ \/ /\ SendOk(e)
              /\ Pay(e, {t})
              /\ reg' = outcome.reg
              /\ work' = Notices(outcome.told) \o Tail(work)
              /\ history' = [history EXCEPT ![name] =
                                Append(@, PublicationAt(reg, e).generation)]
           \/ /\ work' = <<RetirePeer(e)>> \o Tail(work)
              /\ UNCHANGED <<reg, owes, history>>
        /\ UNCHANGED <<held, peer, exited, installs, requests>>

ReceiveRetire(e, t) ==
    LET outcome == Retire(reg, e, t)
    IN  /\ e \in PublicationEndpoints(reg)
        /\ Request(e, t)
        /\ Answered(e, t, outcome, <<Retired(e, outcome.told)>>)
        /\ UNCHANGED held

\* RETIRED is sent whatever becomes of it, then the handle is closed.
SendRetired ==
    LET e == Head(work).e
    IN  /\ Current("Retired")
        /\ IF e \notin held THEN Exit("BadHandle")
           ELSE /\ held' = held \ {e}
                /\ owes' = [owes EXCEPT ![e] = NoDebt]
                /\ work' = Notices(Head(work).told) \o Tail(work)
                /\ UNCHANGED <<reg, peer, exited, history, installs, requests>>

ReceiveWatch(e, t, q) ==
    LET outcome == Watch(reg, e, t, q)
        pending == outcome.reg.watches # reg.watches
    IN  /\ e \in ClientEndpoints(reg)
        /\ Request(e, t)
        /\ Answered(e, t, outcome, IF pending THEN <<>> ELSE <<Reply(e, {t})>>)
        /\ UNCHANGED held

ReceiveCancel(e, t, target) ==
    /\ e \in ClientEndpoints(reg)
    /\ Request(e, t)
    /\ Answered(e, t, Cancel(reg, e, t, target), <<Reply(e, {t, target})>>)
    /\ UNCHANGED held

\* LOOKUP_CONNECT carries a channel; one that fails validation is closed and
\* the request refused.
ReceiveLookup(e, t, q) ==
    LET outcome == Lookup(reg, e, t, q)
        to == reg.services[q.name].active.endpoint
    IN  /\ e \in ClientEndpoints(reg)
        /\ Request(e, t)
        /\ Answered(e, t, outcome, <<Forward(e, t, to)>>)
        /\ held' = IF outcome.ok THEN held \cup {Incoming} ELSE held

\* The channel no publication took stays open.
MutForwardLeaks ==
    LET task == Head(work)
    IN  /\ Current("Forward")
        /\ \/ SendOk(task.to) /\ held' = held \ {Incoming}
           \/ UNCHANGED held
        /\ work' = <<Reply(task.e, {task.t})>> \o Tail(work)
        /\ UNCHANGED <<reg, peer, exited, owes, history, installs, requests>>

\* send_move: the channel leaves with CONNECT_OFFER, or the send fails and the
\* process still holds it.
ForwardChannel ==
    LET task == Head(work)
    IN  /\ Current("Forward")
        /\ \/ /\ SendOk(task.to)
              /\ held' = held \ {Incoming}
              /\ work' = <<Reply(task.e, {task.t})>> \o Tail(work)
           \/ /\ work' = <<CloseChannel(task.e, task.t)>> \o Tail(work)
              /\ UNCHANGED held
        /\ UNCHANGED <<reg, peer, exited, owes, history, installs, requests>>

\* The channel no publication took is closed before FORWARD_FAILED is sent.
CloseUnforwarded ==
    LET task == Head(work)
    IN  /\ Current("CloseChannel")
        /\ IF Incoming \notin held THEN Exit("BadHandle")
           ELSE /\ held' = held \ {Incoming}
                /\ work' = <<Reply(task.e, {task.t})>> \o Tail(work)
                /\ UNCHANGED <<reg, peer, exited, owes, history, installs, requests>>

ReceiveEnumerate(e, t) ==
    LET outcome == EnumerateBegin(reg, e, t)
        total == Cardinality(PublishedNames(reg))
    IN  /\ e \in ClientEndpoints(reg)
        /\ Request(e, t)
        /\ Answered(e, t, outcome, <<Page(e, t, 0, total, <<>>)>>)
        /\ UNCHANGED held

PageCount(total) ==
    IF total = 0 THEN 1 ELSE (total + PageRecords - 1) \div PageRecords

\* The records of one page: those of its positions that nth_canonical fills.
Records(page) ==
    SelectSeq([k \in 1..PageRecords |->
                   NthCanonical(reg, page * PageRecords + k - 1)],
              LAMBDA n : n # -1)

\* Every page completes the enumeration's transaction.
MutFinishEachPage ==
    LET task == Head(work)
        final == task.page + 1 = PageCount(task.total)
    IN  /\ Current("Page")
        /\ SendOk(task.e)
        /\ reg' = FinishClient(reg, task.e, task.t)
        /\ IF final THEN Pay(task.e, {task.t}) ELSE UNCHANGED owes
        /\ work' = IF final THEN Tail(work)
                   ELSE <<[task EXCEPT !.page = @ + 1]>> \o Tail(work)
        /\ UNCHANGED Settled

SendPage ==
    LET task == Head(work)
        listed == task.listed \o Records(task.page)
        final == task.page + 1 = PageCount(task.total)
    IN  /\ Current("Page")
        /\ \/ /\ SendOk(task.e)
              /\ IF final
                 THEN /\ reg' = FinishClient(reg, task.e, task.t)
                      /\ Pay(task.e, {task.t})
                      /\ work' = Tail(work)
                 ELSE /\ work' = <<Page(task.e, task.t, task.page + 1, task.total,
                                        listed)>> \o Tail(work)
                      /\ UNCHANGED <<reg, owes>>
           \/ /\ work' = <<RetirePeer(task.e)>> \o Tail(work)
              /\ UNCHANGED <<reg, owes>>
        /\ UNCHANGED Settled

-----------------------------------------------------------------------------

Receive ==
    \/ DiscardControl
    \/ \E i \in PublicationInstalls : ReceiveInstallPublication(i)
    \/ \E i \in ClientInstalls : ReceiveInstallClient(i)
    \/ \E e \in Endpoints : \/ ReceivePeerClosed(e)
                            \/ ReceiveGarbage(e)
                            \/ ReceiveFails(e)
    \/ \E e \in Endpoints, t \in Transactions :
           \/ ReceiveRefused(e, t)
           \/ ReceivePublish(e, t)
           \/ ReceiveRetire(e, t)
           \/ \E q \in WatchRequests : ReceiveWatch(e, t, q)
           \/ \E target \in Transactions : ReceiveCancel(e, t, target)
           \/ \E q \in LookupRequests : ReceiveLookup(e, t, q)
           \/ ReceiveEnumerate(e, t)

Continue ==
    \/ ProbeEndpoint \/ AdmitClient \/ RetireEndpoint
    \/ SendNotice \/ SendReply \/ SendPublished \/ SendRetired
    \/ ForwardChannel \/ CloseUnforwarded \/ SendPage

Next ==
    \/ \E e \in Endpoints : ClosePeer(e)
    \/ LoseControl \/ WaitFails \/ ProbeFails \/ CloseFails
    \/ Receive
    \/ Continue

Spec == Init /\ [][Next]_vars

\* The process runs as long as its step has work; only the wait blocks.
FairSpec == Spec /\ WF_vars(Continue)

-----------------------------------------------------------------------------
(* Properties                                                              *)

TaskOps ==
    {"Probe", "RetirePeer", "Admit", "Published", "Retired", "Reply",
     "Forward", "CloseChannel", "Page", "Notices"}

\* The registry's arrays stay within their element types and capacities, the
\* bounds the fixed-size arrays of registryd impose (lib.rs RegistryState).
TypeOK ==
    /\ reg.generation \in Nat
    /\ \A n \in Names :
           /\ reg.services[n].lastGeneration \in Nat
           /\ \/ reg.services[n].active = Unpublished
              \/ /\ reg.services[n].active.endpoint \in Endpoints
                 /\ Len(reg.services[n].active.replay) <= PublicationReplay
    /\ Cardinality({n \in Names : reg.services[n].lastGeneration # 0}) <= MaxServices
    /\ ClientEndpoints(reg) \subseteq Endpoints
    /\ Cardinality(ClientEndpoints(reg)) <= MaxClients
    /\ \A e \in ClientEndpoints(reg) :
           /\ reg.clients[e].live \subseteq Transactions
           /\ Cardinality(reg.clients[e].live) <= MaxOutstanding
           /\ Len(reg.clients[e].replay) <= ClientReplay
    /\ reg.watches \subseteq Watches
    /\ Cardinality(reg.watches) <= MaxPendingWatches
    /\ Cardinality(reg.endpointIds) <= MaxEndpointIds
    /\ Cardinality(reg.publicationIds) <= MaxPublicationIds
    /\ Cardinality(reg.clientIds) <= MaxClientIds
    /\ \A k \in 1..Len(work) : work[k].op \in TaskOps
    /\ peer \in [Endpoints -> {"Open", "Closed"}]
    /\ held \subseteq Endpoints \cup {Incoming}
    /\ exited \in {"No", "ControlPeerClosed", "Transport", "State", "BadHandle"}

\* The enumerations in progress are the tickets of the abstract registry.
Calls == INSTANCE RegistryCalls WITH tickets <-
    {<<work[k].e, work[k].t>> : k \in {j \in 1..Len(work) : work[j].op = "Page"}}

\* The service only ever uses the registry as its methods allow: every step is
\* one call of RegistryCalls or none, so what is proved of the registry (no
\* missed change, live watches, distinct endpoints) holds in the daemon at every
\* kernel call (receive_control, dispatch, enumerate, retire_peer).
ImplementsCalls == Calls!Spec

\* Whenever the loop waits, every request received from an installed client
\* has been answered exactly once, except those of its pending watches, which
\* are exactly its live transactions: no answer is lost or repeated and no
\* transaction slot leaks, whichever sends failed (dispatch, send_notifications,
\* Client::reserve and complete).
AnsweredExactlyOnce ==
    Idle =>
        /\ \A e \in ClientEndpoints(reg) :
               LET pending == {w.transaction : w \in {v \in reg.watches : v.client = e}}
               IN  /\ reg.clients[e].live = pending
                   /\ \A t \in Transactions :
                          owes[e][t] = IF t \in pending THEN 1 ELSE 0
        /\ \A e \in PublicationEndpoints(reg) :
               owes[e] = NoDebt /\ PublicationAt(reg, e).live = 0

\* Every received handle is installed, moved on or closed exactly once: when
\* the loop waits it holds the installed endpoints and nothing else, at every
\* moment it holds each of them, and no handle is closed that was closed or
\* moved away before, whichever sends failed (receive_control, connect,
\* retire, retire_peer).
HandlesBalanced ==
    /\ Idle => held = Installed(reg)
    /\ Installed(reg) \subseteq held
    /\ exited # "BadHandle"

\* A notification on its way to a client states the generation the registry
\* would answer a lookup with at that moment: the change is committed before
\* anybody is told, and nothing overtakes the telling (send_notifications).
NoticesAreTrue ==
    \A k \in 1..Len(work) : work[k].op = "Notices" =>
        \A n \in work[k].told :
            n.generation = CurrentGeneration(reg, n.protocol, n.name)

\* The generations published under one name strictly increase, across
\* retirements, peer closes and reinstalls (install_publication's use of
\* last_generation).
PublicationsAdvance ==
    \A n \in Names : \A j, k \in 1..Len(history[n]) :
        j < k => history[n][j] < history[n][k]

\* The pages of one enumeration list the published services in name order,
\* each once, and the last page completes the list.  enumerate sends every page
\* in one step of the loop, so no change of the registry falls between two of
\* them (enumerate_begin's counts, send_page and nth_canonical).
ListingIsCanonical ==
    Current("Page") =>
        LET task == Head(work)
            all == SetToSortSeq(PublishedNames(reg), <)
            listed == task.listed \o Records(task.page)
        IN  /\ Len(all) = task.total
            /\ listed = SubSeq(all, 1, Len(listed))
            /\ task.page + 1 = PageCount(task.total) => listed = all

\* Every step of the loop ends, whichever sends and probes fail on the way:
\* removals and the notifications they cause do not chase each other forever
\* (retire_peer, send_notifications and remove call one another).
StepsEnd == (work # <<>>) ~> (work = <<>>)

\* "Semantic errors also complete into replay and do not stop the loop; failure
\* to send their ERROR removes the endpoint"
\* (Plans/WYR1_B_REGISTRY_LAUNCH_CONTRACT.md 7.5): what peers do never makes a
\* step fail on the registry's own state.
LoopSurvivesPeers == exited # "State"
=============================================================================
