-------------------------- MODULE SystemController --------------------------
(***************************************************************************)
(* The controller permanent init keeps for its two early roles: a restart  *)
(* supervisor per role, the attempt accounting ledger and the global mode  *)
(* (userspace/system-init/src/lib.rs, AttemptLedger and SystemInit).       *)
(*                                                                         *)
(* Like RestartPolicy, each method is an operator from a controller value  *)
(* and the arguments of the call to an outcome: whether the call returned  *)
(* Ok, the error it returned, and the controller after the call.  The      *)
(* evidence log of the gate builds is left out.                            *)
(***************************************************************************)
EXTENDS RestartPolicy

Roles == {"registryd", "devmgr"}

Modes ==
    {"Bootstrap", "SupervisorOperational", "ActivatingEarlyRoles", "Normal",
     "Degraded", "Fatal"}

\* An AttemptReservation; NoToken is the absence of one.
Tokens ==
    [generation : U64, transaction : U64, nonce : U64, published : BOOLEAN]

NoToken ==
    [generation |-> 0, transaction |-> 0, nonce |-> 0, published |-> FALSE]

\* A ReservationSlot of the ledger.
Slots ==
    [lastGeneration : U64, transaction : U64, nonce : U64,
     outstanding : BOOLEAN, published : BOOLEAN]

EmptySlot ==
    [lastGeneration |-> 0, transaction |-> 0, nonce |-> 0,
     outstanding |-> FALSE, published |-> FALSE]

Controllers ==
    [mode : Modes, sup : [Roles -> Supervisors], activated : [Roles -> BOOLEAN],
     degradedTransitions : Nat, slots : [Roles -> Slots], nextNonce : U64,
     resources : [Roles -> Tokens]]

NewController ==
    [mode |-> "Bootstrap",
     sup |-> [r \in Roles |-> NewSupervisor],
     activated |-> [r \in Roles |-> FALSE],
     degradedTransitions |-> 0,
     slots |-> [r \in Roles |-> EmptySlot],
     nextNonce |-> 1,
     resources |-> [r \in Roles |-> NoToken]]

Done(c) == [ok |-> TRUE, error |-> "None", ctl |-> c]
Failed(c, e) == [ok |-> FALSE, error |-> e, ctl |-> c]

\* The supervisor's answer to a call, stored back into the controller.
Supervised(c, r, outcome) ==
    LET next == [c EXCEPT !.sup[r] = outcome.sup]
    IN  IF outcome.ok THEN Done(next) ELSE Failed(next, "Restart")

HasResources(c, r) == c.resources[r] # NoToken

-----------------------------------------------------------------------------
(* AttemptLedger                                                           *)

Reservation(c, g, x) ==
    [generation |-> g, transaction |-> x, nonce |-> c.nextNonce,
     published |-> FALSE]

Reserve(c, r, g, x) ==
    IF \/ g = 0 \/ x = 0 \/ c.slots[r].outstanding
       \/ g <= c.slots[r].lastGeneration
       \/ c.nextNonce \in {0, U64Max}
    THEN Failed(c, "Accounting")
    ELSE Done([c EXCEPT !.nextNonce = @ + 1,
                        !.slots[r] = [lastGeneration |-> g, transaction |-> x,
                                      nonce |-> c.nextNonce,
                                      outstanding |-> TRUE,
                                      published |-> FALSE]])

\* validate_reservation.
Validated(slot, token) ==
    /\ slot.outstanding
    /\ slot.lastGeneration = token.generation
    /\ slot.transaction = token.transaction
    /\ slot.nonce = token.nonce

\* release keeps the last generation, so that the slot never goes back to it.
Release(c, r, token) ==
    IF Validated(c.slots[r], token)
    THEN Done([c EXCEPT !.slots[r] =
                 [@ EXCEPT !.outstanding = FALSE, !.published = FALSE,
                           !.transaction = 0, !.nonce = 0]])
    ELSE Failed(c, "Accounting")

\* The installed token is taken and released.
ReleaseInstalled(c, r) ==
    IF HasResources(c, r)
    THEN Release([c EXCEPT !.resources[r] = NoToken], r, c.resources[r])
    ELSE Done(c)

Publish(c, r) ==
    LET token == c.resources[r]
    IN  IF /\ Validated(c.slots[r], token)
           /\ ~token.published
           /\ ~c.slots[r].published
        THEN Done([c EXCEPT !.resources[r].published = TRUE,
                            !.slots[r].published = TRUE])
        ELSE Failed(c, "Accounting")

-----------------------------------------------------------------------------
(* SystemInit                                                              *)

MutDegradeEveryTime(c, r) ==
    IF c.sup[r].state.tag = "PermanentFailure"
    THEN [c EXCEPT !.mode = "Degraded", !.degradedTransitions = @ + 1]
    ELSE c

UpdatePermanentFailure(c, r) ==
    IF c.sup[r].state.tag = "PermanentFailure" /\ c.mode # "Degraded"
    THEN [c EXCEPT !.mode = "Degraded", !.degradedTransitions = @ + 1]
    ELSE c

Fatal(c) == [c EXCEPT !.mode = "Fatal"]

BecomeOperational(c) ==
    IF c.mode = "Bootstrap"
    THEN Done([c EXCEPT !.mode = "SupervisorOperational"])
    ELSE Failed(c, "WrongActivationOrder")

BeginRegistry(c, now, g, x) ==
    LET begun == Supervised(c, "registryd",
                            Begin(c.sup["registryd"], now, g, x))
    IN  IF c.mode # "SupervisorOperational"
        THEN Failed(c, "WrongActivationOrder")
        ELSE IF begun.ok
        THEN Done([begun.ctl EXCEPT !.mode = "ActivatingEarlyRoles"])
        ELSE begun

\* What is wrong with the resources themselves: a zero handle, or the startup
\* profile or the executable of another role.
ResourceFaults == {"None", "InvalidResourceHandle", "ResourceIdentityMismatch"}

\* The resources carry the identity (g, x) and the reservation `token', which
\* names the role it was made for.  A refusal releases the reservation.
InstallAttempt(c, r, g, x, token, fault) ==
    LET state == c.sup[r].state
        refusal ==
            IF fault # "None" THEN fault
            ELSE IF state.tag # "Starting" THEN "WrongActivationOrder"
            ELSE IF <<state.generation, state.transaction>> # <<g, x>>
                 THEN "ResourceIdentityMismatch"
            ELSE IF HasResources(c, r) THEN "ResourcesAlreadyInstalled"
            ELSE IF <<token.generation, token.transaction>> # <<g, x>>
                 THEN "Accounting"
            ELSE "None"
        released == Release(c, r, token)
    IN  IF refusal = "None"
        THEN Done([c EXCEPT !.resources[r] = token])
        ELSE IF released.ok THEN Failed(released.ctl, refusal) ELSE released

RoleStarted(c, r, g, x, now) ==
    LET started == Supervised(c, r, ChildStarted(c.sup[r], g, x, now))
    IN  IF ~HasResources(c, r)
        THEN Failed(c, "MissingAttemptResources")
        ELSE IF started.ok THEN Publish(started.ctl, r) ELSE started

\* registryd READY begins devmgr under its own generation and the next
\* transaction, unless devmgr has already failed for good.
RegistryReady(c, g, x, now) ==
    LET devmgr == c.sup["devmgr"]
    IN  IF c.mode \notin {"ActivatingEarlyRoles", "Degraded"}
        THEN Failed(c, "WrongActivationOrder")
        ELSE IF devmgr.state.tag = "Stopped" /\ x = U64Max
        THEN Failed(c, "Restart")
        ELSE IF devmgr.state.tag = "Stopped"
        THEN Supervised(c, "devmgr", Begin(devmgr, now, g, x + 1))
        ELSE IF devmgr.state.tag = "PermanentFailure" /\ c.mode = "Degraded"
        THEN Done(c)
        ELSE Failed(c, "WrongActivationOrder")

RoleReady(c, r, g, x, now) ==
    LET received == Supervised(c, r, ReceiveReady(c.sup[r], g, x, now))
        active == [received.ctl EXCEPT !.activated[r] = TRUE]
    IN  IF ~received.ok THEN received
        ELSE IF r = "registryd" /\ ~active.activated["devmgr"]
        THEN RegistryReady(active, g, x, now)
        ELSE IF r = "registryd" \/ active.activated["registryd"]
        THEN Done([active EXCEPT !.mode = "Normal"])
        ELSE Done(active)

RoleFail(c, r, g, x, now, kind) ==
    Supervised(c, r, FailAttempt(c.sup[r], g, x, now, kind))

\* A READY wait that failed after the deadline is a READY timeout.
RoleReadyWaitFailed(c, r, g, x, now, kind) ==
    LET s == c.sup[r]
    IN  IF s.state.tag = "AwaitingReady" /\ now >= s.state.deadline
        THEN Supervised(c, r, DeadlineElapsed(s, g, x, s.state.deadline, now))
        ELSE RoleFail(c, r, g, x, now, kind)

RoleTerminal(c, r, g, x, now, exit) ==
    LET ended == Supervised(c, r, Terminal(c.sup[r], g, x, now, exit))
    IN  IF ended.ok /\ c.mode = "Normal" /\ exit # "ExitZero"
        THEN Done([ended.ctl EXCEPT !.mode = "ActivatingEarlyRoles"])
        ELSE ended

MutReservationKept(c, r, g, x, now) ==
    LET cleaned == Supervised(c, r, CleanupFinished(c.sup[r], g, x, now,
                                                    "Complete"))
    IN  IF cleaned.ok
        THEN Done(UpdatePermanentFailure([cleaned.ctl EXCEPT
                                            !.resources[r] = NoToken], r))
        ELSE cleaned

RoleCleanupComplete(c, r, g, x, now) ==
    LET s == c.sup[r]
        unpublished == /\ s.state.tag = "CleaningUp"
                       /\ s.state.action = "CloseUnpublished"
        cleaned == Supervised(c, r, CleanupFinished(s, g, x, now, "Complete"))
        released == ReleaseInstalled(cleaned.ctl, r)
    IN  IF ~HasResources(c, r) /\ ~unpublished
        THEN Failed(c, "MissingAttemptResources")
        ELSE IF ~cleaned.ok THEN cleaned
        ELSE IF ~released.ok THEN released
        ELSE Done(UpdatePermanentFailure(released.ctl, r))

RoleCleanupFailed(c, r, g, x, now) ==
    LET cleaned == Supervised(c, r, CleanupFinished(c.sup[r], g, x, now,
                                                    "Failed"))
    IN  IF cleaned.ok THEN Done(UpdatePermanentFailure(cleaned.ctl, r))
        ELSE cleaned

RoleStartReplacement(c, r, now, g, x) ==
    LET started == Supervised(c, r, StartReplacement(c.sup[r], now, g, x))
    IN  IF c.sup[r].history = <<>> THEN Failed(c, "Accounting")
        ELSE IF started.ok THEN Done(UpdatePermanentFailure(started.ctl, r))
        ELSE started

RetireAttemptAfterFatal(c, r) ==
    LET released == ReleaseInstalled(c, r)
    IN  IF released.ok THEN Done(Fatal(released.ctl)) ELSE released
=============================================================================
