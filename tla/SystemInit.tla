----------------------------- MODULE SystemInit -----------------------------
(***************************************************************************)
(* Permanent init driving its two early roles with real processes: the     *)
(* activation of registryd and devmgr at boot and the resident control     *)
(* tick (userspace/system-init/src/lib.rs, activate_retained_bootfs_state, *)
(* activate_role_until_ready, cleanup_loaded, ResidentSystemInit).         *)
(*                                                                         *)
(* Init is one thread; its children run beside it and the clock moves      *)
(* under it.  `pc' says where the thread is, each of its steps ends at a   *)
(* platform call, and any platform call may fail.  What a READY wait or a  *)
(* terminal drain can report of a child is what ChildObservation shows     *)
(* them to report.                                                         *)
(***************************************************************************)
EXTENDS SystemController, FiniteSets

CONSTANTS
    FirstTransaction,   \* 0x1001, the first launch transaction
    Exits,              \* the terminal dispositions children end with
    Failures,           \* the failures observations end with
    Elapses,            \* how long a platform call may take
    Horizon             \* bound: only waits take time after this instant

ASSUME DriverAssumption ==
    /\ FirstTransaction \in U64 \ {0}
    /\ Exits \subseteq TerminalDispositions
    /\ Failures \subseteq {"DuplicateReady", "WaitFailed", "ExitQueryFailed",
                           "ReadinessFailedAfterExit"}
    /\ Elapses \subseteq Nat /\ 0 \in Elapses
    /\ Horizon \in Nat

Handles == {"TaskGroup", "Process", "Channel"}

VARIABLES
    ctl,        \* the controller
    pc,         \* where the thread is
    booting,    \* it is in boot activation, not in a tick
    role,       \* the role it works on
    local,      \* the thread's local variables
    active,     \* ResidentSystemInit.active: the attempts handed over as READY
    result,     \* ResidentSystemInit.result
    live,       \* the processes that run, as <<role, generation>>
    held,       \* handles init holds for the current attempt of a role
    clock,      \* the monotonic clock
    tickNow,    \* the reading the current tick was given
    error       \* the InitError the thread ended with

thread == <<pc, booting, role, local, result, tickNow, error>>
vars == <<ctl, thread, active, live, held, clock>>

NoAttempt == [generation |-> 0, transaction |-> 0]

\* The attempt the thread works on, the reservation not yet installed, the
\* deadline of the current observation; then when the attempt was classified,
\* whether cleanup terminates the process and whether a replacement is wanted.
NoLocals ==
    [attempt |-> NoAttempt, token |-> NoToken, deadline |-> 0, at |-> 0,
     terminate |-> FALSE, replace |-> FALSE]

Init ==
    /\ ctl = NewController
    /\ pc = "Boot"
    /\ booting = TRUE
    /\ role = "registryd"
    /\ result = "Degraded"
    /\ error = "None"
    /\ local = NoLocals
    /\ tickNow = 0
    /\ active = [r \in Roles |-> NoAttempt]
    /\ live = {}
    /\ held = [r \in Roles |-> {}]
    /\ clock = 0

-----------------------------------------------------------------------------
(* Steps of the thread                                                     *)

Attempt == local.attempt
Child == <<role, Attempt.generation>>

MaxOf(a, b) == IF a > b THEN a ELSE b

\* The instants a call that waits until `instant' may return at.
Readings(instant) ==
    LET earliest == MaxOf(clock, instant)
    IN  {earliest} \cup {now \in {earliest + d : d \in Elapses} : now <= Horizon}

Goto(place, locals) ==
    /\ pc' = place
    /\ local' = locals
    /\ UNCHANGED <<booting, role, result, tickNow, error>>

\* The thread ends: boot activation or control_tick returns Err and main exits.
Stop(e) ==
    /\ pc' = "Exited"
    /\ error' = e
    /\ local' = NoLocals
    /\ UNCHANGED <<booting, role, result, tickNow>>

MutCarryOn(e) ==
    /\ pc' = "Cleanup"
    /\ error' = e
    /\ local' = [NoLocals EXCEPT !.attempt = Attempt]
    /\ UNCHANGED <<booting, role, result, tickNow>>

\* cleanup_after_transition_error runs next, on behalf of the error e.
AbortWith(e) ==
    /\ pc' = "Abort"
    /\ error' = e
    /\ local' = [NoLocals EXCEPT !.attempt = Attempt]
    /\ UNCHANGED <<booting, role, result, tickNow>>

\* `?' on a controller call.
Proceed(outcome, place, locals) ==
    /\ ctl' = outcome.ctl
    /\ IF outcome.ok THEN Goto(place, locals) ELSE Stop(outcome.error)

\* A controller call whose failure is cleaned up after.
ProceedOrAbort(outcome, place, locals) ==
    /\ ctl' = outcome.ctl
    /\ IF outcome.ok THEN Goto(place, locals) ELSE AbortWith(outcome.error)

\* The attempt is classified; cleanup comes next.
Ending(now, terminate, replace) ==
    [NoLocals EXCEPT !.attempt = Attempt, !.at = now, !.terminate = terminate,
                     !.replace = replace]

\* The role is done with: the next role of the boot sequence or of the tick.
Leave(handedOver, c) ==
    LET degraded == ~handedOver \/ (~booting /\ c.mode = "Degraded")
    IN  /\ IF role = "registryd" /\ (handedOver \/ ~booting)
           THEN /\ role' = "devmgr"
                /\ pc' = IF booting THEN "Launch" ELSE "Probe"
                /\ UNCHANGED booting
           ELSE /\ pc' = "Idle"
                /\ booting' = FALSE
                /\ role' = "registryd"
        /\ result' = IF degraded THEN "Degraded"
                     ELSE IF booting /\ role = "devmgr" THEN "Recovered"
                     ELSE result
        /\ local' = NoLocals
        /\ UNCHANGED <<tickNow, error>>

-----------------------------------------------------------------------------
(* Boot                                                                    *)

\* READY goes to the primordial process, which then retires its endpoint.
SupervisorReady ==
    /\ pc = "Boot"
    /\ Proceed(BecomeOperational(ctl), "Retire", NoLocals)
    /\ UNCHANGED <<active, live, held, clock>>

BeginEarlyRoles ==
    /\ pc = "Retire"
    /\ \E now \in Readings(clock) :
          /\ clock' = now
          /\ Proceed(BeginRegistry(ctl, now, 1, FirstTransaction), "Launch",
                     NoLocals)
    /\ UNCHANGED <<active, live, held>>

\* READY cannot be sent, the clock not read, or the wait for the retirement
\* fails or reports something else.
BootstrapRetirementFails ==
    /\ pc = "Retire"
    /\ \E e \in {"Native", "BootstrapRetirement"} : Stop(e)
    /\ UNCHANGED <<ctl, active, live, held, clock>>

-----------------------------------------------------------------------------
(* activate_role_until_ready                                               *)

\* One turn of the loop up to load_role.
Launch ==
    /\ pc = "Launch"
    /\ LET state == ctl.sup[role].state
           reserved == Reserve(ctl, role, state.generation, state.transaction)
       IN  IF state.tag # "Starting"
           THEN Stop("WrongActivationOrder") /\ UNCHANGED <<ctl, held>>
           ELSE /\ held' = [held EXCEPT ![role] = @ \cup {"TaskGroup"}]
                /\ Proceed(reserved, "Load",
                           [NoLocals EXCEPT
                              !.attempt = [generation |-> state.generation,
                                           transaction |-> state.transaction],
                              !.token = Reservation(ctl, state.generation,
                                                    state.transaction)])
    /\ UNCHANGED <<active, live, clock>>

TaskGroupFails ==
    /\ pc = "Launch"
    /\ ctl.sup[role].state.tag = "Starting"
    /\ Stop("Native")
    /\ UNCHANGED <<ctl, active, live, held, clock>>

\* load_role fails: the attempt is failed, the task group closed, and the
\* reservation released before the cleanup is reported complete.
LoadFails(rollbackFailed, closeFailed) ==
    /\ pc = "Load"
    /\ \E now \in Readings(clock) :
          LET r == role
              g == Attempt.generation
              x == Attempt.transaction
              failed == RoleFail(ctl, r, g, x, now, "CreationFailed")
              retained == RoleCleanupFailed(failed.ctl, r, g, x, now + 1)
              aborted == Release(failed.ctl, r, local.token)
              completed == RoleCleanupComplete(aborted.ctl, r, g, x, now + 1)
          IN  /\ clock' = now
              /\ IF ~failed.ok
                 THEN /\ ctl' = Fatal(Release(failed.ctl, r, local.token).ctl)
                      /\ Stop(IF closeFailed THEN "Cleanup" ELSE failed.error)
                 ELSE IF rollbackFailed \/ closeFailed
                 THEN IF retained.ok
                      THEN ctl' = Fatal(retained.ctl) /\ Stop("Loader")
                      ELSE ctl' = retained.ctl /\ Stop(retained.error)
                 ELSE Proceed(IF aborted.ok THEN completed ELSE aborted,
                              "Advance", [local EXCEPT !.token = NoToken])
    /\ held' = [held EXCEPT ![role] = IF closeFailed THEN @ ELSE {}]
    /\ UNCHANGED <<active, live>>

\* The clock cannot be read after a failed load.
LoadFailsWithoutClock(closeFailed) ==
    /\ pc = "Load"
    /\ ctl' = Fatal(Release(ctl, role, local.token).ctl)
    /\ Stop(IF closeFailed THEN "Cleanup" ELSE "Native")
    /\ held' = [held EXCEPT ![role] = IF closeFailed THEN @ ELSE {}]
    /\ UNCHANGED <<active, live, clock>>

\* load_role succeeds and the attempt is installed; the child already runs.
LoadSucceeds ==
    /\ pc = "Load"
    /\ LET installed == InstallAttempt(ctl, role, Attempt.generation,
                                       Attempt.transaction, local.token, "None")
       IN  IF installed.ok
           THEN /\ ctl' = installed.ctl
                /\ Goto("Start", [local EXCEPT !.token = NoToken])
                /\ live' = live \cup {Child}
                /\ held' = [held EXCEPT ![role] = Handles]
           ELSE /\ ctl' = Fatal(installed.ctl)
                /\ \E left \in SUBSET Handles, running \in SUBSET {Child} :
                      /\ held' = [held EXCEPT ![role] = left]
                      /\ live' = live \cup running
                      /\ Stop(IF left = {} /\ running = {} THEN installed.error
                              ELSE "Cleanup")
    /\ UNCHANGED <<active, clock>>

StartAttempt ==
    /\ pc = "Start"
    /\ \E now \in Readings(clock) :
          LET started == RoleStarted(ctl, role, Attempt.generation,
                                     Attempt.transaction, now)
          IN  /\ clock' = now
              /\ ProceedOrAbort(started, "Await",
                                [local EXCEPT !.deadline = now + ReadyTimeoutNs])
    /\ UNCHANGED <<active, live, held>>

\* The clock cannot be read after the load, the READY wait or its failure.
ClockFails ==
    /\ pc \in {"Start", "Await"}
    /\ AbortWith("Native")
    /\ UNCHANGED <<ctl, active, live, held, clock>>

\* An exact READY was received, at the latest at the wait's own deadline.
AwaitReturnsReady ==
    /\ pc = "Await"
    /\ \E now \in Readings(clock) \cup Readings(local.deadline) :
          LET accepted == RoleReady(ctl, role, Attempt.generation,
                                    Attempt.transaction, now)
          IN  /\ clock' = now
              /\ ctl' = accepted.ctl
              /\ IF accepted.ok
                 THEN /\ active' = [active EXCEPT ![role] = Attempt]
                      /\ Leave(TRUE, accepted.ctl)
                 ELSE AbortWith(accepted.error) /\ UNCHANGED active
    /\ UNCHANGED <<live, held>>

\* The failures that are only reported of a process that has exited; a READY
\* wait never drains, so it never reports the second.
ExitedFailures == {"ExitQueryFailed", "ReadinessFailedAfterExit"}

\* The wait reported an exit: the terminal record decides.
AwaitReturnsExit(exit) ==
    /\ pc = "Await"
    /\ Child \notin live
    /\ \E now \in Readings(clock) \cup Readings(local.deadline) :
          LET ended == RoleTerminal(ctl, role, Attempt.generation,
                                    Attempt.transaction, now, exit)
          IN  /\ clock' = now
              /\ ProceedOrAbort(ended, "Cleanup", Ending(now, FALSE, TRUE))
    /\ UNCHANGED <<active, live, held>>

\* The wait failed, or the datagram was not an exact READY: a READY that does
\* not parse is classified DuplicateReady here as well.
AwaitFails(kind) ==
    /\ pc = "Await"
    /\ kind # "ReadinessFailedAfterExit"
    /\ kind \in ExitedFailures => Child \notin live
    /\ \E now \in Readings(clock) \cup Readings(local.deadline) :
          LET failed == RoleReadyWaitFailed(ctl, role, Attempt.generation,
                                            Attempt.transaction, now, kind)
          IN  /\ clock' = now
              /\ ProceedOrAbort(failed, "Cleanup",
                                Ending(now, kind \notin ExitedFailures, TRUE))
    /\ UNCHANGED <<active, live, held>>

-----------------------------------------------------------------------------
(* Cleanup, backoff and replacement                                        *)

MutTaskGroupLeft ==
    /\ pc = "Cleanup"
    /\ local.terminate \/ Child \notin live
    /\ LET completed == RoleCleanupComplete(ctl, role, Attempt.generation,
                                            Attempt.transaction, local.at + 1)
       IN  Proceed(completed, "Advance", local)
    /\ clock' \in Readings(clock)
    /\ live' = live \ {Child}
    /\ held' = [held EXCEPT ![role] = {"TaskGroup"}]
    /\ active' = [active EXCEPT ![role] = NoAttempt]

\* cleanup_loaded returned Ok: the process is terminal, whether it had exited
\* or the task group was terminated, and the three handles are closed.
CleanupSucceeds ==
    /\ pc = "Cleanup"
    /\ local.terminate \/ Child \notin live
    /\ LET completed == RoleCleanupComplete(ctl, role, Attempt.generation,
                                            Attempt.transaction, local.at + 1)
           retired == RetireAttemptAfterFatal(completed.ctl, role)
       IN  IF ~completed.ok
           THEN /\ ctl' = retired.ctl
                /\ Stop(IF retired.ok THEN completed.error ELSE retired.error)
                /\ UNCHANGED active
           ELSE /\ ctl' = completed.ctl
                /\ active' = [active EXCEPT ![role] = NoAttempt]
                /\ IF local.replace THEN Goto("Advance", local)
                   ELSE Leave(TRUE, completed.ctl)
    /\ clock' \in Readings(clock)
    /\ live' = live \ {Child}
    /\ held' = [held EXCEPT ![role] = {}]

MutCleanupFailureIgnored ==
    /\ pc = "Cleanup"
    /\ Proceed(RoleCleanupComplete(ctl, role, Attempt.generation,
                                   Attempt.transaction, local.at + 1),
               "Advance", local)
    /\ UNCHANGED <<active, live, held, clock>>

\* What a failed cleanup_loaded leaves: it closes each handle whether or not
\* the ones before it closed, so any of them may be left.
LeftBehind ==
    /\ live' \in {live, live \ {Child}}
    /\ held' \in {[held EXCEPT ![role] = left] : left \in SUBSET held[role]}

\* cleanup_loaded returned Err: the process did not end in time, or a handle
\* could not be closed.
CleanupFails ==
    /\ pc = "Cleanup"
    /\ ctl' = Fatal(RoleCleanupFailed(ctl, role, Attempt.generation,
                                      Attempt.transaction, local.at + 1).ctl)
    /\ Stop("Cleanup")
    /\ LeftBehind
    /\ UNCHANGED <<active, clock>>

\* cleanup_after_transition_error.
AbortSucceeds ==
    /\ pc = "Abort"
    /\ LET retired == RetireAttemptAfterFatal(ctl, role)
       IN  /\ ctl' = Fatal(retired.ctl)
           /\ Stop(IF retired.ok THEN error ELSE retired.error)
    /\ live' = live \ {Child}
    /\ held' = [held EXCEPT ![role] = {}]
    /\ UNCHANGED <<active, clock>>

AbortFails ==
    /\ pc = "Abort"
    /\ ctl' = Fatal(ctl)
    /\ Stop("Cleanup")
    /\ LeftBehind
    /\ UNCHANGED <<active, clock>>

MutDegradationDropped ==
    /\ pc = "Advance"
    /\ ctl.sup[role].state.tag = "PermanentFailure"
    /\ Leave(TRUE, ctl)
    /\ UNCHANGED <<ctl, active, live, held, clock>>

MutBackoffSpins ==
    /\ pc = "Advance"
    /\ LET state == ctl.sup[role].state
       IN  \/ /\ state.tag = "PermanentFailure"
              /\ Leave(FALSE, ctl)
              /\ UNCHANGED <<ctl, clock>>
           \/ /\ state.tag = "Backoff"
              /\ \E now \in Readings(state.deadline) :
                    /\ clock' = now
                    /\ IF now <= state.deadline
                       THEN Goto("Advance", local) /\ UNCHANGED ctl
                       ELSE Proceed(RoleStartReplacement(
                                       ctl, role, now, state.nextGeneration,
                                       Attempt.transaction + 1),
                                    "Launch", NoLocals)
    /\ UNCHANGED <<active, live, held>>

\* advance_or_degrade.  Once the mode is Degraded no replacement is launched.
Advance ==
    /\ pc = "Advance"
    /\ LET state == ctl.sup[role].state
       IN  IF state.tag = "PermanentFailure"
           THEN Leave(FALSE, ctl) /\ UNCHANGED <<ctl, clock>>
           ELSE IF state.tag # "Backoff"
           THEN Stop("WrongActivationOrder") /\ UNCHANGED <<ctl, clock>>
           ELSE \E now \in Readings(state.deadline) :
                    LET started == IF Fits(Attempt.transaction + 1)
                                   THEN RoleStartReplacement(
                                           ctl, role, now, state.nextGeneration,
                                           Attempt.transaction + 1)
                                   ELSE Failed(ctl, "Restart")
                    IN  /\ clock' = now
                        /\ ctl' = started.ctl
                        /\ IF ~started.ok THEN Stop(started.error)
                           ELSE IF started.ctl.mode = "Degraded"
                           THEN Leave(FALSE, started.ctl)
                           ELSE Goto("Launch", NoLocals)
    /\ UNCHANGED <<active, live, held>>

\* The backoff timer cannot be armed or waited on, or the wait ends early.
BackoffFails ==
    /\ pc = "Advance"
    /\ ctl.sup[role].state.tag = "Backoff"
    /\ \E e \in {"Native", "WrongActivationOrder"} :
          /\ e = "WrongActivationOrder" => clock < ctl.sup[role].state.deadline
          /\ Stop(e)
    /\ UNCHANGED <<ctl, active, live, held, clock>>

-----------------------------------------------------------------------------
(* ResidentSystemInit::control_tick                                        *)

\* The caller reads the clock once for the whole tick.
Tick ==
    /\ pc = "Idle"
    /\ \E now \in Readings(clock) :
          /\ clock' = now
          /\ tickNow' = now
    /\ pc' = "Probe"
    /\ role' = "registryd"
    /\ UNCHANGED <<ctl, booting, local, result, error, active, live, held>>

Occupied == active[role] # NoAttempt

Running == <<role, active[role].generation>> \in live

MutProbeReadableOnly ==
    /\ pc = "Probe"
    /\ Leave(TRUE, ctl)
    /\ UNCHANGED <<ctl, active, live, held, clock>>

\* Nothing to watch, or a zero-time probe that finds nothing pending.
ProbeQuiet ==
    /\ pc = "Probe"
    /\ Occupied => Running
    /\ Leave(TRUE, ctl)
    /\ UNCHANGED <<ctl, active, live, held, clock>>

\* A datagram, a closed channel or an exit is pending.
ProbeSignalled ==
    /\ pc = "Probe"
    /\ Occupied
    /\ Goto("Observe", [NoLocals EXCEPT !.attempt = active[role],
                                        !.deadline = tickNow + CleanupTimeoutNs])
    /\ UNCHANGED <<ctl, active, live, held, clock>>

\* The terminal drain reports an exit, which is recorded at the tick's reading.
ObserveExit(exit) ==
    /\ pc = "Observe"
    /\ ~Running
    /\ clock' \in Readings(clock) \cup Readings(local.deadline)
    /\ LET ended == RoleTerminal(ctl, role, Attempt.generation,
                                 Attempt.transaction, tickNow, exit)
       IN  ProceedOrAbort(ended, "Cleanup",
                          Ending(tickNow, FALSE, exit # "ExitZero"))
    /\ UNCHANGED <<active, live, held>>

\* The drain fails; so does the probe, with the reading WaitFailed.
ObserveFails(kind) ==
    /\ pc = "Observe"
    /\ kind \in ExitedFailures => ~Running
    /\ clock' \in Readings(clock) \cup Readings(local.deadline)
    /\ LET failed == RoleFail(ctl, role, Attempt.generation,
                              Attempt.transaction, tickNow, kind)
       IN  ProceedOrAbort(failed, "Cleanup",
                          Ending(tickNow, kind \notin ExitedFailures, TRUE))
    /\ UNCHANGED <<active, live, held>>

-----------------------------------------------------------------------------

ChildExits(child) ==
    /\ live' = live \ {child}
    /\ UNCHANGED <<ctl, thread, active, held, clock>>

InitStep ==
    \/ SupervisorReady \/ BeginEarlyRoles
    \/ Launch
    \/ \E rollback, close \in BOOLEAN : LoadFails(rollback, close)
    \/ LoadSucceeds
    \/ StartAttempt
    \/ AwaitReturnsReady
    \/ \E exit \in Exits : AwaitReturnsExit(exit)
    \/ \E kind \in Failures : AwaitFails(kind)
    \/ CleanupSucceeds \/ AbortSucceeds
    \/ Advance
    \/ Tick \/ ProbeQuiet \/ ProbeSignalled
    \/ \E exit \in Exits : ObserveExit(exit)
    \/ \E kind \in Failures : ObserveFails(kind)

PlatformFault ==
    \/ BootstrapRetirementFails
    \/ TaskGroupFails
    \/ \E close \in BOOLEAN : LoadFailsWithoutClock(close)
    \/ ClockFails
    \/ CleanupFails
    \/ AbortFails
    \/ BackoffFails

Next ==
    \/ InitStep
    \/ PlatformFault
    \/ \E child \in live : ChildExits(child)

\* Init is a thread the kernel schedules and every wait it makes is bounded, so
\* it keeps taking steps; nothing makes a platform call fail or a child exit.
Spec == Init /\ [][Next]_vars /\ WF_vars(InitStep)

-----------------------------------------------------------------------------
(* Properties                                                              *)

Errors ==
    {"Native", "Restart", "Cleanup", "Accounting", "Loader",
     "BootstrapRetirement", "WrongActivationOrder", "MissingAttemptResources",
     "ResourcesAlreadyInstalled"} \cup ResourceFaults

\* Type invariant; the thread ends exactly when it has an error to return,
\* except while cleanup runs on behalf of one.
TypeOK ==
    /\ ctl \in Controllers
    /\ pc \in {"Boot", "Retire", "Launch", "Load", "Start", "Await", "Cleanup",
               "Abort", "Advance", "Idle", "Probe", "Observe", "Exited"}
    /\ booting \in BOOLEAN
    /\ role \in Roles
    /\ result \in {"Recovered", "Degraded"}
    /\ error \in Errors
    /\ (error # "None") = (pc \in {"Abort", "Exited"})
    /\ local.token \in Tokens
    /\ live \subseteq Roles \X U64
    /\ held \in [Roles -> SUBSET Handles]
    /\ {clock, tickNow, local.deadline, local.at} \subseteq Nat

Processes(r) == {child \in live : child[1] = r}

\* While init runs, a ledger slot is outstanding exactly when its reservation
\* is in hand or installed, and the installed token is the one the slot
\* accepts; no path loses a reservation or releases it twice.  Also when init
\* has ended, after a cleanup that failed half way, a role of which a process
\* runs or whose process or channel is still held is reserved: no path releases
\* what it has not given back.  (A task group is no such proof: when a load
\* fails and the clock or the supervisor does too, activate_role_until_ready
\* releases the reservation whether or not the empty group could be closed.)
AccountingExact ==
    /\ pc # "Exited" =>
        \A r \in Roles :
            /\ ctl.slots[r].outstanding
                 <=> HasResources(ctl, r) \/ (r = role /\ local.token # NoToken)
            /\ HasResources(ctl, r) =>
                 /\ Validated(ctl.slots[r], ctl.resources[r])
                 /\ ctl.slots[r].published = ctl.resources[r].published
    /\ \A r \in Roles :
          Processes(r) # {} \/ held[r] \cap {"Process", "Channel"} # {} =>
              ctl.slots[r].outstanding

\* A role never has two processes, whatever order exits, failed cleanups and
\* replacements come in.
OneProcessPerRole ==
    \A r \in Roles : Cardinality(Processes(r)) <= 1

\* Backoff, Stopped and PermanentFailure mean the previous attempt is gone: no
\* process runs, no handle is held and nothing is reserved.
CleanBeforeReplacement ==
    pc # "Exited" =>
        \A r \in Roles :
            ctl.sup[r].state.tag \in {"Backoff", "Stopped", "PermanentFailure"} =>
                /\ Processes(r) = {}
                /\ held[r] = {}
                /\ ~ctl.slots[r].outstanding

\* Between ticks the mode is Normal or Degraded, the recorded result agrees
\* with it, and Normal means that every role is READY with init watching it,
\* or ended with a successful exit.
SettledModeIsHonest ==
    pc = "Idle" =>
        /\ ctl.mode \in {"Normal", "Degraded"}
        /\ (result = "Degraded") = (ctl.mode = "Degraded")
        /\ ctl.mode = "Normal" =>
             \A r \in Roles :
                \/ /\ ctl.sup[r].state.tag = "Ready"
                   /\ active[r] = [generation |-> ctl.sup[r].state.generation,
                                   transaction |-> ctl.sup[r].state.transaction]
                \/ ctl.sup[r].state.tag = "Stopped" /\ active[r] = NoAttempt

\* Degraded is entered once and left for Fatal only.
DegradedOnce ==
    [][/\ ctl'.degradedTransitions <= 1
       /\ ctl.mode = "Degraded" => ctl'.mode \in {"Degraded", "Fatal"}]_vars

\* Boot activation and every tick end, however the children behave.
TicksEnd == (pc # "Idle") ~> (pc \in {"Idle", "Exited"})

\* An exit of a child that init has taken over does not go unnoticed.
ExitsAreHandled ==
    \A r \in Roles :
        (active[r] # NoAttempt /\ <<r, active[r].generation>> \notin live)
            ~> (active[r] = NoAttempt \/ pc = "Exited"
                \/ <<r, active[r].generation>> \in live)

\* The mode is Fatal only when init lost its substrate (a platform call, a
\* cleanup or the accounting failed), not because a child's READY was late,
\* malformed or sent at the wrong moment.
FatalMeansSubstrateLost == ctl.mode = "Fatal" => error # "Restart"
=============================================================================
