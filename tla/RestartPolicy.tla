--------------------------- MODULE RestartPolicy ---------------------------
(***************************************************************************)
(* The finite, generation-safe restart policy engine of wyrmroot-runtime   *)
(* (crates/wyrmroot-runtime/src/supervision/restart.rs).                   *)
(*                                                                         *)
(* One supervisor value holds everything RestartSupervisor owns.  Each     *)
(* method of the code is an operator that maps a supervisor and the        *)
(* arguments of the call to an outcome: the supervisor after the call and  *)
(* whether the call returned Ok.  A call that returns Err may still have   *)
(* observed the clock or classified the attempt, so `sup' is meaningful in *)
(* both cases.  RestartSupervisor closes the operators into a state        *)
(* machine with an arbitrary caller; SystemInit drives two supervisors the *)
(* way permanent init does.                                                *)
(*                                                                         *)
(* Identities and clock readings are u64 values: U64Max stands for         *)
(* u64::MAX and every addition the code checks is checked here.            *)
(***************************************************************************)
EXTENDS Integers, Sequences

CONSTANTS
    MaxAttempts,        \* SupervisionPolicy.max_attempts
    BackoffNs,          \* SupervisionPolicy.backoff_ns
    RestartWindowNs,    \* SupervisionPolicy.restart_window_ns
    ReadyTimeoutNs,     \* SupervisionPolicy.ready_timeout_ns
    CleanupTimeoutNs,   \* SupervisionPolicy.cleanup_timeout_ns
    HistoryCapacity,    \* RESTART_HISTORY_CAPACITY
    U64Max              \* u64::MAX

U64 == 0 .. U64Max

TerminalDispositions ==
    {"ExitZero", "ExitNonzero", "AuthorizedTermination", "TaskGroupTeardown",
     "UnhandledException"}

PlainFailures ==
    {"CreationFailed", "StartFailed", "MalformedReady", "DuplicateReady",
     "ReadinessFailedAfterExit", "WrongTransactionReady",
     "PeerClosedBeforeReady", "WaitFailed", "ExitQueryFailed",
     "ReadyTimeout", "Cancelled"}

\* The policy RestartSupervisor::new accepts.
ASSUME PolicyAssumption ==
    /\ HistoryCapacity \in Nat
    /\ MaxAttempts \in 1 .. HistoryCapacity
    /\ BackoffNs \in Nat \ {0}
    /\ RestartWindowNs \in Nat \ {0}
    /\ ReadyTimeoutNs \in Nat \ {0}
    /\ CleanupTimeoutNs \in Nat \ {0}
    /\ U64Max \in Nat

-----------------------------------------------------------------------------
(* Values                                                                  *)

Failure(kind) == [kind |-> kind, exit |-> "None"]
ExitFailure(kind, exit) == [kind |-> kind, exit |-> exit]

AttemptFailures ==
    [kind : PlainFailures, exit : {"None"}]
        \cup [kind : {"ExitBeforeReady", "ExitAfterReady"},
              exit : TerminalDispositions]

CleanupActions == {"CloseUnpublished", "TerminateTaskGroup", "CloseTerminal"}

CleanupDispositions == {"Complete", "Failed"}

Stopped == [tag |-> "Stopped"]

Starting(attempt, generation, transaction, deadline) ==
    [tag |-> "Starting", attempt |-> attempt, generation |-> generation,
     transaction |-> transaction, deadline |-> deadline]

AwaitingReady(attempt, generation, transaction, deadline) ==
    [tag |-> "AwaitingReady", attempt |-> attempt, generation |-> generation,
     transaction |-> transaction, deadline |-> deadline]

Ready(attempt, generation, transaction) ==
    [tag |-> "Ready", attempt |-> attempt, generation |-> generation,
     transaction |-> transaction]

Backoff(nextAttempt, nextGeneration, deadline) ==
    [tag |-> "Backoff", nextAttempt |-> nextAttempt,
     nextGeneration |-> nextGeneration, deadline |-> deadline]

PermanentFailure(finalFailure, cleanup) ==
    [tag |-> "PermanentFailure", finalFailure |-> finalFailure,
     cleanup |-> cleanup]

RestartStates ==
    [tag : {"Stopped"}]
        \cup [tag : {"Starting", "AwaitingReady"}, attempt : 1 .. MaxAttempts,
              generation : U64, transaction : U64, deadline : U64]
        \cup [tag : {"Ready"}, attempt : 1 .. MaxAttempts,
              generation : U64, transaction : U64]
        \cup [tag : {"CleaningUp"}, attempt : 1 .. MaxAttempts,
              generation : U64, transaction : U64, failure : AttemptFailures,
              action : CleanupActions, classifiedAt : U64, deadline : U64,
              retry : BOOLEAN]
        \cup [tag : {"Backoff"}, nextAttempt : 2 .. MaxAttempts,
              nextGeneration : U64, deadline : U64]
        \cup [tag : {"PermanentFailure"}, finalFailure : AttemptFailures,
              cleanup : CleanupDispositions]

AttemptRecords ==
    [attempt : 1 .. MaxAttempts, generation : U64, transaction : U64,
     startedAt : U64, terminalAt : U64, failure : AttemptFailures,
     cleanup : CleanupDispositions]

Supervisors ==
    [state : RestartStates, history : Seq(AttemptRecords),
     episodeStartedAt : U64, attemptStartedAt : U64, lastObserved : U64,
     lastGeneration : U64]

\* RestartSupervisor::new under an accepted policy.
NewSupervisor ==
    [state |-> Stopped, history |-> <<>>, episodeStartedAt |-> 0,
     attemptStartedAt |-> 0, lastObserved |-> 0, lastGeneration |-> 0]

-----------------------------------------------------------------------------
(* Outcomes and the private helpers                                        *)

Accepted(s) == [ok |-> TRUE, sup |-> s]
Rejected(s) == [ok |-> FALSE, sup |-> s]

MutUnchecked(instant) == TRUE

\* checked_deadline returns Ok.
Fits(instant) == instant <= U64Max

MutAnyClock(s, now) == TRUE

\* observe_time, split into its test and its effect.
Observable(s, now) == now >= s.lastObserved
Observe(s, now) == [s EXCEPT !.lastObserved = now]

Active(s) == s.state.tag \in {"Starting", "AwaitingReady", "Ready"}

MutGenerationOnly(s, g, x) == g # 0 /\ x # 0 /\ g = s.state.generation

\* validate_event_identity against the identity the state carries.
Current(s, g, x) ==
    /\ g # 0
    /\ x # 0
    /\ g = s.state.generation
    /\ x = s.state.transaction

EnterCleanup(s, now, failure, action, retry) ==
    IF Fits(now + CleanupTimeoutNs)
    THEN Accepted(
            [s EXCEPT !.state =
                [tag |-> "CleaningUp", attempt |-> s.state.attempt,
                 generation |-> s.state.generation,
                 transaction |-> s.state.transaction, failure |-> failure,
                 action |-> action, classifiedAt |-> now,
                 deadline |-> now + CleanupTimeoutNs, retry |-> retry]])
    ELSE Rejected(s)

\* The input is classified as a failure: cleanup is entered and Err returned.
AttemptFailed(s, now, failure) ==
    Rejected(EnterCleanup(s, now, Failure(failure), "TerminateTaskGroup",
                          TRUE).sup)

CleanupRecord(s, failure, terminalAt, cleanup) ==
    [attempt |-> s.state.attempt, generation |-> s.state.generation,
     transaction |-> s.state.transaction, startedAt |-> s.attemptStartedAt,
     terminalAt |-> terminalAt, failure |-> failure, cleanup |-> cleanup]

\* A completion reported at or after the cleanup deadline counts as a failure.
CleanupVerdict(s, now, requested) ==
    IF requested = "Complete" /\ now >= s.state.deadline
    THEN "Failed" ELSE requested

\* No attempt, or no generation number, is left for a replacement.
BudgetSpent(s) ==
    s.state.attempt + 1 > MaxAttempts \/ s.state.generation = U64Max

\* The record is pushed first; the checked additions that follow it may still
\* return Err with the state left in CleaningUp.
FinishCleanup(s, now, requested) ==
    LET st == s.state
        cleanup == CleanupVerdict(s, now, requested)
        pushed == [s EXCEPT !.history =
                     Append(@, CleanupRecord(s, st.failure, st.classifiedAt,
                                             cleanup))]
        permanent == [pushed EXCEPT !.state =
                        PermanentFailure(st.failure, cleanup)]
        backoffEnd == now + BackoffNs
        windowEnd == s.episodeStartedAt + RestartWindowNs
    IN  IF Len(s.history) >= HistoryCapacity
        THEN Rejected(s)
        ELSE IF cleanup = "Failed"
        THEN Accepted(permanent)
        ELSE IF ~st.retry
        THEN Accepted([pushed EXCEPT !.state = Stopped])
        ELSE IF BudgetSpent(s)
        THEN Accepted(permanent)
        ELSE IF ~Fits(backoffEnd) \/ ~Fits(windowEnd)
        THEN Rejected(pushed)
        ELSE IF backoffEnd > windowEnd
        THEN Accepted(permanent)
        ELSE Accepted([pushed EXCEPT !.state =
                        Backoff(st.attempt + 1, st.generation + 1,
                                backoffEnd)])

-----------------------------------------------------------------------------
(* The methods                                                             *)

MutBeginKeepsHistory(s, now, g, x) ==
    IF /\ s.state.tag = "Stopped"
       /\ g # 0 /\ x # 0
       /\ g > s.lastGeneration
       /\ Fits(now + ReadyTimeoutNs)
       /\ Observable(s, now)
    THEN Accepted([state |-> Starting(1, g, x, now + ReadyTimeoutNs),
                   history |-> s.history, episodeStartedAt |-> now,
                   attemptStartedAt |-> now, lastObserved |-> now,
                   lastGeneration |-> g])
    ELSE Rejected(s)

Begin(s, now, g, x) ==
    IF /\ s.state.tag = "Stopped"
       /\ g # 0 /\ x # 0
       /\ g > s.lastGeneration
       /\ Fits(now + ReadyTimeoutNs)
       /\ Observable(s, now)
    THEN Accepted([state |-> Starting(1, g, x, now + ReadyTimeoutNs),
                   history |-> <<>>, episodeStartedAt |-> now,
                   attemptStartedAt |-> now, lastObserved |-> now,
                   lastGeneration |-> g])
    ELSE Rejected(s)

MutDeadlineExtended(s, g, x, now) ==
    IF /\ s.state.tag = "Starting" /\ Current(s, g, x) /\ Observable(s, now)
       /\ now < s.state.deadline
    THEN Accepted([Observe(s, now) EXCEPT !.state =
                    AwaitingReady(s.state.attempt, g, x, now + ReadyTimeoutNs)])
    ELSE Rejected(s)

ChildStarted(s, g, x, now) ==
    IF ~(s.state.tag = "Starting" /\ Current(s, g, x) /\ Observable(s, now))
    THEN Rejected(s)
    ELSE IF now >= s.state.deadline
    THEN AttemptFailed(Observe(s, now), now, "ReadyTimeout")
    ELSE Accepted([Observe(s, now) EXCEPT !.state =
                    AwaitingReady(s.state.attempt, g, x, s.state.deadline)])

ReceiveReady(s, g, x, now) ==
    IF ~(/\ s.state.tag = "AwaitingReady"
         /\ g # 0 /\ x # 0
         /\ g = s.state.generation
         /\ Observable(s, now))
    THEN Rejected(s)
    ELSE IF x # s.state.transaction
    THEN AttemptFailed(Observe(s, now), now, "WrongTransactionReady")
    ELSE IF now >= s.state.deadline
    THEN AttemptFailed(Observe(s, now), now, "ReadyTimeout")
    ELSE Accepted([Observe(s, now) EXCEPT !.state =
                    Ready(s.state.attempt, g, x)])

\* The failures fail_attempt admits in each active state.
FailureAdmitted(tag, kind) ==
    \/ tag = "Starting" /\ kind \in {"CreationFailed", "StartFailed"}
    \/ /\ tag = "AwaitingReady"
       /\ kind \in {"MalformedReady", "WrongTransactionReady",
                    "PeerClosedBeforeReady"}
    \/ tag = "Ready" /\ kind = "DuplicateReady"
    \/ /\ tag \in {"AwaitingReady", "Ready"}
       /\ kind \in {"ReadinessFailedAfterExit", "WaitFailed",
                    "ExitQueryFailed"}

FailureAction(tag, kind) ==
    IF kind \in {"ExitQueryFailed", "ReadinessFailedAfterExit"}
    THEN "CloseTerminal"
    ELSE IF tag = "Starting" THEN "CloseUnpublished" ELSE "TerminateTaskGroup"

MutFailureRenews(s, g, x, now, kind) ==
    IF ~(Active(s) /\ Current(s, g, x) /\ Observable(s, now))
    THEN Rejected(s)
    ELSE IF ~FailureAdmitted(s.state.tag, kind)
    THEN Rejected(Observe(s, now))
    ELSE EnterCleanup(IF s.state.tag # "Ready" THEN Observe(s, now)
                      ELSE [Observe(s, now) EXCEPT !.history = <<>>,
                                                   !.episodeStartedAt = now],
                      now, Failure(kind), FailureAction(s.state.tag, kind), TRUE)

FailAttempt(s, g, x, now, kind) ==
    IF ~(Active(s) /\ Current(s, g, x) /\ Observable(s, now))
    THEN Rejected(s)
    ELSE IF ~FailureAdmitted(s.state.tag, kind)
    THEN Rejected(Observe(s, now))
    ELSE EnterCleanup(Observe(s, now), now, Failure(kind),
                      FailureAction(s.state.tag, kind), TRUE)

\* The candidate copy is kept only when fail_attempt accepts it.
AdmitRecovery(s, g, x, now, kind) ==
    LET candidate == [s EXCEPT !.history = <<>>, !.episodeStartedAt = now,
                               !.state = Ready(1, g, x)]
        outcome == FailAttempt(candidate, g, x, now, kind)
    IN  IF /\ s.state.tag = "Ready"
           /\ Current(s, g, x)
           /\ Fits(now + RestartWindowNs)
           /\ outcome.ok
        THEN outcome
        ELSE Rejected(s)

MutRetireToStopped(s, g, x, now, kind, cleanup) ==
    IF /\ Active(s) /\ Current(s, g, x) /\ Observable(s, now)
       /\ Len(s.history) < HistoryCapacity
    THEN Accepted([Observe(s, now) EXCEPT
                    !.history = Append(@, CleanupRecord(s, Failure(kind), now,
                                                        cleanup)),
                    !.state = Stopped])
    ELSE Rejected(s)

RetireActiveFailClosed(s, g, x, now, kind, cleanup) ==
    IF ~(Active(s) /\ Current(s, g, x) /\ Observable(s, now))
    THEN Rejected(s)
    ELSE IF Len(s.history) >= HistoryCapacity
    THEN Rejected(Observe(s, now))
    ELSE Accepted([Observe(s, now) EXCEPT
                    !.history = Append(@, CleanupRecord(s, Failure(kind), now,
                                                        cleanup)),
                    !.state = PermanentFailure(Failure(kind), cleanup)])

Terminal(s, g, x, now, exit) ==
    LET wasReady == s.state.tag = "Ready"
        failure == ExitFailure(IF wasReady THEN "ExitAfterReady"
                               ELSE "ExitBeforeReady", exit)
    IN  IF Active(s) /\ Current(s, g, x) /\ Observable(s, now)
        THEN EnterCleanup(Observe(s, now), now, failure, "CloseTerminal",
                          ~(wasReady /\ exit = "ExitZero"))
        ELSE Rejected(s)

DeadlineElapsed(s, g, x, expected, now) ==
    IF ~(/\ s.state.tag \in {"Starting", "AwaitingReady", "CleaningUp"}
         /\ Current(s, g, x)
         /\ expected = s.state.deadline
         /\ Observable(s, now))
    THEN Rejected(s)
    ELSE IF now < expected
    THEN Rejected(Observe(s, now))
    ELSE IF s.state.tag = "CleaningUp"
    THEN FinishCleanup(Observe(s, now), now, "Failed")
    ELSE EnterCleanup(Observe(s, now), now, Failure("ReadyTimeout"),
                      IF s.state.tag = "Starting" THEN "CloseUnpublished"
                      ELSE "TerminateTaskGroup", TRUE)

Cancel(s, g, x, now) ==
    IF Active(s) /\ Current(s, g, x) /\ Observable(s, now)
    THEN EnterCleanup(Observe(s, now), now, Failure("Cancelled"),
                      IF s.state.tag = "Starting" THEN "CloseUnpublished"
                      ELSE "TerminateTaskGroup", FALSE)
    ELSE Rejected(s)

\* cleanup_complete and cleanup_failed differ only in the disposition.
CleanupFinished(s, g, x, now, requested) ==
    IF s.state.tag = "CleaningUp" /\ Current(s, g, x) /\ Observable(s, now)
    THEN FinishCleanup(Observe(s, now), now, requested)
    ELSE Rejected(s)

MutWindowUnchecked(s, now) == FALSE

\* The restart window of the episode ended before now.
WindowClosed(s, now) == now > s.episodeStartedAt + RestartWindowNs

MutGenerationKept(s, now, g, x) ==
    [Observe(s, now) EXCEPT
        !.state = Starting(s.state.nextAttempt, g, x, now + ReadyTimeoutNs),
        !.attemptStartedAt = now]

OpenReplacement(s, now, g, x) ==
    [Observe(s, now) EXCEPT
        !.state = Starting(s.state.nextAttempt, g, x, now + ReadyTimeoutNs),
        !.attemptStartedAt = now,
        !.lastGeneration = g]

StartReplacement(s, now, g, x) ==
    IF ~(/\ s.state.tag = "Backoff"
         /\ g # 0 /\ x # 0
         /\ g = s.state.nextGeneration
         /\ Observable(s, now))
    THEN Rejected(s)
    ELSE IF now < s.state.deadline \/ ~Fits(s.episodeStartedAt + RestartWindowNs)
    THEN Rejected(Observe(s, now))
    ELSE IF WindowClosed(s, now)
    THEN IF s.history = <<>>
         THEN Rejected(Observe(s, now))
         ELSE Accepted([Observe(s, now) EXCEPT !.state =
                PermanentFailure(s.history[Len(s.history)].failure,
                                 "Complete")])
    ELSE IF ~Fits(now + ReadyTimeoutNs)
    THEN Rejected(Observe(s, now))
    ELSE Accepted(OpenReplacement(s, now, g, x))
=============================================================================
