------------------------- MODULE RestartSupervisor -------------------------
(***************************************************************************)
(* One RestartSupervisor under an arbitrary caller: every public method of *)
(* crates/wyrmroot-runtime/src/supervision/restart.rs may be called at any *)
(* time with any identity (stale, future, zero or current) and any clock   *)
(* reading, including one that regresses.  A call the code rejects without *)
(* touching its state is a stuttering step here.                           *)
(***************************************************************************)
EXTENDS RestartPolicy

CONSTANTS
    Clock,              \* the clock readings callers may pass
    Generations,        \* the generation arguments callers may pass
    Transactions,       \* the transaction arguments callers may pass
    FailureKinds,       \* the payload-free AttemptFailure values callers pass
    Exits               \* the TerminalDisposition values callers pass

\* Every argument is a value of its Rust type.
ASSUME InputAssumption ==
    /\ Clock \subseteq U64
    /\ Generations \subseteq U64
    /\ Transactions \subseteq U64
    /\ FailureKinds \subseteq PlainFailures
    /\ Exits \subseteq TerminalDispositions

VARIABLE sup            \* the supervisor

Init == sup = NewSupervisor

begin == \E now \in Clock, g \in Generations, x \in Transactions :
            sup' = Begin(sup, now, g, x).sup

child_started == \E now \in Clock, g \in Generations, x \in Transactions :
            sup' = ChildStarted(sup, g, x, now).sup

ready == \E now \in Clock, g \in Generations, x \in Transactions :
            sup' = ReceiveReady(sup, g, x, now).sup

fail_attempt ==
    \E now \in Clock, g \in Generations, x \in Transactions,
       kind \in FailureKinds :
            sup' = FailAttempt(sup, g, x, now, kind).sup

admit_recovery ==
    \E now \in Clock, g \in Generations, x \in Transactions,
       kind \in FailureKinds :
            sup' = AdmitRecovery(sup, g, x, now, kind).sup

retire_active_fail_closed ==
    \E now \in Clock, g \in Generations, x \in Transactions,
       kind \in FailureKinds, cleanup \in CleanupDispositions :
            sup' = RetireActiveFailClosed(sup, g, x, now, kind, cleanup).sup

terminal ==
    \E now \in Clock, g \in Generations, x \in Transactions, exit \in Exits :
            sup' = Terminal(sup, g, x, now, exit).sup

deadline_elapsed ==
    \E now \in Clock, g \in Generations, x \in Transactions,
       expected \in Clock :
            sup' = DeadlineElapsed(sup, g, x, expected, now).sup

cancel == \E now \in Clock, g \in Generations, x \in Transactions :
            sup' = Cancel(sup, g, x, now).sup

cleanup_complete == \E now \in Clock, g \in Generations, x \in Transactions :
            sup' = CleanupFinished(sup, g, x, now, "Complete").sup

cleanup_failed == \E now \in Clock, g \in Generations, x \in Transactions :
            sup' = CleanupFinished(sup, g, x, now, "Failed").sup

start_replacement == \E now \in Clock, g \in Generations, x \in Transactions :
            sup' = StartReplacement(sup, now, g, x).sup

Next ==
    \/ begin
    \/ child_started
    \/ ready
    \/ fail_attempt
    \/ admit_recovery
    \/ retire_active_fail_closed
    \/ terminal
    \/ deadline_elapsed
    \/ cancel
    \/ cleanup_complete
    \/ cleanup_failed
    \/ start_replacement

Spec == Init /\ [][Next]_sup

-----------------------------------------------------------------------------
(* Properties                                                              *)

\* Type invariant: the supervisor is a value of the Rust types, within the
\* bounds the policy promises for the attempt counters.
TypeOK == sup \in Supervisors

\* No checked addition on this supervisor's clock has overflowed so far: the
\* latest observed instant still has room for a backoff and a restart window.
ClockHasRoom(s) ==
    /\ Fits(s.lastObserved + BackoffNs)
    /\ Fits(s.lastObserved + RestartWindowNs)

\* The states that carry the identity of an open attempt.
Open(s) == Active(s) \/ s.state.tag = "CleaningUp"

\* How many attempts of this episode have a terminal record in each state.
RecordsOwed(s) ==
    IF Open(s) THEN s.state.attempt - 1
    ELSE IF s.state.tag = "Backoff" THEN s.state.nextAttempt - 1
    ELSE Len(s.history)

\* The records 1, 2, ... of the finished attempts and no others.
ExactHistory(s) ==
    /\ Len(s.history) = RecordsOwed(s)
    /\ Len(s.history) <= MaxAttempts
    /\ \A i \in 1 .. Len(s.history) : s.history[i].attempt = i

\* No completion of this cleanup can open a backoff any more: one of the
\* checked additions of finish_cleanup overflows now and at any later instant.
Stranded(s) ==
    /\ s.state.tag = "CleaningUp"
    /\ s.state.retry
    /\ \/ ~Fits(s.lastObserved + BackoffNs)
       \/ ~Fits(s.episodeStartedAt + RestartWindowNs)

OneRecordPerAttempt(s) ==
    /\ RecordsOwed(s) <= Len(s.history)
    /\ Len(s.history) <= HistoryCapacity
    /\ Active(s) \/ s.state.tag = "Backoff" \/ ClockHasRoom(s) => ExactHistory(s)
    /\ s.state.tag = "CleaningUp" =>
          \A i \in 1 .. Len(s.history) :
              s.history[i].attempt = IF i < s.state.attempt THEN i ELSE s.state.attempt
    /\ RecordsOwed(s) < Len(s.history) => Stranded(s)

RecordsCleaned(s) ==
    s.state.tag # "PermanentFailure" =>
        \A i \in 1 .. Len(s.history) : s.history[i].cleanup = "Complete"

GenerationsOrdered(s) ==
    /\ Open(s) => s.state.generation = s.lastGeneration
    /\ s.state.tag = "Backoff" => s.state.nextGeneration = s.lastGeneration + 1
    /\ \A i \in 1 .. Len(s.history) :
          s.history[i].generation <= s.lastGeneration
    /\ Active(s) \/ (Open(s) /\ ClockHasRoom(s)) =>
          \A i \in 1 .. Len(s.history) :
              s.history[i].generation < s.lastGeneration
    /\ ClockHasRoom(s) =>
          \A i, j \in 1 .. Len(s.history) :
              i < j => s.history[i].generation < s.history[j].generation

InstantsOrdered(s) ==
    /\ s.episodeStartedAt <= s.lastObserved
    /\ s.attemptStartedAt <= s.lastObserved
    /\ s.state.tag = "CleaningUp" => s.state.classifiedAt <= s.lastObserved
    /\ s.state.tag \in {"Starting", "AwaitingReady"} =>
          s.state.deadline = s.attemptStartedAt + ReadyTimeoutNs
    /\ s.state.tag = "Backoff" =>
          s.state.deadline >= s.history[Len(s.history)].terminalAt + BackoffNs
    /\ Active(s) /\ s.state.attempt > 1 =>
          /\ s.attemptStartedAt <= s.episodeStartedAt + RestartWindowNs
          /\ s.attemptStartedAt >=
                s.history[Len(s.history)].terminalAt + BackoffNs

\* Exactly one record per finished attempt: while an attempt is active or
\* backed off, the history holds the records 1 .. attempt - 1 of this episode
\* in order, and it never outgrows its capacity.  finish_cleanup pushes its
\* record before the checked backoff and window additions, so a completion
\* whose addition overflows leaves the attempt open and recorded, and each
\* further one records it again.  Such an attempt is stranded: it never gets a
\* replacement, so no later attempt starts from a miscounted history.
HistoryCountsAttempts == OneRecordPerAttempt(sup)

\* A replacement is never admitted over a generation whose cleanup failed:
\* outside PermanentFailure every record of the episode was cleaned up.
NoReplacementOverFailedCleanup == RecordsCleaned(sup)

\* Generations are never reused: the open generation is the high-water mark,
\* a replacement takes the next number, and the recorded generations of an
\* episode strictly increase below it.
GenerationsAdvance == GenerationsOrdered(sup)

\* Every replacement starts inside the window that began with the episode, and
\* no earlier than one backoff after the previous attempt was classified; an
\* attempt keeps the READY deadline fixed when it was started.
ReplacementsInsideWindow == InstantsOrdered(sup)

\* An event that names another generation, or a zero or foreign transaction,
\* changes nothing at all: no late READY, exit, timer, cancellation or cleanup
\* report of a retired attempt reaches its replacement.  (A READY of the
\* current generation with a foreign transaction is the documented exception.)
StaleEventsAreInert ==
    sup.state.tag \in {"Starting", "AwaitingReady", "Ready", "CleaningUp"} =>
        \A now \in Clock, g \in Generations, x \in Transactions :
            /\ (g # sup.state.generation \/ x # sup.state.transaction) =>
                 /\ ChildStarted(sup, g, x, now).sup = sup
                 /\ Cancel(sup, g, x, now).sup = sup
                 /\ CleanupFinished(sup, g, x, now, "Complete").sup = sup
                 /\ CleanupFinished(sup, g, x, now, "Failed").sup = sup
                 /\ \A exit \in Exits : Terminal(sup, g, x, now, exit).sup = sup
                 /\ \A kind \in FailureKinds :
                      /\ FailAttempt(sup, g, x, now, kind).sup = sup
                      /\ AdmitRecovery(sup, g, x, now, kind).sup = sup
                      /\ \A cleanup \in CleanupDispositions :
                           RetireActiveFailClosed(sup, g, x, now, kind, cleanup).sup = sup
                 /\ \A expected \in Clock :
                      DeadlineElapsed(sup, g, x, expected, now).sup = sup
            /\ g # sup.state.generation => ReceiveReady(sup, g, x, now).sup = sup

\* PermanentFailure is final, and the observed clock and the generation
\* high-water mark never go back.
OnlyForward ==
    [][/\ sup'.lastObserved >= sup.lastObserved
       /\ sup'.lastGeneration >= sup.lastGeneration
       /\ sup.state.tag = "PermanentFailure" => sup' = sup]_sup

\* The episode goes on from s to t: same window, no record lost or rewritten,
\* no finished attempt uncounted.
BudgetKept(s, t) ==
    /\ t.episodeStartedAt = s.episodeStartedAt
    /\ Len(s.history) <= Len(t.history)
    /\ \A i \in 1 .. Len(s.history) : t.history[i] = s.history[i]
    /\ RecordsOwed(s) <= RecordsOwed(t)

\* The step is what some call other than begin and admit_recovery does.
OrdinaryCall ==
    \/ child_started \/ ready \/ fail_attempt \/ retire_active_fail_closed
    \/ terminal \/ deadline_elapsed \/ cancel
    \/ cleanup_complete \/ cleanup_failed \/ start_replacement

\* The attempt budget and the window are renewed only by begin on a stopped
\* supervisor and by admit_recovery on a Ready owner.  No READY, no failure,
\* exit, timer or cancellation, no cleanup and no replacement renews them, not
\* even of an owner that was Ready.
BudgetNeverRenewed ==
    [][\/ BudgetKept(sup, sup')
       \/ /\ ~OrdinaryCall
          /\ \/ begin /\ sup.state.tag = "Stopped"
             \/ admit_recovery /\ sup.state.tag = "Ready"]_sup

\* An attempt that reaches Ready did so strictly before the deadline fixed
\* when it was started, and on the identity it was started with: neither
\* child_started nor READY extends the deadline.
ReadyBeforeDeadline ==
    [][sup'.state.tag = "Ready" /\ sup.state.tag # "Ready" =>
         /\ sup.state.tag = "AwaitingReady"
         /\ sup'.state.generation = sup.state.generation
         /\ sup'.state.transaction = sup.state.transaction
         /\ sup'.lastObserved < sup.attemptStartedAt + ReadyTimeoutNs]_sup
=============================================================================
