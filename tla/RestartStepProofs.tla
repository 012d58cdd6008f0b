------------------------- MODULE RestartStepProofs -------------------------
(***************************************************************************)
(* What no call on a restart supervisor ever does, for every policy and    *)
(* every argument: go back in time, reuse a generation, leave              *)
(* PermanentFailure or become Ready late; and that no call but begin and   *)
(* admit_recovery renews the budget of an episode.                         *)
(*                                                                         *)
(* Nearly every method keeps the episode as it is (Keeps); the four that   *)
(* do not, begin, ready, admit_recovery and start_replacement, are treated *)
(* one by one, from the invariant of RestartSupervisorProofs.              *)
(***************************************************************************)
EXTENDS RestartSupervisorProofs

\* Two of the action properties of RestartSupervisor, as relations of a
\* supervisor before and after a call; the third is BudgetKept.
Forward(s, t) ==
    /\ t.lastObserved >= s.lastObserved
    /\ t.lastGeneration >= s.lastGeneration
    /\ s.state.tag = "PermanentFailure" => t = s

ReadyInTime(s, t) ==
    t.state.tag = "Ready" /\ s.state.tag # "Ready" =>
         /\ s.state.tag = "AwaitingReady"
         /\ t.state.generation = s.state.generation
         /\ t.state.transaction = s.state.transaction
         /\ t.lastObserved < s.attemptStartedAt + ReadyTimeoutNs

\* What every call does, and what every call but the two renewing ones does.
StepOK(s, t) == Forward(s, t) /\ ReadyInTime(s, t)
OrdinaryOK(s, t) == StepOK(s, t) /\ BudgetKept(s, t)

\* The call leaves the episode, its budget and the generations alone.
Keeps(s, t) ==
    /\ s.state.tag # "PermanentFailure"
    /\ t.lastObserved >= s.lastObserved
    /\ t.lastGeneration = s.lastGeneration
    /\ BudgetKept(s, t)
    /\ t.state.tag = "Ready" => s.state.tag = "Ready"

\* The fields of a supervisor that the steps compare are numbers.
LEMMA SupervisorFields ==
    ASSUME NEW s \in Supervisors
    PROVE  /\ s.lastObserved \in Nat /\ s.lastGeneration \in Nat
           /\ s.episodeStartedAt \in Nat /\ s.attemptStartedAt \in Nat
           /\ Len(s.history) \in Nat /\ s.history \in Seq(AttemptRecords)
BY PolicyAssumption DEF Supervisors, U64

\* No more attempts are counted than there are records.
LEMMA OwedType ==
    ASSUME NEW s, SupervisorInv(s)
    PROVE  RecordsOwed(s) \in Nat /\ RecordsOwed(s) <= Len(s.history)
<1>1. s \in Supervisors /\ RecordsOwed(s) <= Len(s.history)
  BY DEF SupervisorInv, OneRecordPerAttempt
<1>2. CASE Active(s)
  BY <1>1, <1>2, ActiveType, PolicyAssumption DEF RecordsOwed, Open
<1>3. CASE s.state.tag = "CleaningUp"
  BY <1>1, <1>3, CleaningUpType, PolicyAssumption DEF RecordsOwed, Open
<1>4. CASE s.state.tag = "Backoff"
  BY <1>1, <1>4, BackoffType, PolicyAssumption DEF RecordsOwed, Open, Active
<1>5. CASE ~Open(s) /\ s.state.tag # "Backoff"
  BY <1>1, <1>5, SupervisorFields DEF RecordsOwed
<1> QED BY <1>1, <1>2, <1>3, <1>4, <1>5 DEF Open

\* A step that leaves the window and the history alone keeps the budget when it
\* counts no fewer attempts.
LEMMA SameHistoryKept ==
    ASSUME NEW s \in Supervisors, NEW t,
           t.history = s.history, t.episodeStartedAt = s.episodeStartedAt,
           RecordsOwed(s) <= RecordsOwed(t)
    PROVE  BudgetKept(s, t)
BY SupervisorFields DEF BudgetKept

\* A record more keeps the budget when no fewer attempts are counted.
LEMMA LongerHistoryKept ==
    ASSUME NEW s \in Supervisors, NEW t, NEW r,
           t.history = Append(s.history, r),
           t.episodeStartedAt = s.episodeStartedAt,
           RecordsOwed(s) <= RecordsOwed(t)
    PROVE  BudgetKept(s, t) /\ Len(t.history) = Len(s.history) + 1
<1> DEFINE h == s.history
<1>1. h \in Seq(AttemptRecords) /\ Len(h) \in Nat
  BY SupervisorFields
<1> HIDE DEF h
<1>2. /\ Len(Append(h, r)) = Len(h) + 1
      /\ \A i \in 1 .. Len(h) : Append(h, r)[i] = h[i]
  BY <1>1
<1>3. Len(h) <= Len(h) + 1
  BY <1>1
<1> QED BY <1>2, <1>3, Zenon DEF BudgetKept, h

\* A rejected call that touches nothing is harmless.
LEMMA SameIsOK == ASSUME NEW s, SupervisorInv(s) PROVE OrdinaryOK(s, s)
<1>1. s \in Supervisors
  BY DEF SupervisorInv
<1>2. BudgetKept(s, s)
  <2>1. RecordsOwed(s) <= RecordsOwed(s)
    BY OwedType
  <2> QED BY <1>1, <2>1, SameHistoryKept
<1> QED BY <1>1, <1>2, SupervisorFields DEF OrdinaryOK, StepOK, Forward, ReadyInTime

\* A call that keeps the episode is harmless.
LEMMA KeepsIsOK ==
    ASSUME NEW s \in Supervisors, NEW t, Keeps(s, t)
    PROVE  OrdinaryOK(s, t)
BY SupervisorFields DEF Keeps, OrdinaryOK, StepOK, Forward, ReadyInTime

\* Observing the clock alone keeps the episode.
LEMMA ObserveKeeps ==
    ASSUME NEW s, SupervisorInv(s), NEW now \in U64, Observable(s, now),
           s.state.tag # "PermanentFailure"
    PROVE  /\ Keeps(s, Observe(s, now))
           /\ Observe(s, now).state = s.state
           /\ Observe(s, now).history = s.history
           /\ Observe(s, now).lastObserved = now
           /\ Observe(s, now).lastGeneration = s.lastGeneration
           /\ Observe(s, now).episodeStartedAt = s.episodeStartedAt
           /\ DOMAIN Observe(s, now) = DOMAIN s
<1> DEFINE o == Observe(s, now)
<1>1. s \in Supervisors
  BY DEF SupervisorInv
<1>2. /\ o.state = s.state /\ o.history = s.history /\ o.lastObserved = now
      /\ o.lastGeneration = s.lastGeneration
      /\ o.episodeStartedAt = s.episodeStartedAt /\ DOMAIN o = DOMAIN s
  BY <1>1 DEF Observe, Supervisors
<1> HIDE DEF o
<1>3. RecordsOwed(s) <= RecordsOwed(o)
  <2>1. RecordsOwed(o) = RecordsOwed(s)
    BY <1>2 DEF RecordsOwed, Open, Active
  <2> QED BY <2>1, OwedType
<1>4. BudgetKept(s, o)
  BY <1>1, <1>2, <1>3, SameHistoryKept
<1>5. Keeps(s, o)
  BY <1>2, <1>4 DEF Keeps, Observable
<1> QED BY <1>2, <1>5 DEF o

\* The same supervisor in another state keeps the episode when it counts no
\* fewer attempts and is not Ready.
LEMMA StateKeeps ==
    ASSUME NEW s, SupervisorInv(s), NEW now \in U64, Observable(s, now),
           s.state.tag # "PermanentFailure",
           NEW st, st.tag # "Ready",
           RecordsOwed(s) <= RecordsOwed([Observe(s, now) EXCEPT !.state = st])
    PROVE  Keeps(s, [Observe(s, now) EXCEPT !.state = st])
<1> DEFINE o == Observe(s, now)
           t == [o EXCEPT !.state = st]
<1>1. s \in Supervisors /\ "state" \in DOMAIN s
  BY DEF SupervisorInv, Supervisors
<1>2. /\ o.history = s.history /\ o.lastObserved = now
      /\ o.lastGeneration = s.lastGeneration
      /\ o.episodeStartedAt = s.episodeStartedAt
  BY ObserveKeeps
<1>3. /\ t.state = st /\ t.history = o.history
      /\ t.lastObserved = o.lastObserved
      /\ t.lastGeneration = o.lastGeneration
      /\ t.episodeStartedAt = o.episodeStartedAt
  BY <1>1 DEF Observe, Supervisors
<1> HIDE DEF t, o
<1>4. BudgetKept(s, t)
  <2>1. RecordsOwed(s) <= RecordsOwed(t)
    BY DEF t, o
  <2> QED BY <1>1, <1>2, <1>3, <2>1, SameHistoryKept
<1>5. Keeps(s, t)
  BY <1>2, <1>3, <1>4 DEF Keeps, Observable
<1> QED BY <1>5 DEF t, o

\* Entering cleanup (enter_cleanup) keeps the episode.
LEMMA EnterCleanupKeeps ==
    ASSUME NEW s, SupervisorInv(s), NEW now \in U64, Observable(s, now),
           Active(s), NEW failure, NEW action, NEW retry
    PROVE  Keeps(s, EnterCleanup(Observe(s, now), now, failure, action, retry).sup)
<1> DEFINE o == Observe(s, now)
           c == [tag |-> "CleaningUp", attempt |-> o.state.attempt,
                 generation |-> o.state.generation,
                 transaction |-> o.state.transaction, failure |-> failure,
                 action |-> action, classifiedAt |-> now,
                 deadline |-> now + CleanupTimeoutNs, retry |-> retry]
           t == [o EXCEPT !.state = c]
<1>1. s \in Supervisors /\ s.state.tag # "PermanentFailure"
  BY DEF SupervisorInv, Active
<1>2. Keeps(s, o) /\ o.state = s.state
  BY <1>1, ObserveKeeps
<1>3. EnterCleanup(o, now, failure, action, retry).sup \in {o, t}
  BY DEF EnterCleanup, Accepted, Rejected
<1>4. c.tag = "CleaningUp" /\ c.attempt = s.state.attempt
  BY <1>2
<1>5. t.state = c
  BY <1>1 DEF Observe, Supervisors
<1> HIDE DEF c
<1>6. RecordsOwed(s) <= RecordsOwed(t)
  <2>1. RecordsOwed(t) = RecordsOwed(s)
    BY <1>4, <1>5 DEF RecordsOwed, Open, Active
  <2> QED BY <2>1, OwedType
<1>7. Keeps(s, t)
  <2>1. c.tag # "Ready"
    BY <1>4
  <2> QED BY <1>1, <1>6, <2>1, StateKeeps
<1> HIDE DEF t, o
<1> QED BY <1>2, <1>3, <1>7 DEF o

\* Finishing cleanup (finish_cleanup) keeps the episode: it only adds a record.
LEMMA FinishCleanupKeeps ==
    ASSUME NEW s, SupervisorInv(s), NEW now \in U64, Observable(s, now),
           s.state.tag = "CleaningUp", NEW requested
    PROVE  Keeps(s, FinishCleanup(Observe(s, now), now, requested).sup)
<1> DEFINE o == Observe(s, now)
           rec == CleanupRecord(o, o.state.failure, o.state.classifiedAt,
                                CleanupVerdict(o, now, requested))
           pushed == [o EXCEPT !.history = Append(@, rec)]
           f == FinishCleanup(o, now, requested).sup
           pf == PermanentFailure(o.state.failure, CleanupVerdict(o, now, requested))
           bo == Backoff(o.state.attempt + 1, o.state.generation + 1,
                         now + BackoffNs)
           Closed(st) == [pushed EXCEPT !.state = st]
<1>1. s \in Supervisors
  BY DEF SupervisorInv
<1>2. /\ Keeps(s, o) /\ o.history = s.history /\ o.state = s.state
      /\ o.lastObserved = now /\ o.lastGeneration = s.lastGeneration
      /\ o.episodeStartedAt = s.episodeStartedAt
  BY ObserveKeeps
<1>3. /\ pushed.lastObserved = o.lastObserved
      /\ pushed.lastGeneration = o.lastGeneration
      /\ pushed.episodeStartedAt = o.episodeStartedAt
      /\ pushed.history = Append(o.history, rec)
      /\ pushed.state = o.state
  BY <1>1 DEF Observe, Supervisors
<1>4. f \in {o, pushed, Closed(pf), Closed(Stopped), Closed(bo)}
  BY DEF FinishCleanup, Accepted, Rejected
<1>5. \A st : /\ Closed(st).lastObserved = pushed.lastObserved
              /\ Closed(st).lastGeneration = pushed.lastGeneration
              /\ Closed(st).episodeStartedAt = pushed.episodeStartedAt
              /\ Closed(st).history = pushed.history
              /\ Closed(st).state = st
  BY <1>1 DEF Observe, Supervisors
<1>6. /\ pf.tag = "PermanentFailure" /\ Stopped.tag = "Stopped"
      /\ bo.tag = "Backoff" /\ bo.nextAttempt = s.state.attempt + 1
  BY <1>2 DEF PermanentFailure, Stopped, Backoff
<1> HIDE DEF f, rec, pf, bo, Closed, pushed, o
<1>7. /\ s.state.attempt \in Nat /\ RecordsOwed(s) = s.state.attempt - 1
      /\ RecordsOwed(s) <= Len(s.history) /\ Len(s.history) \in Nat
  BY <1>1, CleaningUpType, OwedType, SupervisorFields, PolicyAssumption
  DEF RecordsOwed, Open
<1>8. Len(Append(s.history, rec)) = Len(s.history) + 1
  BY <1>1, SupervisorFields
<1>9. ASSUME NEW t, t.history = Append(s.history, rec),
             t.episodeStartedAt = s.episodeStartedAt,
             t.lastObserved = now, t.lastGeneration = s.lastGeneration,
             t.state.tag # "Ready", RecordsOwed(s) <= RecordsOwed(t)
      PROVE  Keeps(s, t)
  BY <1>1, <1>9, LongerHistoryKept DEF Keeps, Observable
<1>10. Keeps(s, pushed)
  <2>1. RecordsOwed(pushed) = RecordsOwed(s)
    BY <1>2, <1>3 DEF RecordsOwed, Open, Active
  <2>2. RecordsOwed(s) <= RecordsOwed(pushed)
    BY <1>7, <2>1
  <2> QED BY <1>2, <1>3, <1>9, <2>2
<1>11. ASSUME NEW st, st.tag \in {"PermanentFailure", "Stopped"}
       PROVE  Keeps(s, Closed(st))
  <2>1. RecordsOwed(Closed(st)) = Len(s.history) + 1
    BY <1>2, <1>3, <1>5, <1>8, <1>11 DEF RecordsOwed, Open, Active
  <2>2. RecordsOwed(s) <= RecordsOwed(Closed(st))
    BY <1>7, <2>1
  <2> QED BY <1>2, <1>3, <1>5, <1>9, <1>11, <2>2
<1>12. Keeps(s, Closed(bo))
  <2>1. RecordsOwed(Closed(bo)) = s.state.attempt
    BY <1>5, <1>6, <1>7 DEF RecordsOwed, Open, Active
  <2>2. RecordsOwed(s) <= RecordsOwed(Closed(bo))
    BY <1>7, <2>1
  <2> QED BY <1>2, <1>3, <1>5, <1>6, <1>9, <2>2
<1> QED BY <1>2, <1>4, <1>6, <1>10, <1>11, <1>12 DEF f, o

-----------------------------------------------------------------------------
(* One lemma per method                                                    *)

\* begin opens an episode on a stopped supervisor, with a greater generation.
LEMMA BeginStep ==
    ASSUME NEW s, SupervisorInv(s), NEW now \in U64, NEW g \in U64, NEW x \in U64
    PROVE  /\ StepOK(s, Begin(s, now, g, x).sup)
           /\ Begin(s, now, g, x).sup = s \/ s.state.tag = "Stopped"
<1> DEFINE t == [state |-> Starting(1, g, x, now + ReadyTimeoutNs),
                 history |-> <<>>, episodeStartedAt |-> now,
                 attemptStartedAt |-> now, lastObserved |-> now,
                 lastGeneration |-> g]
<1>1. s \in Supervisors
  BY DEF SupervisorInv
<1>2. CASE Begin(s, now, g, x).sup = s
  BY <1>2, SameIsOK DEF OrdinaryOK
<1>3. CASE /\ s.state.tag = "Stopped" /\ g > s.lastGeneration
           /\ Observable(s, now) /\ Begin(s, now, g, x).sup = t
  <2>1. /\ t.state.tag = "Starting" /\ t.lastObserved = now
        /\ t.lastGeneration = g
    BY DEF Starting
  <2> HIDE DEF t
  <2> QED BY <1>1, <1>3, <2>1, SupervisorFields, PolicyAssumption
          DEF StepOK, Forward, ReadyInTime, Observable, U64
<1> QED BY <1>2, <1>3 DEF Begin, Accepted, Rejected

\* child_started keeps the episode, whether it is in time or late.
LEMMA ChildStartedStep ==
    ASSUME NEW s, SupervisorInv(s), NEW now \in U64, NEW g \in U64, NEW x \in U64
    PROVE  OrdinaryOK(s, ChildStarted(s, g, x, now).sup)
<1> DEFINE o == Observe(s, now)
           t == [o EXCEPT !.state = AwaitingReady(s.state.attempt, g, x, s.state.deadline)]
           c == EnterCleanup(o, now, Failure("ReadyTimeout"), "TerminateTaskGroup", TRUE).sup
<1>1. s \in Supervisors
  BY DEF SupervisorInv
<1>2. CASE ChildStarted(s, g, x, now).sup = s
  BY <1>2, SameIsOK
<1>3. CASE /\ s.state.tag = "Starting" /\ Observable(s, now)
           /\ ChildStarted(s, g, x, now).sup \in {c, t}
  <2>1. Keeps(s, c)
    BY <1>3, EnterCleanupKeeps DEF Active
  <2> DEFINE st == AwaitingReady(s.state.attempt, g, x, s.state.deadline)
  <2>2. st.tag = "AwaitingReady" /\ st.attempt = s.state.attempt /\ t.state = st
    BY <1>1 DEF AwaitingReady, Observe, Supervisors
  <2> HIDE DEF st
  <2>3. Keeps(s, t)
    <3>1. RecordsOwed(t) = RecordsOwed(s)
      BY <1>3, <2>2 DEF RecordsOwed, Open, Active
    <3>2. RecordsOwed(s) <= RecordsOwed(t)
      BY <3>1, OwedType
    <3> QED BY <1>3, <2>2, <3>2, StateKeeps DEF st
  <2> QED BY <1>1, <1>3, <2>1, <2>3, KeepsIsOK
<1> QED BY <1>2, <1>3 DEF ChildStarted, AttemptFailed, Accepted, Rejected

\* ready accepts a READY of the open attempt before the deadline it was given.
LEMMA ReceiveReadyStep ==
    ASSUME NEW s, SupervisorInv(s), NEW now \in U64, NEW g \in U64, NEW x \in U64
    PROVE  OrdinaryOK(s, ReceiveReady(s, g, x, now).sup)
<1> DEFINE o == Observe(s, now)
           t == [o EXCEPT !.state = Ready(s.state.attempt, g, x)]
           c(f) == EnterCleanup(o, now, Failure(f), "TerminateTaskGroup", TRUE).sup
<1>1. s \in Supervisors /\ InstantsOrdered(s)
  BY DEF SupervisorInv
<1>2. CASE ReceiveReady(s, g, x, now).sup = s
  BY <1>2, SameIsOK
<1>3. CASE /\ s.state.tag = "AwaitingReady" /\ Observable(s, now)
           /\ \E f : ReceiveReady(s, g, x, now).sup = c(f)
  BY <1>1, <1>3, EnterCleanupKeeps, KeepsIsOK DEF Active
<1>4. CASE /\ s.state.tag = "AwaitingReady" /\ Observable(s, now)
           /\ g = s.state.generation /\ x = s.state.transaction
           /\ ~(now >= s.state.deadline)
           /\ ReceiveReady(s, g, x, now).sup = t
  <2>1. /\ t.state.tag = "Ready" /\ t.state.generation = g
        /\ t.state.transaction = x /\ t.history = s.history
        /\ t.lastObserved = now /\ t.lastGeneration = s.lastGeneration
        /\ t.episodeStartedAt = s.episodeStartedAt
        /\ t.state.attempt = s.state.attempt
    BY <1>1 DEF Ready, Observe, Supervisors
  <2>2. s.state.deadline = s.attemptStartedAt + ReadyTimeoutNs
    BY <1>1, <1>4 DEF InstantsOrdered
  <2> HIDE DEF t
  <2>3. StepOK(s, t)
    BY <1>1, <1>4, <2>1, <2>2, SupervisorFields, PolicyAssumption
    DEF StepOK, Forward, ReadyInTime, Observable, U64
  <2>4. RecordsOwed(t) = RecordsOwed(s)
    BY <1>4, <2>1 DEF RecordsOwed, Open, Active
  <2>5. RecordsOwed(s) <= RecordsOwed(t)
    BY <2>4, OwedType
  <2>6. BudgetKept(s, t)
    BY <1>1, <2>1, <2>5, SameHistoryKept
  <2> QED BY <1>4, <2>3, <2>6 DEF OrdinaryOK
<1> QED BY <1>2, <1>3, <1>4 DEF ReceiveReady, AttemptFailed, Accepted, Rejected

\* fail_attempt, terminal and cancel observe the clock and enter cleanup.
LEMMA FailureStep ==
    ASSUME NEW s, SupervisorInv(s), NEW now \in U64, NEW g \in U64, NEW x \in U64
    PROVE  /\ \A kind : OrdinaryOK(s, FailAttempt(s, g, x, now, kind).sup)
           /\ \A exit : OrdinaryOK(s, Terminal(s, g, x, now, exit).sup)
           /\ OrdinaryOK(s, Cancel(s, g, x, now).sup)
<1> DEFINE o == Observe(s, now)
           OK(t) == \/ t = s
                    \/ /\ Active(s) /\ Observable(s, now)
                       /\ \/ t = o
                          \/ \E f, a, r : t = EnterCleanup(o, now, f, a, r).sup
<1>1. ASSUME NEW t, OK(t) PROVE OrdinaryOK(s, t)
  <2>1. s \in Supervisors
    BY DEF SupervisorInv
  <2>2. CASE t = s
    BY <2>2, SameIsOK
  <2>3. CASE Active(s) /\ Observable(s, now) /\ t = o
    BY <2>1, <2>3, ObserveKeeps, KeepsIsOK DEF Active
  <2>4. CASE /\ Active(s) /\ Observable(s, now)
             /\ \E f, a, r : t = EnterCleanup(o, now, f, a, r).sup
    BY <2>1, <2>4, EnterCleanupKeeps, KeepsIsOK
  <2> QED BY <1>1, <2>2, <2>3, <2>4
<1>2. ASSUME NEW kind PROVE OK(FailAttempt(s, g, x, now, kind).sup)
  BY DEF FailAttempt, Rejected
<1>3. ASSUME NEW exit PROVE OK(Terminal(s, g, x, now, exit).sup)
  BY DEF Terminal, Rejected
<1>4. OK(Cancel(s, g, x, now).sup)
  BY DEF Cancel, Rejected
<1> HIDE DEF OK
<1> QED BY <1>1, <1>2, <1>3, <1>4

\* deadline_elapsed, cleanup_complete and cleanup_failed enter or finish cleanup.
LEMMA CleanupStep ==
    ASSUME NEW s, SupervisorInv(s), NEW now \in U64, NEW g \in U64, NEW x \in U64
    PROVE  /\ \A expected : OrdinaryOK(s, DeadlineElapsed(s, g, x, expected, now).sup)
           /\ \A requested : OrdinaryOK(s, CleanupFinished(s, g, x, now, requested).sup)
<1> DEFINE o == Observe(s, now)
           OK(t) == \/ t = s
                    \/ /\ s.state.tag # "PermanentFailure" /\ Observable(s, now)
                       /\ t = o
                    \/ /\ Active(s) /\ Observable(s, now)
                       /\ \E f, a, r : t = EnterCleanup(o, now, f, a, r).sup
                    \/ /\ s.state.tag = "CleaningUp" /\ Observable(s, now)
                       /\ \E r : t = FinishCleanup(o, now, r).sup
<1>1. ASSUME NEW t, OK(t) PROVE OrdinaryOK(s, t)
  <2>1. s \in Supervisors
    BY DEF SupervisorInv
  <2>2. CASE t = s
    BY <2>2, SameIsOK
  <2>3. CASE s.state.tag # "PermanentFailure" /\ Observable(s, now) /\ t = o
    BY <2>1, <2>3, ObserveKeeps, KeepsIsOK
  <2>4. CASE /\ Active(s) /\ Observable(s, now)
             /\ \E f, a, r : t = EnterCleanup(o, now, f, a, r).sup
    BY <2>1, <2>4, EnterCleanupKeeps, KeepsIsOK
  <2>5. CASE /\ s.state.tag = "CleaningUp" /\ Observable(s, now)
             /\ \E r : t = FinishCleanup(o, now, r).sup
    BY <2>1, <2>5, FinishCleanupKeeps, KeepsIsOK
  <2> QED BY <1>1, <2>2, <2>3, <2>4, <2>5
<1>2. ASSUME NEW expected PROVE OK(DeadlineElapsed(s, g, x, expected, now).sup)
  BY DEF DeadlineElapsed, Rejected, Active
<1>3. ASSUME NEW requested PROVE OK(CleanupFinished(s, g, x, now, requested).sup)
  BY DEF CleanupFinished, Rejected
<1> HIDE DEF OK
<1> QED BY <1>1, <1>2, <1>3

\* retire_active_fail_closed adds a record and stops for good.
LEMMA RetireStep ==
    ASSUME NEW s, SupervisorInv(s), NEW now \in U64, NEW g \in U64, NEW x \in U64,
           NEW kind, NEW cleanup
    PROVE  OrdinaryOK(s, RetireActiveFailClosed(s, g, x, now, kind, cleanup).sup)
<1> DEFINE o == Observe(s, now)
           rec == CleanupRecord(s, Failure(kind), now, cleanup)
           t == [o EXCEPT !.history = Append(@, rec),
                          !.state = PermanentFailure(Failure(kind), cleanup)]
<1>1. s \in Supervisors
  BY DEF SupervisorInv
<1>2. CASE RetireActiveFailClosed(s, g, x, now, kind, cleanup).sup = s
  BY <1>2, SameIsOK
<1>3. CASE /\ Active(s) /\ Observable(s, now)
           /\ RetireActiveFailClosed(s, g, x, now, kind, cleanup).sup = o
  BY <1>1, <1>3, ObserveKeeps, KeepsIsOK DEF Active
<1>4. CASE /\ Active(s) /\ Observable(s, now)
           /\ RetireActiveFailClosed(s, g, x, now, kind, cleanup).sup = t
  <2>2. /\ t.state.tag = "PermanentFailure" /\ t.history = Append(s.history, rec)
        /\ t.lastObserved = now /\ t.lastGeneration = s.lastGeneration
        /\ t.episodeStartedAt = s.episodeStartedAt
    BY <1>1 DEF PermanentFailure, Observe, Supervisors
  <2> HIDE DEF t, rec
  <2>3. Len(Append(s.history, rec)) = Len(s.history) + 1 /\ Len(s.history) \in Nat
    BY <1>1, SupervisorFields
  <2>4. Keeps(s, t)
    <3>1. RecordsOwed(t) = Len(s.history) + 1
      BY <2>2, <2>3 DEF RecordsOwed, Open, Active
    <3>2. RecordsOwed(s) <= RecordsOwed(t)
      BY <2>3, <3>1, OwedType
    <3>3. BudgetKept(s, t)
      BY <1>1, <2>2, <3>2, LongerHistoryKept
    <3> QED BY <1>4, <2>2, <3>3 DEF Keeps, Observable, Active
  <2> QED BY <1>1, <1>4, <2>4, KeepsIsOK
<1> QED BY <1>2, <1>3, <1>4 DEF RetireActiveFailClosed, Accepted, Rejected

\* admit_recovery renews the budget, of a Ready owner only, and fails that owner
\* under the generation it has.
LEMMA AdmitRecoveryStep ==
    ASSUME NEW s, SupervisorInv(s), NEW now \in U64, NEW g \in U64, NEW x \in U64,
           NEW kind
    PROVE  /\ StepOK(s, AdmitRecovery(s, g, x, now, kind).sup)
           /\ AdmitRecovery(s, g, x, now, kind).sup = s \/ s.state.tag = "Ready"
<1> DEFINE c == [s EXCEPT !.history = <<>>, !.episodeStartedAt = now,
                          !.state = Ready(1, g, x)]
           o == Observe(c, now)
           t == AdmitRecovery(s, g, x, now, kind).sup
           f == Failure(kind)
           a == FailureAction(c.state.tag, kind)
<1>1. s \in Supervisors
  BY DEF SupervisorInv
<1>2. CASE t = s
  BY <1>2, SameIsOK DEF OrdinaryOK
<1>3. CASE /\ s.state.tag = "Ready" /\ Current(s, g, x)
           /\ FailAttempt(c, g, x, now, kind).ok
           /\ t = FailAttempt(c, g, x, now, kind).sup
  <2>1. /\ c.lastObserved = s.lastObserved /\ c.lastGeneration = s.lastGeneration
        /\ c.state = Ready(1, g, x)
    BY <1>1 DEF Supervisors
  <2>2. /\ o.lastObserved = now /\ o.lastGeneration = s.lastGeneration
        /\ o.state.generation = g
    BY <1>1 DEF Supervisors, Observe, Ready
  <2> DEFINE u == EnterCleanup(o, now, f, a, TRUE)
  <2>3. Observable(c, now) /\ u.ok /\ t = u.sup
    BY <1>3 DEF FailAttempt, Rejected
  <2>4. /\ t.state.tag = "CleaningUp" /\ t.state.generation = g
        /\ t.lastObserved = now /\ t.lastGeneration = s.lastGeneration
    <3> DEFINE st == [tag |-> "CleaningUp", attempt |-> o.state.attempt,
                      generation |-> o.state.generation,
                      transaction |-> o.state.transaction, failure |-> f,
                      action |-> a, classifiedAt |-> now,
                      deadline |-> now + CleanupTimeoutNs, retry |-> TRUE]
    <3>1. u.sup = [o EXCEPT !.state = st]
      BY <2>3 DEF EnterCleanup, Accepted, Rejected
    <3>2. /\ [o EXCEPT !.state = st].state = st
          /\ [o EXCEPT !.state = st].lastObserved = o.lastObserved
          /\ [o EXCEPT !.state = st].lastGeneration = o.lastGeneration
      BY <1>1 DEF Supervisors, Observe
    <3> HIDE DEF u, t, o
    <3> QED BY <2>2, <2>3, <3>1, <3>2
  <2>5. now >= s.lastObserved /\ s.state.generation = g
    BY <1>3, <2>1, <2>3 DEF Observable, Current
  <2> HIDE DEF t, c
  <2>6. StepOK(s, t)
    BY <1>1, <1>3, <2>4, <2>5, SupervisorFields
    DEF StepOK, Forward, ReadyInTime
  <2> QED BY <1>3, <2>6 DEF t
<1>4. \/ t = s
      \/ /\ s.state.tag = "Ready" /\ Current(s, g, x)
         /\ FailAttempt(c, g, x, now, kind).ok
         /\ t = FailAttempt(c, g, x, now, kind).sup
  <2> HIDE DEF c
  <2>1. AdmitRecovery(s, g, x, now, kind) =
          IF /\ s.state.tag = "Ready" /\ Current(s, g, x)
             /\ Fits(now + RestartWindowNs) /\ FailAttempt(c, g, x, now, kind).ok
          THEN FailAttempt(c, g, x, now, kind)
          ELSE Rejected(s)
    BY DEF AdmitRecovery, c
  <2> QED BY <2>1 DEF Rejected
<1> QED BY <1>2, <1>3, <1>4

\* start_replacement opens the next attempt of the episode, under the generation
\* after the last one, or ends it when the window has closed.
LEMMA StartReplacementStep ==
    ASSUME NEW s, SupervisorInv(s), NEW now \in U64, NEW g \in U64, NEW x \in U64
    PROVE  OrdinaryOK(s, StartReplacement(s, now, g, x).sup)
<1> DEFINE o == Observe(s, now)
           p == [o EXCEPT !.state =
                    PermanentFailure(s.history[Len(s.history)].failure, "Complete")]
           t == OpenReplacement(s, now, g, x)
<1>1. s \in Supervisors /\ GenerationsOrdered(s)
  BY DEF SupervisorInv
<1>2. CASE StartReplacement(s, now, g, x).sup = s
  BY <1>2, SameIsOK
<1>3. CASE /\ s.state.tag = "Backoff" /\ Observable(s, now)
           /\ StartReplacement(s, now, g, x).sup \in {o, p}
  <2>1. Keeps(s, o)
    BY <1>1, <1>3, ObserveKeeps
  <2> DEFINE pf == PermanentFailure(s.history[Len(s.history)].failure, "Complete")
  <2>2. /\ pf.tag = "PermanentFailure" /\ p.state = pf /\ p.history = s.history
    BY <1>1 DEF PermanentFailure, Observe, Supervisors
  <2> HIDE DEF pf
  <2>3. Keeps(s, p)
    <3>1. RecordsOwed(p) = Len(s.history)
      BY <2>2 DEF RecordsOwed, Open, Active
    <3>2. RecordsOwed(s) <= RecordsOwed(p)
      BY <3>1, OwedType
    <3> QED BY <1>3, <2>2, <3>2, StateKeeps DEF pf
  <2> QED BY <1>1, <1>3, <2>1, <2>3, KeepsIsOK
<1>4. CASE /\ s.state.tag = "Backoff" /\ Observable(s, now)
           /\ g = s.state.nextGeneration
           /\ StartReplacement(s, now, g, x).sup = t
  <2>1. /\ t.state.tag = "Starting" /\ t.history = s.history
        /\ t.lastObserved = now /\ t.lastGeneration = g
        /\ t.episodeStartedAt = s.episodeStartedAt
        /\ t.state.attempt = s.state.nextAttempt
    BY <1>1 DEF OpenReplacement, Starting, Observe, Supervisors
  <2>2. g = s.lastGeneration + 1
    BY <1>1, <1>4 DEF GenerationsOrdered
  <2> HIDE DEF t
  <2>3. StepOK(s, t)
    BY <1>1, <1>4, <2>1, <2>2, SupervisorFields, PolicyAssumption
    DEF StepOK, Forward, ReadyInTime, Observable, U64
  <2>4. RecordsOwed(t) = RecordsOwed(s)
    BY <1>4, <2>1 DEF RecordsOwed, Open, Active
  <2>5. RecordsOwed(s) <= RecordsOwed(t)
    BY <2>4, OwedType
  <2>6. BudgetKept(s, t)
    BY <1>1, <2>1, <2>5, SameHistoryKept
  <2> QED BY <1>4, <2>3, <2>6 DEF OrdinaryOK
<1> QED BY <1>2, <1>3, <1>4 DEF StartReplacement, Accepted, Rejected

-----------------------------------------------------------------------------
(* The theorems                                                            *)

\* Every call but begin and admit_recovery also keeps the budget.
LEMMA OrdinaryStep == SupervisorInv(sup) /\ OrdinaryCall => OrdinaryOK(sup, sup')
<1> SUFFICES ASSUME SupervisorInv(sup), OrdinaryCall PROVE OrdinaryOK(sup, sup')
  OBVIOUS
<1> USE InputAssumption
<1>1. CASE child_started
  BY <1>1, ChildStartedStep DEF child_started
<1>2. CASE ready
  BY <1>2, ReceiveReadyStep DEF ready
<1>3. CASE fail_attempt
  BY <1>3, FailureStep DEF fail_attempt
<1>4. CASE retire_active_fail_closed
  BY <1>4, RetireStep DEF retire_active_fail_closed
<1>5. CASE terminal
  BY <1>5, FailureStep DEF terminal
<1>6. CASE deadline_elapsed
  BY <1>6, CleanupStep DEF deadline_elapsed
<1>7. CASE cancel
  BY <1>7, FailureStep DEF cancel
<1>8. CASE cleanup_complete
  BY <1>8, CleanupStep DEF cleanup_complete
<1>9. CASE cleanup_failed
  BY <1>9, CleanupStep DEF cleanup_failed
<1>10. CASE start_replacement
  BY <1>10, StartReplacementStep DEF start_replacement
<1> QED
  BY <1>1, <1>2, <1>3, <1>4, <1>5, <1>6, <1>7, <1>8, <1>9, <1>10
  DEF OrdinaryCall

\* Every step of a supervisor is harmless, whatever its caller passes, and a
\* step no ordinary call makes is a begin or an admit_recovery in its own state.
LEMMA NextStep ==
    ASSUME SupervisorInv(sup), [Next]_sup
    PROVE  /\ StepOK(sup, sup')
           /\ \/ OrdinaryOK(sup, sup')
              \/ /\ ~OrdinaryCall
                 /\ \/ begin /\ sup.state.tag = "Stopped"
                    \/ admit_recovery /\ sup.state.tag = "Ready"
<1> USE InputAssumption
<1>1. CASE OrdinaryCall
  BY <1>1, OrdinaryStep DEF OrdinaryOK
<1>2. CASE UNCHANGED sup
  BY <1>2, SameIsOK DEF OrdinaryOK
<1>3. CASE begin /\ ~OrdinaryCall
  <2>1. StepOK(sup, sup') /\ (sup' = sup \/ sup.state.tag = "Stopped")
    BY <1>3, BeginStep DEF begin
  <2> QED BY <1>2, <1>3, <2>1
<1>4. CASE admit_recovery /\ ~OrdinaryCall
  <2>1. StepOK(sup, sup') /\ (sup' = sup \/ sup.state.tag = "Ready")
    BY <1>4, AdmitRecoveryStep DEF admit_recovery
  <2> QED BY <1>2, <1>4, <2>1
<1> QED
  BY <1>1, <1>2, <1>3, <1>4 DEF Next, OrdinaryCall

\* No call takes the observed clock or the generation high-water mark back, and
\* PermanentFailure is final.
THEOREM ForwardOnly == Spec => OnlyForward
<1>1. IInv /\ [Next]_sup =>
        [/\ sup'.lastObserved >= sup.lastObserved
         /\ sup'.lastGeneration >= sup.lastGeneration
         /\ sup.state.tag = "PermanentFailure" => sup' = sup]_sup
  BY NextStep DEF IInv, StepOK, Forward
<1> QED BY <1>1, SupervisorSafe, PTL DEF Spec, OnlyForward

\* Only begin on a stopped supervisor and admit_recovery on a Ready owner renew
\* the attempt budget and the window; every other call keeps the records, the
\* window and the number of attempts already counted.
THEOREM BudgetIsKept == Spec => BudgetNeverRenewed
<1>1. IInv /\ [Next]_sup =>
        [\/ BudgetKept(sup, sup')
         \/ /\ ~OrdinaryCall
            /\ \/ begin /\ sup.state.tag = "Stopped"
               \/ admit_recovery /\ sup.state.tag = "Ready"]_sup
  BY NextStep DEF IInv, OrdinaryOK
<1> QED BY <1>1, SupervisorSafe, PTL DEF Spec, BudgetNeverRenewed

\* An attempt becomes Ready only from AwaitingReady, under its own identity and
\* before the deadline fixed when it was started.
THEOREM ReadyIsInTime == Spec => ReadyBeforeDeadline
<1>1. IInv /\ [Next]_sup =>
        [sup'.state.tag = "Ready" /\ sup.state.tag # "Ready" =>
           /\ sup.state.tag = "AwaitingReady"
           /\ sup'.state.generation = sup.state.generation
           /\ sup'.state.transaction = sup.state.transaction
           /\ sup'.lastObserved < sup.attemptStartedAt + ReadyTimeoutNs]_sup
  BY NextStep DEF IInv, StepOK, ReadyInTime
<1> QED BY <1>1, SupervisorSafe, PTL DEF Spec, ReadyBeforeDeadline
=============================================================================
