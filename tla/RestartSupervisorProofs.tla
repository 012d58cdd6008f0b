---------------------- MODULE RestartSupervisorProofs ----------------------
(***************************************************************************)
(* Proofs about RestartSupervisor for every policy the code accepts, every *)
(* width of its integers and every set of inputs.                          *)
(*                                                                         *)
(* SupervisorInv is inductive.  Its parts are the invariants of            *)
(* RestartSupervisor; they are proved together because they lean on each   *)
(* other: that a push finds a free slot needs the count of records, the    *)
(* count needs that no addition overflowed, which needs the order of the   *)
(* instants, and the order of recorded generations needs the count.  Each  *)
(* method observes the clock and then enters or finishes cleanup, so the   *)
(* work is in three lemmas about those helpers.                            *)
(***************************************************************************)
EXTENDS RestartSupervisor, TLAPS

SupervisorInv(s) ==
    /\ s \in Supervisors
    /\ OneRecordPerAttempt(s)
    /\ RecordsCleaned(s)
    /\ GenerationsOrdered(s)
    /\ InstantsOrdered(s)

-----------------------------------------------------------------------------
(* What the variants of RestartState carry                                 *)

\* The identity fields of an active state are values of their types.
LEMMA ActiveType ==
    ASSUME NEW s \in Supervisors, Active(s)
    PROVE  /\ s.state.attempt \in 1 .. MaxAttempts
           /\ s.state.generation \in U64
           /\ s.state.transaction \in U64
  BY DEF Active, Supervisors, RestartStates

\* The deadline of an attempt that is not READY yet is a clock value.
LEMMA DeadlineType ==
    ASSUME NEW s \in Supervisors,
           s.state.tag \in {"Starting", "AwaitingReady"}
    PROVE  s.state.deadline \in U64
  BY DEF Supervisors, RestartStates

\* The fields of a CleaningUp state are values of their types.
LEMMA CleaningUpType ==
    ASSUME NEW s \in Supervisors, s.state.tag = "CleaningUp"
    PROVE  /\ s.state.attempt \in 1 .. MaxAttempts
           /\ s.state.generation \in U64
           /\ s.state.transaction \in U64
           /\ s.state.failure \in AttemptFailures
           /\ s.state.classifiedAt \in U64
           /\ s.state.deadline \in U64
           /\ s.state.retry \in BOOLEAN
  BY DEF Supervisors, RestartStates

\* The fields of a Backoff state are values of their types.
LEMMA BackoffType ==
    ASSUME NEW s \in Supervisors, s.state.tag = "Backoff"
    PROVE  /\ s.state.nextAttempt \in 2 .. MaxAttempts
           /\ s.state.nextGeneration \in U64
           /\ s.state.deadline \in U64
  BY DEF Supervisors, RestartStates

\* The stopped state is one of the states.
LEMMA StoppedType == Stopped \in RestartStates /\ Stopped.tag = "Stopped"
  BY DEF Stopped, RestartStates

-----------------------------------------------------------------------------
(* Observing the clock                                                     *)

\* observe_time keeps the invariant: the headroom can only shrink.
LEMMA ObserveInv ==
    ASSUME NEW s, SupervisorInv(s), NEW now \in U64, Observable(s, now)
    PROVE  /\ SupervisorInv(Observe(s, now))
           /\ Observe(s, now).state = s.state
           /\ Observe(s, now).history = s.history
           /\ Observe(s, now).lastObserved = now
           /\ Active(s) <=> Active(Observe(s, now))
  <1> DEFINE t == Observe(s, now)
  <1>1. /\ t.state = s.state /\ t.history = s.history
        /\ t.episodeStartedAt = s.episodeStartedAt
        /\ t.attemptStartedAt = s.attemptStartedAt
        /\ t.lastGeneration = s.lastGeneration
        /\ t.lastObserved = now
        /\ t \in Supervisors
    BY DEF SupervisorInv, Supervisors, Observe
  <1> HIDE DEF t
  <1>2. s.lastObserved \in Nat /\ now \in Nat /\ now >= s.lastObserved
    BY PolicyAssumption DEF SupervisorInv, Supervisors, U64, Observable
  <1>3. ClockHasRoom(t) => ClockHasRoom(s)
    BY <1>1, <1>2, PolicyAssumption DEF ClockHasRoom, Fits
  <1>4. /\ Open(t) <=> Open(s)
        /\ Active(t) <=> Active(s)
        /\ RecordsOwed(t) = RecordsOwed(s)
    BY <1>1 DEF Open, Active, RecordsOwed
  <1>5. OneRecordPerAttempt(t)
    <2>1. ExactHistory(s) => ExactHistory(t)
      BY <1>1, <1>4 DEF ExactHistory
    <2>2. Stranded(s) => Stranded(t)
      BY <1>1, <1>2, PolicyAssumption DEF Stranded, Fits
    <2>. QED
      BY <1>1, <1>3, <1>4, <2>1, <2>2 DEF SupervisorInv, OneRecordPerAttempt
  <1>6. RecordsCleaned(t)
    BY <1>1 DEF SupervisorInv, RecordsCleaned
  <1>7. GenerationsOrdered(t)
    BY <1>1, <1>3, <1>4 DEF SupervisorInv, GenerationsOrdered
  <1>8. InstantsOrdered(t)
    <2>1. /\ s.episodeStartedAt \in Nat /\ s.attemptStartedAt \in Nat
          /\ s.state.tag = "CleaningUp" => s.state.classifiedAt \in Nat
      BY CleaningUpType DEF SupervisorInv, Supervisors, U64
    <2>. QED
      BY <1>1, <1>2, <1>4, <2>1 DEF SupervisorInv, InstantsOrdered
  <1>. QED BY <1>1, <1>4, <1>5, <1>6, <1>7, <1>8 DEF SupervisorInv, t

-----------------------------------------------------------------------------
(* Entering cleanup                                                        *)

\* enter_cleanup at the instant just observed keeps the invariant.
LEMMA EnterCleanupInv ==
    ASSUME NEW s, SupervisorInv(s), Active(s), NEW now, now = s.lastObserved,
           NEW failure \in AttemptFailures, NEW action \in CleanupActions,
           NEW retry \in BOOLEAN
    PROVE  SupervisorInv(EnterCleanup(s, now, failure, action, retry).sup)
  <1>1. CASE ~Fits(now + CleanupTimeoutNs)
    BY <1>1 DEF EnterCleanup, Rejected
  <1>2. CASE Fits(now + CleanupTimeoutNs)
    <2> DEFINE st == [tag |-> "CleaningUp", attempt |-> s.state.attempt,
                      generation |-> s.state.generation,
                      transaction |-> s.state.transaction,
                      failure |-> failure, action |-> action,
                      classifiedAt |-> now,
                      deadline |-> now + CleanupTimeoutNs, retry |-> retry]
               t == [s EXCEPT !.state = st]
    <2>1. s \in Supervisors /\ now \in U64
      BY DEF SupervisorInv, Supervisors
    <2>2. now + CleanupTimeoutNs \in U64
      BY <1>2, <2>1, PolicyAssumption DEF Fits, U64
    <2>3. st \in RestartStates
      BY <2>1, <2>2, ActiveType DEF RestartStates
    <2>4. /\ t \in Supervisors
          /\ t.state = st /\ t.history = s.history
          /\ t.episodeStartedAt = s.episodeStartedAt
          /\ t.attemptStartedAt = s.attemptStartedAt
          /\ t.lastGeneration = s.lastGeneration
          /\ t.lastObserved = s.lastObserved
      BY <2>1, <2>3 DEF Supervisors
    <2>5. /\ st.tag = "CleaningUp" /\ st.attempt = s.state.attempt
          /\ st.generation = s.state.generation /\ st.classifiedAt = now
      OBVIOUS
    <2> HIDE DEF t, st
    <2>6. /\ Open(t) /\ ~Active(t) /\ Open(s)
          /\ RecordsOwed(t) = RecordsOwed(s)
          /\ ClockHasRoom(t) <=> ClockHasRoom(s)
      BY <2>4, <2>5 DEF Open, Active, RecordsOwed, ClockHasRoom
    <2>7. OneRecordPerAttempt(t)
      <3>1. /\ ExactHistory(s) /\ RecordsOwed(s) = s.state.attempt - 1
            /\ Len(s.history) <= HistoryCapacity
            /\ s.state.attempt \in 1 .. MaxAttempts /\ Len(s.history) \in Nat
        BY <2>1, <2>6, ActiveType
        DEF SupervisorInv, OneRecordPerAttempt, RecordsOwed, Supervisors
      <3>2. ExactHistory(t)
        BY <2>4, <2>6, <3>1 DEF ExactHistory
      <3>3. \A i \in 1 .. Len(t.history) :
              t.history[i].attempt = i /\ i < t.state.attempt
        BY <2>4, <2>5, <3>1 DEF ExactHistory
      <3>4. RecordsOwed(t) = Len(t.history)
        BY <3>2 DEF ExactHistory
      <3>. QED
        BY <2>4, <2>6, <3>1, <3>2, <3>3, <3>4 DEF OneRecordPerAttempt
    <2>8. RecordsCleaned(t)
      BY <2>4 DEF SupervisorInv, RecordsCleaned, Active
    <2>9. GenerationsOrdered(t)
      BY <2>4, <2>5, <2>6 DEF SupervisorInv, GenerationsOrdered
    <2>10. InstantsOrdered(t)
      BY <2>1, <2>4, <2>5, <2>6, PolicyAssumption
      DEF SupervisorInv, InstantsOrdered, U64
    <2>11. SupervisorInv(t)
      BY <2>4, <2>7, <2>8, <2>9, <2>10 DEF SupervisorInv
    <2>. QED BY <1>2, <2>11 DEF EnterCleanup, Accepted, t, st
  <1>. QED BY <1>1, <1>2

-----------------------------------------------------------------------------
(* Finishing cleanup                                                       *)

\* The record finish_cleanup pushes, and the supervisor right after the push.
Record(s, now, requested) ==
    CleanupRecord(s, s.state.failure, s.state.classifiedAt,
                  CleanupVerdict(s, now, requested))

Pushed(s, now, requested) ==
    [s EXCEPT !.history = Append(@, Record(s, now, requested))]

\* What the push leaves behind: everything but the history is untouched, and
\* the new record closes the open attempt.
LEMMA PushFacts ==
    ASSUME NEW s, SupervisorInv(s), s.state.tag = "CleaningUp",
           NEW now \in U64, NEW requested \in CleanupDispositions
    PROVE  LET r == Record(s, now, requested)
               t == Pushed(s, now, requested)
           IN  /\ r \in AttemptRecords
               /\ r.attempt = s.state.attempt
               /\ r.generation = s.state.generation
               /\ r.terminalAt = s.state.classifiedAt
               /\ r.cleanup = CleanupVerdict(s, now, requested)
               /\ t \in Supervisors
               /\ t.state = s.state
               /\ t.history = Append(s.history, r)
               /\ t.episodeStartedAt = s.episodeStartedAt
               /\ t.attemptStartedAt = s.attemptStartedAt
               /\ t.lastGeneration = s.lastGeneration
               /\ t.lastObserved = s.lastObserved
               /\ Len(t.history) = Len(s.history) + 1
               /\ t.history[Len(t.history)] = r
               /\ \A i \in 1 .. Len(s.history) : t.history[i] = s.history[i]
  <1> DEFINE r == Record(s, now, requested)
             t == Pushed(s, now, requested)
  <1>1. s \in Supervisors /\ s.history \in Seq(AttemptRecords)
    BY DEF SupervisorInv, Supervisors
  <1>2. CleanupVerdict(s, now, requested) \in CleanupDispositions
    BY DEF CleanupVerdict, CleanupDispositions
  <1>3. /\ r \in AttemptRecords
        /\ r.attempt = s.state.attempt
        /\ r.generation = s.state.generation
        /\ r.terminalAt = s.state.classifiedAt
        /\ r.cleanup = CleanupVerdict(s, now, requested)
    BY <1>1, <1>2, CleaningUpType
    DEF Record, CleanupRecord, AttemptRecords, Supervisors
  <1> HIDE DEF r
  <1>4. Append(s.history, r) \in Seq(AttemptRecords)
    BY <1>1, <1>3
  <1>5. /\ t \in Supervisors
        /\ t.state = s.state
        /\ t.history = Append(s.history, r)
        /\ t.episodeStartedAt = s.episodeStartedAt
        /\ t.attemptStartedAt = s.attemptStartedAt
        /\ t.lastGeneration = s.lastGeneration
        /\ t.lastObserved = s.lastObserved
    BY <1>1, <1>4 DEF Pushed, Supervisors, r
  <1> HIDE DEF t
  <1>6. /\ Len(t.history) = Len(s.history) + 1
        /\ t.history[Len(t.history)] = r
        /\ \A i \in 1 .. Len(s.history) : t.history[i] = s.history[i]
    BY <1>1, <1>3, <1>5
  <1>. QED BY <1>3, <1>5, <1>6 DEF r, t

\* Closing the attempt: the push followed by Stopped, PermanentFailure or
\* Backoff keeps the invariant.
LEMMA CloseInv ==
    ASSUME NEW s, SupervisorInv(s), s.state.tag = "CleaningUp",
           NEW now, now = s.lastObserved,
           NEW requested \in CleanupDispositions,
           Len(s.history) < HistoryCapacity,
           NEW st \in RestartStates,
           \/ st.tag = "PermanentFailure"
           \/ st.tag = "Stopped" /\ CleanupVerdict(s, now, requested) = "Complete"
           \/ /\ st.tag = "Backoff"
              /\ CleanupVerdict(s, now, requested) = "Complete"
              /\ st.nextAttempt = s.state.attempt + 1
              /\ st.nextGeneration = s.state.generation + 1
              /\ st.deadline = now + BackoffNs
              /\ Fits(now + BackoffNs)
              /\ Fits(s.episodeStartedAt + RestartWindowNs)
    PROVE  SupervisorInv([Pushed(s, now, requested) EXCEPT !.state = st])
  <1> DEFINE r == Record(s, now, requested)
             t == Pushed(s, now, requested)
             u == [t EXCEPT !.state = st]
  <1>1. s \in Supervisors /\ now \in U64
    BY DEF SupervisorInv, Supervisors
  <1>2. /\ s.state.attempt \in 1 .. MaxAttempts /\ s.state.generation \in U64
        /\ s.state.classifiedAt \in U64
        /\ Len(s.history) \in Nat /\ s.lastGeneration \in U64
        /\ s.history \in Seq(AttemptRecords)
    BY <1>1, CleaningUpType DEF Supervisors
  <1>3. /\ r \in AttemptRecords
        /\ r.attempt = s.state.attempt
        /\ r.generation = s.state.generation
        /\ r.terminalAt = s.state.classifiedAt
        /\ r.cleanup = CleanupVerdict(s, now, requested)
        /\ t \in Supervisors
        /\ t.history = Append(s.history, r)
        /\ t.episodeStartedAt = s.episodeStartedAt
        /\ t.attemptStartedAt = s.attemptStartedAt
        /\ t.lastGeneration = s.lastGeneration
        /\ t.lastObserved = s.lastObserved
        /\ Len(t.history) = Len(s.history) + 1
        /\ t.history[Len(t.history)] = r
        /\ \A i \in 1 .. Len(s.history) : t.history[i] = s.history[i]
    BY <1>1, PushFacts
  <1> HIDE DEF r, t
  <1>4. /\ u \in Supervisors
        /\ u.state = st
        /\ u.history = t.history
        /\ u.episodeStartedAt = s.episodeStartedAt
        /\ u.attemptStartedAt = s.attemptStartedAt
        /\ u.lastGeneration = s.lastGeneration
        /\ u.lastObserved = s.lastObserved
    BY <1>3 DEF Supervisors
  <1> HIDE DEF u
  <1>5. /\ ~Open(u) /\ ~Active(u) /\ Open(s) /\ ~Active(s)
        /\ ClockHasRoom(u) <=> ClockHasRoom(s)
        /\ RecordsOwed(s) = s.state.attempt - 1
    BY <1>4 DEF Open, Active, ClockHasRoom, RecordsOwed
  <1>6. \A i \in 1 .. Len(s.history) : s.history[i] \in AttemptRecords
    BY <1>2
  <1>7. OneRecordPerAttempt(u)
    <2>1. RecordsOwed(u) = IF st.tag = "Backoff" THEN s.state.attempt
                           ELSE Len(u.history)
      BY <1>2, <1>4, <1>5 DEF RecordsOwed
    <2>2. Len(u.history) = Len(s.history) + 1
      BY <1>3, <1>4
    <2>3. /\ Len(s.history) >= s.state.attempt - 1
          /\ \A i \in 1 .. Len(s.history) :
                s.history[i].attempt = IF i < s.state.attempt THEN i
                                       ELSE s.state.attempt
          /\ s.state.attempt - 1 < Len(s.history) => Stranded(s)
          /\ ClockHasRoom(s) => Len(s.history) = s.state.attempt - 1
      BY <1>5 DEF SupervisorInv, OneRecordPerAttempt, ExactHistory
    <2>4. ASSUME st.tag = "Backoff" \/ ClockHasRoom(u)
          PROVE  ExactHistory(u)
      <3>1. Len(s.history) = s.state.attempt - 1
        BY <1>2, <1>5, <2>3, <2>4 DEF Stranded
      <3>2. \A i \in 1 .. Len(s.history) : u.history[i].attempt = i
        BY <1>2, <1>3, <1>4, <2>3, <3>1
      <3>3. /\ Len(u.history) = s.state.attempt
            /\ u.history[Len(u.history)].attempt = Len(u.history)
        BY <1>2, <1>3, <1>4, <2>2, <3>1
      <3>4. /\ Len(u.history) = RecordsOwed(u)
            /\ Len(u.history) <= MaxAttempts
        BY <1>2, <2>1, <3>3, PolicyAssumption
      <3>5. \A i \in 1 .. Len(u.history) :
              i \in 1 .. Len(s.history) \/ i = Len(u.history)
        BY <1>2, <2>2
      <3>. QED BY <3>2, <3>3, <3>4, <3>5, Zenon DEF ExactHistory
    <2>5. RecordsOwed(u) = Len(u.history)
      BY <2>1, <2>4 DEF ExactHistory
    <2>6. Len(u.history) <= HistoryCapacity /\ Len(u.history) \in Nat
      BY <1>2, <2>2, PolicyAssumption
    <2>. QED BY <1>4, <1>5, <2>4, <2>5, <2>6 DEF OneRecordPerAttempt
  <1>8. RecordsCleaned(u)
    BY <1>2, <1>3, <1>4 DEF SupervisorInv, RecordsCleaned
  <1>9. GenerationsOrdered(u)
    <2>1. /\ s.state.generation = s.lastGeneration
          /\ \A i \in 1 .. Len(s.history) :
                s.history[i].generation <= s.lastGeneration
          /\ ClockHasRoom(s) =>
                /\ \A i \in 1 .. Len(s.history) :
                      s.history[i].generation < s.lastGeneration
                /\ \A i, j \in 1 .. Len(s.history) :
                      i < j => s.history[i].generation < s.history[j].generation
      BY <1>5 DEF SupervisorInv, GenerationsOrdered
    <2>2. \A i \in 1 .. Len(u.history) :
            u.history[i].generation <= u.lastGeneration
      BY <1>2, <1>3, <1>4, <2>1 DEF U64
    <2>3. ClockHasRoom(u) =>
            \A i, j \in 1 .. Len(u.history) :
              i < j => u.history[i].generation < u.history[j].generation
      BY <1>2, <1>3, <1>4, <1>5, <2>1 DEF U64
    <2>4. u.state.tag = "Backoff" =>
            u.state.nextGeneration = u.lastGeneration + 1
      BY <1>4, <2>1
    <2>. QED BY <1>5, <2>2, <2>3, <2>4 DEF GenerationsOrdered
  <1>10. InstantsOrdered(u)
    <2>1. /\ s.episodeStartedAt <= s.lastObserved
          /\ s.attemptStartedAt <= s.lastObserved
          /\ s.state.classifiedAt <= s.lastObserved
      BY DEF SupervisorInv, InstantsOrdered
    <2>2. u.state.tag = "Backoff" =>
            u.state.deadline >= u.history[Len(u.history)].terminalAt + BackoffNs
      <3>1. u.history[Len(u.history)].terminalAt = s.state.classifiedAt
        BY <1>3, <1>4, Zenon
      <3>2. /\ s.state.classifiedAt + BackoffNs <= now + BackoffNs
            /\ s.state.classifiedAt \in Nat /\ now \in Nat /\ BackoffNs \in Nat
        BY <1>1, <1>2, <2>1, PolicyAssumption DEF U64
      <3>3. u.state.tag = "Backoff" => u.state.deadline = now + BackoffNs
        BY <1>4, Zenon
      <3>. QED BY <3>1, <3>2, <3>3
    <2>. QED BY <1>4, <1>5, <2>1, <2>2 DEF InstantsOrdered
  <1>. QED BY <1>4, <1>7, <1>8, <1>9, <1>10 DEF SupervisorInv, u, t

\* The push alone, when the additions after it overflow: the attempt stays
\* open, already recorded, and the clock has no room left.
LEMMA OverflowInv ==
    ASSUME NEW s, SupervisorInv(s), s.state.tag = "CleaningUp",
           NEW now, now = s.lastObserved,
           NEW requested \in CleanupDispositions,
           CleanupVerdict(s, now, requested) = "Complete",
           Len(s.history) < HistoryCapacity, s.state.retry,
           ~Fits(now + BackoffNs) \/ ~Fits(s.episodeStartedAt + RestartWindowNs)
    PROVE  SupervisorInv(Pushed(s, now, requested))
  <1> DEFINE r == Record(s, now, requested)
             t == Pushed(s, now, requested)
  <1>1. s \in Supervisors /\ now \in U64
    BY DEF SupervisorInv, Supervisors
  <1>2. /\ Len(s.history) \in Nat /\ s.lastGeneration \in U64
        /\ s.episodeStartedAt \in U64
        /\ s.state.attempt \in 1 .. MaxAttempts /\ s.state.generation \in U64
        /\ s.history \in Seq(AttemptRecords)
    BY <1>1, CleaningUpType DEF Supervisors
  <1>3. /\ r.generation = s.state.generation
        /\ r.attempt = s.state.attempt
        /\ r.cleanup = "Complete"
        /\ t \in Supervisors
        /\ t.state = s.state
        /\ t.episodeStartedAt = s.episodeStartedAt
        /\ t.attemptStartedAt = s.attemptStartedAt
        /\ t.lastGeneration = s.lastGeneration
        /\ t.lastObserved = s.lastObserved
        /\ Len(t.history) = Len(s.history) + 1
        /\ t.history[Len(t.history)] = r
        /\ \A i \in 1 .. Len(s.history) : t.history[i] = s.history[i]
    BY <1>1, PushFacts
  <1> HIDE DEF r, t
  <1>4. /\ Open(t) /\ ~Active(t) /\ Open(s)
        /\ RecordsOwed(t) = s.state.attempt - 1
        /\ RecordsOwed(s) = s.state.attempt - 1
    BY <1>3 DEF Open, Active, RecordsOwed
  <1>5. ~ClockHasRoom(t)
    BY <1>1, <1>2, <1>3, PolicyAssumption
    DEF ClockHasRoom, Fits, SupervisorInv, InstantsOrdered, U64
  <1>6. OneRecordPerAttempt(t)
    <2>1. /\ s.state.attempt - 1 <= Len(s.history)
          /\ \A i \in 1 .. Len(s.history) :
                s.history[i].attempt = IF i < s.state.attempt THEN i
                                       ELSE s.state.attempt
      BY <1>4 DEF SupervisorInv, OneRecordPerAttempt
    <2>2. Stranded(t)
      BY <1>3 DEF Stranded
    <2>3. /\ RecordsOwed(t) <= Len(t.history)
          /\ Len(t.history) <= HistoryCapacity
      BY <1>2, <1>3, <1>4, <2>1, PolicyAssumption
    <2>4. \A i \in 1 .. Len(t.history) :
            i \in 1 .. Len(s.history) \/ i = Len(t.history)
      BY <1>2, <1>3
    <2>5. ~(Len(t.history) < t.state.attempt)
      BY <1>2, <1>3, <2>1
    <2>6. \A i \in 1 .. Len(t.history) :
            t.history[i].attempt = IF i < t.state.attempt THEN i
                                   ELSE t.state.attempt
      <3>1. /\ t.history[Len(t.history)].attempt = t.state.attempt
            /\ t.state.attempt = s.state.attempt
        BY <1>3
      <3>2. \A i \in 1 .. Len(s.history) :
              t.history[i].attempt = IF i < t.state.attempt THEN i
                                     ELSE t.state.attempt
        BY <1>3, <2>1
      <3>. QED BY <2>4, <2>5, <3>1, <3>2
    <2>. QED
      BY <1>3, <1>4, <1>5, <2>2, <2>3, <2>6 DEF OneRecordPerAttempt, Active
  <1>7. RecordsCleaned(t)
    BY <1>2, <1>3 DEF SupervisorInv, RecordsCleaned
  <1>8. GenerationsOrdered(t)
    <2>1. /\ s.state.generation = s.lastGeneration
          /\ \A i \in 1 .. Len(s.history) :
                s.history[i].generation <= s.lastGeneration
      BY <1>4 DEF SupervisorInv, GenerationsOrdered
    <2>2. \A i \in 1 .. Len(t.history) :
            t.history[i].generation <= t.lastGeneration
      <3>1. SUFFICES ASSUME NEW i \in 1 .. Len(t.history)
                     PROVE  t.history[i].generation <= s.lastGeneration
        BY <1>3
      <3>2. CASE i = Len(t.history)
        <4>1. t.history[i].generation = s.lastGeneration
          BY <1>3, <2>1, <3>2, Zenon
        <4>2. s.lastGeneration <= s.lastGeneration
          BY <1>2, PolicyAssumption DEF U64
        <4>. QED BY <4>1, <4>2, Zenon
      <3>3. CASE i # Len(t.history)
        <4>1. i \in 1 .. Len(s.history)
          <5>1. Len(t.history) = Len(s.history) + 1
            BY <1>3, Zenon
          <5>. QED BY <1>2, <3>1, <3>3, <5>1
        <4>. QED BY <1>3, <2>1, <4>1, Zenon
      <3>. QED BY <3>2, <3>3
    <2>. QED BY <1>3, <1>4, <1>5, <2>1, <2>2 DEF GenerationsOrdered
  <1>9. InstantsOrdered(t)
    BY <1>3, <1>4 DEF SupervisorInv, InstantsOrdered
  <1>. QED BY <1>3, <1>6, <1>7, <1>8, <1>9 DEF SupervisorInv, t

\* finish_cleanup at the instant just observed keeps the invariant.
LEMMA FinishCleanupInv ==
    ASSUME NEW s, SupervisorInv(s), s.state.tag = "CleaningUp",
           NEW now, now = s.lastObserved,
           NEW requested \in CleanupDispositions
    PROVE  SupervisorInv(FinishCleanup(s, now, requested).sup)
  <1> DEFINE verdict == CleanupVerdict(s, now, requested)
             permanent == PermanentFailure(s.state.failure, verdict)
             next == Backoff(s.state.attempt + 1, s.state.generation + 1,
                             now + BackoffNs)
             Closed(st) == [Pushed(s, now, requested) EXCEPT !.state = st]
             backoffEnd == now + BackoffNs
             windowEnd == s.episodeStartedAt + RestartWindowNs
  <1>1. /\ s \in Supervisors /\ now \in U64
        /\ s.state.attempt \in 1 .. MaxAttempts /\ s.state.generation \in U64
        /\ s.state.failure \in AttemptFailures /\ s.state.retry \in BOOLEAN
    BY CleaningUpType DEF SupervisorInv, Supervisors
  <1>2. verdict \in CleanupDispositions
    BY DEF CleanupVerdict, CleanupDispositions
  <1>a. Len(s.history) \in Nat /\ HistoryCapacity \in Nat
    BY <1>1, PolicyAssumption DEF Supervisors
  <1>b. CASE Len(s.history) >= HistoryCapacity
    BY <1>b DEF FinishCleanup, Rejected
  <1> SUFFICES ASSUME Len(s.history) < HistoryCapacity
               PROVE  SupervisorInv(FinishCleanup(s, now, requested).sup)
    BY <1>a, <1>b
  <1>3. SupervisorInv(Closed(permanent))
    <2>1. permanent \in RestartStates /\ permanent.tag = "PermanentFailure"
      BY <1>1, <1>2 DEF PermanentFailure, RestartStates
    <2> HIDE DEF permanent
    <2>. QED BY <2>1, CloseInv, SMT
  <1>4. ASSUME verdict = "Complete" PROVE SupervisorInv(Closed(Stopped))
    BY <1>4, StoppedType, CloseInv, SMT
  <1>5. ASSUME verdict = "Complete", ~BudgetSpent(s),
               Fits(backoffEnd), Fits(windowEnd)
        PROVE  SupervisorInv(Closed(next))
    <2>1. /\ s.state.attempt + 1 \in 2 .. MaxAttempts
          /\ s.state.generation + 1 \in U64
          /\ backoffEnd \in U64
      <3>1. s.state.attempt + 1 <= MaxAttempts /\ s.state.generation # U64Max
        <4>1. ~(s.state.attempt + 1 > MaxAttempts) /\ s.state.generation # U64Max
          BY <1>5, Zenon DEF BudgetSpent
        <4>. QED BY <1>1, <4>1, PolicyAssumption
      <3>2. backoffEnd <= U64Max
        BY <1>5, Zenon DEF Fits
      <3>3. backoffEnd \in U64
        BY <1>1, <3>2, PolicyAssumption DEF U64
      <3>4. s.state.attempt + 1 \in 2 .. MaxAttempts
        BY <1>1, <3>1, PolicyAssumption
      <3>5. s.state.generation + 1 \in U64
        BY <1>1, <3>1, PolicyAssumption DEF U64
      <3>. QED BY <3>3, <3>4, <3>5
    <2>2. /\ next \in RestartStates /\ next.tag = "Backoff"
          /\ next.nextAttempt = s.state.attempt + 1
          /\ next.nextGeneration = s.state.generation + 1
          /\ next.deadline = now + BackoffNs
      BY <2>1 DEF Backoff, RestartStates
    <2> HIDE DEF next
    <2>. QED BY <1>5, <2>2, CloseInv, SMT
  <1>6. ASSUME verdict = "Complete", s.state.retry,
               ~Fits(backoffEnd) \/ ~Fits(windowEnd)
        PROVE  SupervisorInv(Pushed(s, now, requested))
    BY <1>6, OverflowInv, SMT
  <1>7. FinishCleanup(s, now, requested).sup =
          IF Len(s.history) >= HistoryCapacity THEN s
          ELSE IF verdict = "Failed" THEN Closed(permanent)
          ELSE IF ~s.state.retry THEN Closed(Stopped)
          ELSE IF BudgetSpent(s) THEN Closed(permanent)
          ELSE IF ~Fits(backoffEnd) \/ ~Fits(windowEnd)
          THEN Pushed(s, now, requested)
          ELSE IF backoffEnd > windowEnd THEN Closed(permanent)
          ELSE Closed(next)
    BY Zenon DEF FinishCleanup, Accepted, Rejected, Pushed, Record
  <1> HIDE DEF verdict, permanent, next, Closed, backoffEnd, windowEnd
  <1>8. verdict = "Failed" \/ verdict = "Complete"
    BY <1>2 DEF CleanupDispositions
  <1>9. ~(Len(s.history) >= HistoryCapacity)
    BY <1>a
  <1>. QED BY <1>3, <1>4, <1>5, <1>6, <1>7, <1>8, <1>9, Zenon

-----------------------------------------------------------------------------
(* The methods                                                             *)

\* The plain failures and the exit failures are attempt failures.
LEMMA FailureTypes ==
    /\ \A kind \in PlainFailures : Failure(kind) \in AttemptFailures
    /\ \A kind \in {"ExitBeforeReady", "ExitAfterReady"},
          exit \in TerminalDispositions :
            ExitFailure(kind, exit) \in AttemptFailures
  BY DEF Failure, ExitFailure, AttemptFailures

\* begin starts a fresh episode: empty history, first attempt.
LEMMA BeginInv ==
    ASSUME NEW s, SupervisorInv(s), NEW now \in U64, NEW g \in U64,
           NEW x \in U64
    PROVE  SupervisorInv(Begin(s, now, g, x).sup)
  <1> DEFINE st == Starting(1, g, x, now + ReadyTimeoutNs)
             t == [state |-> st, history |-> <<>>, episodeStartedAt |-> now,
                   attemptStartedAt |-> now, lastObserved |-> now,
                   lastGeneration |-> g]
  <1>1. CASE Begin(s, now, g, x).sup = s
    BY <1>1
  <1>2. CASE Begin(s, now, g, x).sup = t /\ Fits(now + ReadyTimeoutNs)
    <2>1. now + ReadyTimeoutNs \in U64
      BY <1>2, PolicyAssumption DEF Fits, U64
    <2>2. /\ st \in RestartStates /\ st.tag = "Starting" /\ st.attempt = 1
          /\ st.generation = g /\ st.deadline = now + ReadyTimeoutNs
      BY <2>1, PolicyAssumption DEF Starting, RestartStates
    <2> HIDE DEF st
    <2>3. t \in Supervisors
      BY <2>2 DEF Supervisors
    <2>4. /\ t.state = st /\ t.history = <<>> /\ Len(t.history) = 0
          /\ t.episodeStartedAt = now /\ t.attemptStartedAt = now
          /\ t.lastObserved = now /\ t.lastGeneration = g
      OBVIOUS
    <2> HIDE DEF t
    <2>5. RecordsOwed(t) = 0
      BY <2>2, <2>4 DEF RecordsOwed, Open, Active
    <2>6. OneRecordPerAttempt(t)
      BY <2>2, <2>4, <2>5, PolicyAssumption DEF OneRecordPerAttempt, ExactHistory
    <2>7. RecordsCleaned(t) /\ GenerationsOrdered(t)
      BY <2>2, <2>4 DEF RecordsCleaned, GenerationsOrdered, Open, Active
    <2>8. InstantsOrdered(t)
      BY <2>2, <2>4 DEF InstantsOrdered, Active, U64
    <2>. QED BY <1>2, <2>3, <2>6, <2>7, <2>8 DEF SupervisorInv
  <1>. QED BY <1>1, <1>2 DEF Begin, Accepted, Rejected

\* Moving between the active states of one attempt keeps the invariant.
LEMMA SameAttemptInv ==
    ASSUME NEW s, SupervisorInv(s), Active(s), NEW st \in RestartStates,
           st.tag \in {"AwaitingReady", "Ready"},
           st.attempt = s.state.attempt,
           st.generation = s.state.generation,
           st.tag = "AwaitingReady" =>
               st.deadline = s.attemptStartedAt + ReadyTimeoutNs
    PROVE  SupervisorInv([s EXCEPT !.state = st])
  <1> DEFINE t == [s EXCEPT !.state = st]
  <1>1. /\ t \in Supervisors
        /\ t.state = st /\ t.history = s.history
        /\ t.episodeStartedAt = s.episodeStartedAt
        /\ t.attemptStartedAt = s.attemptStartedAt
        /\ t.lastGeneration = s.lastGeneration
        /\ t.lastObserved = s.lastObserved
    BY DEF SupervisorInv, Supervisors
  <1> HIDE DEF t
  <1>2. /\ Active(t) /\ Open(t) /\ Open(s)
        /\ RecordsOwed(t) = RecordsOwed(s)
        /\ ClockHasRoom(t) <=> ClockHasRoom(s)
    BY <1>1 DEF Open, Active, RecordsOwed, ClockHasRoom
  <1>3. OneRecordPerAttempt(t)
    <2>1. ExactHistory(t) /\ RecordsOwed(t) = Len(t.history)
      BY <1>1, <1>2 DEF SupervisorInv, OneRecordPerAttempt, ExactHistory
    <2>2. Len(t.history) \in Nat /\ Len(t.history) <= HistoryCapacity
      BY <1>1 DEF SupervisorInv, OneRecordPerAttempt, Supervisors
    <2>. QED BY <1>1, <2>1, <2>2 DEF OneRecordPerAttempt
  <1>4. RecordsCleaned(t)
    BY <1>1 DEF SupervisorInv, RecordsCleaned, Active
  <1>5. GenerationsOrdered(t)
    BY <1>1, <1>2 DEF SupervisorInv, GenerationsOrdered
  <1>6. InstantsOrdered(t)
    BY <1>1, <1>2 DEF SupervisorInv, InstantsOrdered
  <1>. QED BY <1>1, <1>3, <1>4, <1>5, <1>6 DEF SupervisorInv, t

\* A late or foreign READY, or a late start, is classified and cleaned up.
LEMMA AttemptFailedInv ==
    ASSUME NEW s, SupervisorInv(s), Active(s), NEW now, now = s.lastObserved,
           NEW kind \in PlainFailures
    PROVE  SupervisorInv(AttemptFailed(s, now, kind).sup)
  <1>1. Failure(kind) \in AttemptFailures
    BY FailureTypes
  <1>2. "TerminateTaskGroup" \in CleanupActions
    BY DEF CleanupActions
  <1>3. SupervisorInv(EnterCleanup(s, now, Failure(kind), "TerminateTaskGroup",
                                   TRUE).sup)
    BY <1>1, <1>2, EnterCleanupInv
  <1>. QED BY <1>3 DEF AttemptFailed, Rejected

\* child_started keeps the invariant: the attempt goes on with its deadline, or
\* is late and enters cleanup.
LEMMA ChildStartedInv ==
    ASSUME NEW s, SupervisorInv(s), NEW now \in U64, NEW g \in U64,
           NEW x \in U64
    PROVE  SupervisorInv(ChildStarted(s, g, x, now).sup)
  <1> DEFINE o == Observe(s, now)
             st == AwaitingReady(s.state.attempt, g, x, s.state.deadline)
  <1>1. CASE ~(s.state.tag = "Starting" /\ Current(s, g, x) /\ Observable(s, now))
    BY <1>1 DEF ChildStarted, Rejected
  <1>2. CASE s.state.tag = "Starting" /\ Current(s, g, x) /\ Observable(s, now)
    <2>1. /\ SupervisorInv(o) /\ o.state = s.state /\ o.lastObserved = now
          /\ Active(o) /\ Active(s)
      BY <1>2, ObserveInv DEF Active
    <2>2. o.attemptStartedAt = s.attemptStartedAt
      BY DEF Observe, SupervisorInv, Supervisors
    <2> HIDE DEF o
    <2>3. SupervisorInv(AttemptFailed(o, now, "ReadyTimeout").sup)
      <3>1. "ReadyTimeout" \in PlainFailures
        BY DEF PlainFailures
      <3>. QED BY <2>1, <3>1, AttemptFailedInv
    <2>4. SupervisorInv([o EXCEPT !.state = st])
      <3>1. /\ s.state.attempt \in 1 .. MaxAttempts
            /\ s.state.deadline \in U64
        BY <1>2, <2>1, ActiveType, DeadlineType DEF SupervisorInv
      <3>2. s.state.deadline = s.attemptStartedAt + ReadyTimeoutNs
        BY <1>2 DEF SupervisorInv, InstantsOrdered
      <3>3. /\ st \in RestartStates /\ st.tag = "AwaitingReady"
            /\ st.attempt = o.state.attempt
            /\ st.generation = o.state.generation
            /\ st.deadline = o.attemptStartedAt + ReadyTimeoutNs
        BY <1>2, <2>1, <2>2, <3>1, <3>2
        DEF AwaitingReady, RestartStates, Current
      <3> HIDE DEF st
      <3>. QED BY <2>1, <3>3, SameAttemptInv
    <2>. QED BY <1>2, <2>3, <2>4 DEF ChildStarted, Accepted, o
  <1>. QED BY <1>1, <1>2

\* ready keeps the invariant: the attempt becomes Ready, or the READY is late
\* or foreign and it enters cleanup.
LEMMA ReceiveReadyInv ==
    ASSUME NEW s, SupervisorInv(s), NEW now \in U64, NEW g \in U64,
           NEW x \in U64
    PROVE  SupervisorInv(ReceiveReady(s, g, x, now).sup)
  <1> DEFINE o == Observe(s, now)
             st == Ready(s.state.attempt, g, x)
             Fresh == /\ s.state.tag = "AwaitingReady" /\ g # 0 /\ x # 0
                      /\ g = s.state.generation /\ Observable(s, now)
  <1>1. CASE ~Fresh
    BY <1>1 DEF ReceiveReady, Rejected
  <1>2. CASE Fresh
    <2>1. /\ SupervisorInv(o) /\ o.state = s.state /\ o.lastObserved = now
          /\ Active(o) /\ Active(s)
      BY <1>2, ObserveInv DEF Active
    <2> HIDE DEF o
    <2>2. /\ SupervisorInv(AttemptFailed(o, now, "ReadyTimeout").sup)
          /\ SupervisorInv(AttemptFailed(o, now, "WrongTransactionReady").sup)
      <3>1. "ReadyTimeout" \in PlainFailures /\ "WrongTransactionReady" \in PlainFailures
        BY DEF PlainFailures
      <3>. QED BY <2>1, <3>1, AttemptFailedInv
    <2>3. SupervisorInv([o EXCEPT !.state = st])
      <3>1. s.state.attempt \in 1 .. MaxAttempts
        BY <2>1, ActiveType DEF SupervisorInv
      <3>2. /\ st \in RestartStates /\ st.tag = "Ready"
            /\ st.attempt = o.state.attempt
            /\ st.generation = o.state.generation
        BY <1>2, <2>1, <3>1 DEF Ready, RestartStates
      <3> HIDE DEF st
      <3>. QED BY <2>1, <3>2, SameAttemptInv
    <2>. QED BY <1>2, <2>2, <2>3 DEF ReceiveReady, Accepted, o
  <1>. QED BY <1>1, <1>2

\* fail_attempt keeps the invariant.
LEMMA FailAttemptInv ==
    ASSUME NEW s, SupervisorInv(s), NEW now \in U64, NEW g \in U64,
           NEW x \in U64, NEW kind \in PlainFailures
    PROVE  SupervisorInv(FailAttempt(s, g, x, now, kind).sup)
  <1> DEFINE o == Observe(s, now)
             action == FailureAction(s.state.tag, kind)
  <1>1. CASE ~(Active(s) /\ Current(s, g, x) /\ Observable(s, now))
    BY <1>1 DEF FailAttempt, Rejected
  <1>2. CASE Active(s) /\ Current(s, g, x) /\ Observable(s, now)
    <2>1. SupervisorInv(o) /\ Active(o) /\ o.lastObserved = now
      BY <1>2, ObserveInv
    <2>2. Failure(kind) \in AttemptFailures /\ action \in CleanupActions
      BY FailureTypes DEF FailureAction, CleanupActions
    <2> HIDE DEF o, action
    <2>3. SupervisorInv(EnterCleanup(o, now, Failure(kind), action, TRUE).sup)
      BY <2>1, <2>2, EnterCleanupInv
    <2>. QED BY <1>2, <2>1, <2>3 DEF FailAttempt, Rejected, o, action
  <1>. QED BY <1>1, <1>2

\* admit_recovery discards the finished episode before it fails the owner.
LEMMA AdmitRecoveryInv ==
    ASSUME NEW s, SupervisorInv(s), NEW now \in U64, NEW g \in U64,
           NEW x \in U64, NEW kind \in PlainFailures
    PROVE  SupervisorInv(AdmitRecovery(s, g, x, now, kind).sup)
  <1> DEFINE st == Ready(1, g, x)
             c == [s EXCEPT !.history = <<>>, !.episodeStartedAt = now,
                            !.state = st]
             o == Observe(c, now)
             failure == Failure(kind)
             action == FailureAction("Ready", kind)
             Taken == /\ s.state.tag = "Ready" /\ Current(s, g, x)
                      /\ Observable(s, now)
  <1>1. /\ st \in RestartStates /\ st.tag = "Ready" /\ st.attempt = 1
        /\ st.generation = g
    BY PolicyAssumption DEF Ready, RestartStates
  <1> HIDE DEF st
  <1>2a. /\ c \in Supervisors /\ c.lastObserved = s.lastObserved
         /\ c.state = st /\ c.history = <<>> /\ c.episodeStartedAt = now
         /\ c.attemptStartedAt = s.attemptStartedAt
         /\ c.lastGeneration = s.lastGeneration
    <2>1. <<>> \in Seq(AttemptRecords)
      OBVIOUS
    <2>. QED BY <1>1, <2>1 DEF SupervisorInv, Supervisors
  <1> HIDE DEF c
  <1>2b. /\ o \in Supervisors /\ o.state = st /\ o.history = <<>>
         /\ o.episodeStartedAt = now /\ o.lastObserved = now
         /\ o.attemptStartedAt = s.attemptStartedAt
         /\ o.lastGeneration = s.lastGeneration
    BY <1>2a DEF Supervisors, Observe
  <1> HIDE DEF o
  <1>3. ASSUME Taken PROVE SupervisorInv(o) /\ Active(o)
    <2>1. /\ Open(o) /\ Active(o) /\ RecordsOwed(o) = 0
          /\ Len(o.history) = 0 /\ Open(s)
      BY <1>1, <1>2a, <1>2b, <1>3 DEF Open, Active, RecordsOwed
    <2>2. OneRecordPerAttempt(o) /\ RecordsCleaned(o)
      BY <1>1, <1>2a, <1>2b, <2>1, PolicyAssumption
      DEF OneRecordPerAttempt, ExactHistory, RecordsCleaned
    <2>3. GenerationsOrdered(o)
      BY <1>1, <1>2a, <1>2b, <1>3, <2>1 DEF GenerationsOrdered, SupervisorInv, Current
    <2>4. InstantsOrdered(o)
      <3>1. /\ s.attemptStartedAt <= s.lastObserved /\ s.lastObserved <= now
            /\ s.attemptStartedAt \in Nat /\ s.lastObserved \in Nat
            /\ now \in Nat
        BY <1>3 DEF SupervisorInv, InstantsOrdered, Observable, Supervisors, U64
      <3>. QED BY <1>1, <1>2a, <1>2b, <3>1 DEF InstantsOrdered
    <2>. QED BY <1>2a, <1>2b, <2>1, <2>2, <2>3, <2>4 DEF SupervisorInv
  <1>4. failure \in AttemptFailures /\ action \in CleanupActions
    BY FailureTypes DEF FailureAction, CleanupActions
  <1> HIDE DEF failure, action
  <1>5. ASSUME Taken
        PROVE  SupervisorInv(EnterCleanup(o, now, failure, action, TRUE).sup)
    BY <1>2a, <1>2b, <1>3, <1>4, <1>5, EnterCleanupInv
  <1>6. CASE AdmitRecovery(s, g, x, now, kind).sup = s
    BY <1>6
  <1>7. CASE /\ AdmitRecovery(s, g, x, now, kind) = FailAttempt(c, g, x, now, kind)
             /\ FailAttempt(c, g, x, now, kind).ok
             /\ s.state.tag = "Ready" /\ Current(s, g, x)
    <2>1. Observable(c, now) /\ FailAttempt(c, g, x, now, kind) =
             EnterCleanup(o, now, failure, action, TRUE)
      BY <1>1, <1>2a, <1>2b, <1>7
      DEF FailAttempt, Rejected, o, failure, action
    <2>2. Taken
      BY <1>2a, <1>2b, <1>7, <2>1 DEF Observable
    <2>. QED BY <1>5, <1>7, <2>1, <2>2
  <1>. QED BY <1>6, <1>7 DEF AdmitRecovery, Rejected, c, st

\* retire_active_fail_closed records the open attempt and stops for good.
LEMMA RetireInv ==
    ASSUME NEW s, SupervisorInv(s), NEW now \in U64, NEW g \in U64,
           NEW x \in U64, NEW kind \in PlainFailures,
           NEW cleanup \in CleanupDispositions
    PROVE  SupervisorInv(RetireActiveFailClosed(s, g, x, now, kind, cleanup).sup)
  <1> DEFINE o == Observe(s, now)
             r == CleanupRecord(s, Failure(kind), now, cleanup)
             st == PermanentFailure(Failure(kind), cleanup)
             u == [o EXCEPT !.history = Append(@, r), !.state = st]
  <1>1. CASE ~(Active(s) /\ Current(s, g, x) /\ Observable(s, now))
    BY <1>1 DEF RetireActiveFailClosed, Rejected
  <1>2. CASE Active(s) /\ Current(s, g, x) /\ Observable(s, now)
    <2>1. /\ SupervisorInv(o) /\ Active(o) /\ o.lastObserved = now
          /\ o.state = s.state /\ o.history = s.history
      BY <1>2, ObserveInv
    <2>2. Failure(kind) \in AttemptFailures
      BY FailureTypes
    <2>3. st \in RestartStates /\ st.tag = "PermanentFailure"
      BY <2>2 DEF PermanentFailure, RestartStates
    <2>4. /\ r \in AttemptRecords /\ r.attempt = s.state.attempt
          /\ r.generation = s.state.generation
      BY <1>2, <2>2, ActiveType
      DEF CleanupRecord, AttemptRecords, SupervisorInv, Supervisors
    <2> HIDE DEF o, r, st
    <2>5. /\ o \in Supervisors /\ o.history \in Seq(AttemptRecords)
          /\ Append(o.history, r) \in Seq(AttemptRecords)
      BY <2>1, <2>4 DEF SupervisorInv, Supervisors
    <2>6. /\ u \in Supervisors /\ u.state = st
          /\ u.history = Append(o.history, r)
          /\ u.episodeStartedAt = o.episodeStartedAt
          /\ u.attemptStartedAt = o.attemptStartedAt
          /\ u.lastGeneration = o.lastGeneration
          /\ u.lastObserved = o.lastObserved
      BY <2>3, <2>5 DEF Supervisors
    <2> HIDE DEF u
    <2>7. /\ Len(u.history) = Len(o.history) + 1
          /\ u.history[Len(u.history)] = r
          /\ \A i \in 1 .. Len(o.history) : u.history[i] = o.history[i]
          /\ \A i \in 1 .. Len(o.history) : o.history[i] \in AttemptRecords
          /\ Len(o.history) \in Nat
      BY <2>4, <2>5, <2>6
    <2>8. /\ ~Open(u) /\ ~Active(u) /\ Open(o)
          /\ ClockHasRoom(u) <=> ClockHasRoom(o)
          /\ RecordsOwed(o) = o.state.attempt - 1
          /\ RecordsOwed(u) = Len(u.history)
          /\ o.state.attempt \in 1 .. MaxAttempts
          /\ o.state.generation \in U64
      BY <2>1, <2>3, <2>5, <2>6, ActiveType
      DEF Open, Active, ClockHasRoom, RecordsOwed
    <2>9. OneRecordPerAttempt(u)
      <3>1. /\ Len(o.history) = o.state.attempt - 1
            /\ \A i \in 1 .. Len(o.history) : o.history[i].attempt = i
        BY <2>1, <2>8 DEF SupervisorInv, OneRecordPerAttempt, ExactHistory
      <3>2. \A i \in 1 .. Len(u.history) :
              i \in 1 .. Len(o.history) \/ i = Len(u.history)
        BY <2>7
      <3>3. Len(u.history) = o.state.attempt
        BY <2>7, <2>8, <3>1, PolicyAssumption
      <3>4. Len(u.history) <= MaxAttempts /\ Len(u.history) <= HistoryCapacity
        BY <3>3, <2>8, PolicyAssumption
      <3>5. u.history[Len(u.history)].attempt = Len(u.history)
        BY <2>1, <2>4, <2>7, <3>3
      <3>6. \A i \in 1 .. Len(o.history) : u.history[i].attempt = i
        BY <2>7, <3>1
      <3>7. ExactHistory(u)
        BY <2>8, <3>2, <3>4, <3>5, <3>6 DEF ExactHistory
      <3>. QED
        BY <2>3, <2>6, <2>7, <2>8, <3>4, <3>7 DEF OneRecordPerAttempt
    <2>10. RecordsCleaned(u)
      BY <2>3, <2>6 DEF RecordsCleaned
    <2>11. GenerationsOrdered(u)
      <3>1. /\ o.state.generation = o.lastGeneration
            /\ \A i \in 1 .. Len(o.history) :
                  o.history[i].generation < o.lastGeneration
            /\ ClockHasRoom(o) =>
                  \A i, j \in 1 .. Len(o.history) :
                    i < j => o.history[i].generation < o.history[j].generation
        BY <2>1, <2>8 DEF SupervisorInv, GenerationsOrdered
      <3>2. \A i \in 1 .. Len(u.history) :
              u.history[i].generation <= u.lastGeneration
        <4>1. /\ \A i \in 1 .. Len(u.history) :
                    i \in 1 .. Len(o.history) \/ i = Len(u.history)
              /\ \A i \in 1 .. Len(o.history) :
                    o.history[i].generation \in Int
              /\ o.lastGeneration \in Int
          <5>1. \A i \in 1 .. Len(u.history) :
                  i \in 1 .. Len(o.history) \/ i = Len(u.history)
            BY <2>7
          <5>2. \A record \in AttemptRecords : record.generation \in Int
            BY DEF AttemptRecords, U64
          <5>3. o.lastGeneration \in Int
            BY <2>8, <3>1 DEF U64
          <5>. QED BY <2>7, <5>1, <5>2, <5>3, Zenon
        <4>2. \A i \in 1 .. Len(o.history) :
                u.history[i].generation <= o.lastGeneration
          <5>1. \A a, b \in Int : a < b => a <= b
            OBVIOUS
          <5>2. \A i \in 1 .. Len(o.history) :
                  o.history[i].generation <= o.lastGeneration
            BY <3>1, <4>1, <5>1, Zenon
          <5>. QED BY <2>7, <5>2, Zenon
        <4>3. u.history[Len(u.history)].generation = o.lastGeneration
          BY <2>1, <2>4, <2>7, <3>1, Zenon
        <4>4. o.lastGeneration <= o.lastGeneration
          BY <4>1
        <4>. QED BY <2>6, <4>1, <4>2, <4>3, <4>4, Zenon
      <3>3. ClockHasRoom(u) =>
              \A i, j \in 1 .. Len(u.history) :
                i < j => u.history[i].generation < u.history[j].generation
        BY <2>1, <2>4, <2>6, <2>7, <2>8, <3>1 DEF U64
      <3>. QED BY <2>3, <2>6, <2>8, <3>2, <3>3 DEF GenerationsOrdered
    <2>12. InstantsOrdered(u)
      BY <2>1, <2>3, <2>6, <2>8 DEF SupervisorInv, InstantsOrdered
    <2>13. SupervisorInv(u)
      BY <2>6, <2>9, <2>10, <2>11, <2>12 DEF SupervisorInv
    <2>. QED
      BY <1>2, <2>1, <2>13
      DEF RetireActiveFailClosed, Accepted, Rejected, o, r, st, u
  <1>. QED BY <1>1, <1>2

\* terminal takes the exit of an active attempt into cleanup and keeps the
\* invariant.
LEMMA TerminalInv ==
    ASSUME NEW s, SupervisorInv(s), NEW now \in U64, NEW g \in U64,
           NEW x \in U64, NEW exit \in TerminalDispositions
    PROVE  SupervisorInv(Terminal(s, g, x, now, exit).sup)
  <1> DEFINE o == Observe(s, now)
             failure == ExitFailure(IF s.state.tag = "Ready"
                                    THEN "ExitAfterReady"
                                    ELSE "ExitBeforeReady", exit)
             retry == ~(s.state.tag = "Ready" /\ exit = "ExitZero")
  <1>1. CASE ~(Active(s) /\ Current(s, g, x) /\ Observable(s, now))
    BY <1>1 DEF Terminal, Rejected
  <1>2. CASE Active(s) /\ Current(s, g, x) /\ Observable(s, now)
    <2>1. SupervisorInv(o) /\ Active(o) /\ o.lastObserved = now
      BY <1>2, ObserveInv
    <2>2. failure \in AttemptFailures
      BY FailureTypes
    <2>3. retry \in BOOLEAN /\ "CloseTerminal" \in CleanupActions
      BY DEF CleanupActions
    <2> HIDE DEF o, failure, retry
    <2>4. SupervisorInv(EnterCleanup(o, now, failure, "CloseTerminal", retry).sup)
      BY <2>1, <2>2, <2>3, EnterCleanupInv
    <2>. QED BY <1>2, <2>4 DEF Terminal, o, failure, retry
  <1>. QED BY <1>1, <1>2

\* cleanup_complete and cleanup_failed keep the invariant.
LEMMA CleanupFinishedInv ==
    ASSUME NEW s, SupervisorInv(s), NEW now \in U64, NEW g \in U64,
           NEW x \in U64, NEW requested \in CleanupDispositions
    PROVE  SupervisorInv(CleanupFinished(s, g, x, now, requested).sup)
  <1> DEFINE o == Observe(s, now)
  <1>1. CASE ~(/\ s.state.tag = "CleaningUp" /\ Current(s, g, x)
               /\ Observable(s, now))
    BY <1>1 DEF CleanupFinished, Rejected
  <1>2. CASE /\ s.state.tag = "CleaningUp" /\ Current(s, g, x)
             /\ Observable(s, now)
    <2>1. /\ SupervisorInv(o) /\ o.state.tag = "CleaningUp"
          /\ o.lastObserved = now
      BY <1>2, ObserveInv
    <2> HIDE DEF o
    <2>2. SupervisorInv(FinishCleanup(o, now, requested).sup)
      BY <2>1, FinishCleanupInv
    <2>. QED BY <1>2, <2>2 DEF CleanupFinished, o
  <1>. QED BY <1>1, <1>2

\* deadline_elapsed keeps the invariant, for a READY deadline and for a cleanup
\* deadline.
LEMMA DeadlineElapsedInv ==
    ASSUME NEW s, SupervisorInv(s), NEW now \in U64, NEW g \in U64,
           NEW x \in U64, NEW expected
    PROVE  SupervisorInv(DeadlineElapsed(s, g, x, expected, now).sup)
  <1> DEFINE o == Observe(s, now)
             action == IF s.state.tag = "Starting" THEN "CloseUnpublished"
                       ELSE "TerminateTaskGroup"
             Due == /\ s.state.tag \in {"Starting", "AwaitingReady", "CleaningUp"}
                    /\ Current(s, g, x) /\ expected = s.state.deadline
                    /\ Observable(s, now)
  <1>1. CASE ~Due
    BY <1>1 DEF DeadlineElapsed, Rejected
  <1>2. CASE Due
    <2>1. SupervisorInv(o) /\ o.lastObserved = now /\ o.state = s.state
      BY <1>2, ObserveInv
    <2>2. ASSUME s.state.tag = "CleaningUp"
          PROVE  SupervisorInv(FinishCleanup(o, now, "Failed").sup)
      BY <2>1, <2>2, FinishCleanupInv DEF CleanupDispositions
    <2>3. ASSUME s.state.tag # "CleaningUp"
          PROVE  SupervisorInv(EnterCleanup(o, now, Failure("ReadyTimeout"),
                                            action, TRUE).sup)
      <3>1. Active(o)
        BY <1>2, <2>1, <2>3 DEF Active
      <3>2. Failure("ReadyTimeout") \in AttemptFailures
        BY FailureTypes DEF PlainFailures
      <3>3. action \in CleanupActions
        BY DEF CleanupActions
      <3> HIDE DEF o, action
      <3>. QED BY <2>1, <3>1, <3>2, <3>3, EnterCleanupInv
    <2>. QED BY <1>2, <2>1, <2>2, <2>3 DEF DeadlineElapsed, Rejected
  <1>. QED BY <1>1, <1>2

\* cancel keeps the invariant.
LEMMA CancelInv ==
    ASSUME NEW s, SupervisorInv(s), NEW now \in U64, NEW g \in U64,
           NEW x \in U64
    PROVE  SupervisorInv(Cancel(s, g, x, now).sup)
  <1> DEFINE o == Observe(s, now)
             action == IF s.state.tag = "Starting" THEN "CloseUnpublished"
                       ELSE "TerminateTaskGroup"
  <1>1. CASE ~(Active(s) /\ Current(s, g, x) /\ Observable(s, now))
    BY <1>1 DEF Cancel, Rejected
  <1>2. CASE Active(s) /\ Current(s, g, x) /\ Observable(s, now)
    <2>1. SupervisorInv(o) /\ Active(o) /\ o.lastObserved = now
      BY <1>2, ObserveInv
    <2>2. Failure("Cancelled") \in AttemptFailures
      BY FailureTypes DEF PlainFailures
    <2>3. action \in CleanupActions
      BY DEF CleanupActions
    <2> HIDE DEF o, action
    <2>4. SupervisorInv(EnterCleanup(o, now, Failure("Cancelled"), action,
                                     FALSE).sup)
      BY <2>1, <2>2, <2>3, EnterCleanupInv
    <2>. QED BY <1>2, <2>4 DEF Cancel, o, action
  <1>. QED BY <1>1, <1>2

\* start_replacement opens the next attempt, or gives up past the window.
LEMMA StartReplacementInv ==
    ASSUME NEW s, SupervisorInv(s), NEW now \in U64, NEW g \in U64,
           NEW x \in U64
    PROVE  SupervisorInv(StartReplacement(s, now, g, x).sup)
  <1> DEFINE o == Observe(s, now)
             Due == /\ s.state.tag = "Backoff" /\ g # 0 /\ x # 0
                    /\ g = s.state.nextGeneration /\ Observable(s, now)
             last == s.history[Len(s.history)].failure
             perm == PermanentFailure(last, "Complete")
             p == [o EXCEPT !.state = perm]
             st == Starting(s.state.nextAttempt, g, x, now + ReadyTimeoutNs)
             u == [o EXCEPT !.state = st, !.attemptStartedAt = now,
                            !.lastGeneration = g]
  <1>1. CASE ~Due
    BY <1>1 DEF StartReplacement, Rejected
  <1>2. CASE Due
    <2>1. /\ SupervisorInv(o) /\ o.lastObserved = now /\ o.state = s.state
          /\ o.history = s.history
      BY <1>2, ObserveInv
    <2>2. /\ o.episodeStartedAt = s.episodeStartedAt
          /\ o.lastGeneration = s.lastGeneration
          /\ o.attemptStartedAt = s.attemptStartedAt
      BY DEF Observe, SupervisorInv, Supervisors
    <2>3. /\ s.state.nextAttempt \in 2 .. MaxAttempts
          /\ s.state.nextGeneration \in U64 /\ s.state.deadline \in U64
      BY <1>2, BackoffType DEF SupervisorInv
    <2>4. /\ o \in Supervisors /\ o.history \in Seq(AttemptRecords)
          /\ o.episodeStartedAt \in U64 /\ o.lastGeneration \in U64
      BY <2>1 DEF SupervisorInv, Supervisors
    <2> HIDE DEF o
    <2>5. ASSUME s.history # <<>> PROVE SupervisorInv(p)
      <3>1. last \in AttemptFailures
        <4>1. Len(s.history) \in 1 .. Len(s.history)
          BY <2>1, <2>4, <2>5
        <4>2. s.history[Len(s.history)] \in AttemptRecords
          BY <2>1, <2>4, <4>1
        <4>. QED BY <4>2 DEF AttemptRecords
      <3>2. perm \in RestartStates /\ perm.tag = "PermanentFailure"
        BY <3>1 DEF PermanentFailure, RestartStates, CleanupDispositions
      <3> HIDE DEF perm
      <3>3. /\ p \in Supervisors /\ p.state = perm /\ p.history = o.history
            /\ p.episodeStartedAt = o.episodeStartedAt
            /\ p.attemptStartedAt = o.attemptStartedAt
            /\ p.lastGeneration = o.lastGeneration
            /\ p.lastObserved = o.lastObserved
        BY <2>4, <3>2 DEF Supervisors
      <3> HIDE DEF p
      <3>4. /\ ~Open(p) /\ ~Active(p) /\ RecordsOwed(p) = Len(p.history)
            /\ ClockHasRoom(p) <=> ClockHasRoom(o)
        BY <3>2, <3>3 DEF Open, Active, RecordsOwed, ClockHasRoom
      <3>5. OneRecordPerAttempt(p)
        <4>1. Len(p.history) \in Nat
          BY <2>4, <3>3
        <4>2. ExactHistory(p)
          BY <1>2, <2>1, <3>3, <3>4
          DEF SupervisorInv, OneRecordPerAttempt, ExactHistory
        <4>3. Len(p.history) <= HistoryCapacity
          BY <2>1, <3>3 DEF SupervisorInv, OneRecordPerAttempt
        <4>. QED BY <3>2, <3>3, <3>4, <4>1, <4>2, <4>3 DEF OneRecordPerAttempt
      <3>6. RecordsCleaned(p)
        BY <3>2, <3>3 DEF RecordsCleaned
      <3>7. GenerationsOrdered(p)
        BY <2>1, <3>2, <3>3, <3>4 DEF SupervisorInv, GenerationsOrdered
      <3>8. InstantsOrdered(p)
        BY <2>1, <3>2, <3>3, <3>4 DEF SupervisorInv, InstantsOrdered
      <3>. QED BY <3>3, <3>5, <3>6, <3>7, <3>8 DEF SupervisorInv
    <2>6. ASSUME now >= s.state.deadline, Fits(now + ReadyTimeoutNs),
                 now <= s.episodeStartedAt + RestartWindowNs
          PROVE  SupervisorInv(u)
      <3>1. now + ReadyTimeoutNs \in U64
        BY <2>6, PolicyAssumption DEF Fits, U64
      <3>2. /\ st \in RestartStates /\ st.tag = "Starting"
            /\ st.attempt = s.state.nextAttempt /\ st.generation = g
            /\ st.deadline = now + ReadyTimeoutNs
        BY <2>3, <3>1, PolicyAssumption DEF Starting, RestartStates
      <3> HIDE DEF st
      <3>3. /\ u \in Supervisors /\ u.state = st /\ u.history = o.history
            /\ u.episodeStartedAt = o.episodeStartedAt
            /\ u.attemptStartedAt = now /\ u.lastGeneration = g
            /\ u.lastObserved = now
        BY <2>1, <2>4, <3>2 DEF Supervisors
      <3> HIDE DEF u
      <3>4. /\ Open(u) /\ Active(u) /\ ~Open(o) /\ ~Active(o)
            /\ RecordsOwed(u) = s.state.nextAttempt - 1
            /\ RecordsOwed(o) = s.state.nextAttempt - 1
            /\ ClockHasRoom(u) <=> ClockHasRoom(o)
        BY <1>2, <2>1, <3>2, <3>3 DEF Open, Active, RecordsOwed, ClockHasRoom
      <3>5. OneRecordPerAttempt(u)
        <4>1. /\ ExactHistory(o) /\ Len(o.history) <= HistoryCapacity
              /\ Len(o.history) \in Nat
          BY <1>2, <2>1, <2>4 DEF SupervisorInv, OneRecordPerAttempt
        <4>2. ExactHistory(u) /\ RecordsOwed(u) = Len(u.history)
          BY <3>3, <3>4, <4>1 DEF ExactHistory
        <4>. QED BY <3>2, <3>3, <4>1, <4>2 DEF OneRecordPerAttempt
      <3>6. RecordsCleaned(u)
        BY <1>2, <2>1, <3>3 DEF SupervisorInv, RecordsCleaned
      <3>7. GenerationsOrdered(u)
        <4>1. /\ g = o.lastGeneration + 1
              /\ \A i \in 1 .. Len(o.history) :
                    o.history[i].generation <= o.lastGeneration
              /\ ClockHasRoom(o) =>
                    \A i, j \in 1 .. Len(o.history) :
                      i < j => o.history[i].generation < o.history[j].generation
          BY <1>2, <2>1 DEF SupervisorInv, GenerationsOrdered
        <4>2. \A i \in 1 .. Len(o.history) : o.history[i].generation \in U64
          <5>1. \A i \in 1 .. Len(o.history) : o.history[i] \in AttemptRecords
            BY <2>4
          <5>. QED BY <5>1 DEF AttemptRecords
        <4>3. \A i \in 1 .. Len(o.history) : o.history[i].generation < g
          BY <2>4, <4>1, <4>2 DEF U64
        <4>4. \A i \in 1 .. Len(o.history) : o.history[i].generation <= g
          BY <4>2, <4>3 DEF U64
        <4>. QED BY <3>2, <3>3, <3>4, <4>1, <4>3, <4>4 DEF GenerationsOrdered
      <3>8. InstantsOrdered(u)
        <4>1. s.state.deadline >= o.history[Len(o.history)].terminalAt + BackoffNs
          BY <1>2, <2>1 DEF SupervisorInv, InstantsOrdered
        <4>2. o.history[Len(o.history)].terminalAt \in Nat
          <5>1. Len(o.history) \in 1 .. Len(o.history)
            BY <2>1, <2>3, <2>4, <3>4 DEF SupervisorInv, OneRecordPerAttempt
          <5>2. o.history[Len(o.history)] \in AttemptRecords
            BY <2>4, <5>1
          <5>. QED BY <5>2 DEF AttemptRecords, U64
        <4>3. now >= o.history[Len(o.history)].terminalAt + BackoffNs
          <5> DEFINE ended == o.history[Len(o.history)].terminalAt
          <5>1. /\ s.state.deadline >= ended + BackoffNs
                /\ ended \in Nat
                /\ now >= s.state.deadline
            BY <2>6, <4>1, <4>2, Zenon
          <5>2. s.state.deadline \in Nat /\ now \in Nat /\ BackoffNs \in Nat
            BY <2>2, <2>3, <2>4, PolicyAssumption DEF U64
          <5> HIDE DEF ended
          <5>3. now >= ended + BackoffNs
            BY <5>1, <5>2
          <5>. QED BY <5>3 DEF ended
        <4>4. o.episodeStartedAt <= now
          BY <2>1 DEF SupervisorInv, InstantsOrdered
        <4>. QED
          BY <2>2, <2>6, <3>2, <3>3, <4>3, <4>4 DEF InstantsOrdered, U64
      <3>. QED BY <3>3, <3>5, <3>6, <3>7, <3>8 DEF SupervisorInv
    <2>7. s.episodeStartedAt \in Nat /\ s.state.deadline \in Nat /\ now \in Nat
      BY <2>2, <2>3, <2>4 DEF U64
    <2>8. \/ StartReplacement(s, now, g, x).sup = o
          \/ s.history # <<>> /\ StartReplacement(s, now, g, x).sup = p
          \/ /\ now >= s.state.deadline /\ Fits(now + ReadyTimeoutNs)
             /\ now <= s.episodeStartedAt + RestartWindowNs
             /\ StartReplacement(s, now, g, x).sup = u
      <3>1. \/ StartReplacement(s, now, g, x).sup = o
            \/ s.history # <<>> /\ StartReplacement(s, now, g, x).sup = p
            \/ /\ ~(now < s.state.deadline) /\ Fits(now + ReadyTimeoutNs)
               /\ ~WindowClosed(s, now)
               /\ StartReplacement(s, now, g, x).sup = u
        BY <1>2 DEF StartReplacement, OpenReplacement, Accepted, Rejected, o
      <3>2. ~(now < s.state.deadline) => now >= s.state.deadline
        BY <2>7
      <3>3. ~WindowClosed(s, now) => now <= s.episodeStartedAt + RestartWindowNs
        BY <2>7, PolicyAssumption DEF WindowClosed
      <3> HIDE DEF o, p, u
      <3>. QED BY <3>1, <3>2, <3>3, Zenon
    <2>. QED BY <2>1, <2>5, <2>6, <2>8
  <1>. QED BY <1>1, <1>2

-----------------------------------------------------------------------------
(* The state machine                                                       *)

\* A new supervisor satisfies the invariant.
LEMMA InitInv == Init => SupervisorInv(sup)
  <1> SUFFICES ASSUME Init PROVE SupervisorInv(sup)
    OBVIOUS
  <1>1. /\ sup.state = [tag |-> "Stopped"] /\ sup.history = <<>>
        /\ sup.episodeStartedAt = 0 /\ sup.attemptStartedAt = 0
        /\ sup.lastObserved = 0 /\ sup.lastGeneration = 0
    BY DEF Init, NewSupervisor, Stopped
  <1>2. sup \in Supervisors
    BY PolicyAssumption
    DEF Init, NewSupervisor, Stopped, Supervisors, RestartStates, U64
  <1>3. ~Open(sup) /\ ~Active(sup) /\ RecordsOwed(sup) = 0 /\ Len(sup.history) = 0
    BY <1>1 DEF Open, Active, RecordsOwed
  <1>4. OneRecordPerAttempt(sup) /\ RecordsCleaned(sup)
    BY <1>1, <1>3, PolicyAssumption
    DEF OneRecordPerAttempt, ExactHistory, RecordsCleaned
  <1>5. GenerationsOrdered(sup) /\ InstantsOrdered(sup)
    BY <1>1, <1>3 DEF GenerationsOrdered, InstantsOrdered
  <1>. QED BY <1>2, <1>4, <1>5 DEF SupervisorInv

IInv == SupervisorInv(sup)

\* Every call keeps the invariant.
LEMMA NextInv == SupervisorInv(sup) /\ [Next]_sup => SupervisorInv(sup')
  <1> SUFFICES ASSUME SupervisorInv(sup), [Next]_sup
               PROVE  SupervisorInv(sup')
    OBVIOUS
  <1> USE InputAssumption
  <1>1. CASE begin
    BY <1>1, BeginInv DEF begin
  <1>2. CASE child_started
    BY <1>2, ChildStartedInv DEF child_started
  <1>3. CASE ready
    BY <1>3, ReceiveReadyInv DEF ready
  <1>4. CASE fail_attempt
    BY <1>4, FailAttemptInv DEF fail_attempt
  <1>5. CASE admit_recovery
    BY <1>5, AdmitRecoveryInv DEF admit_recovery
  <1>6. CASE retire_active_fail_closed
    BY <1>6, RetireInv DEF retire_active_fail_closed
  <1>7. CASE terminal
    BY <1>7, TerminalInv DEF terminal
  <1>8. CASE deadline_elapsed
    BY <1>8, DeadlineElapsedInv DEF deadline_elapsed
  <1>9. CASE cancel
    BY <1>9, CancelInv DEF cancel
  <1>10. CASE cleanup_complete
    BY <1>10, CleanupFinishedInv DEF cleanup_complete, CleanupDispositions
  <1>11. CASE cleanup_failed
    BY <1>11, CleanupFinishedInv DEF cleanup_failed, CleanupDispositions
  <1>12. CASE start_replacement
    BY <1>12, StartReplacementInv DEF start_replacement
  <1>13. CASE UNCHANGED sup
    BY <1>13
  <1>. QED
    BY <1>1, <1>2, <1>3, <1>4, <1>5, <1>6, <1>7, <1>8, <1>9, <1>10, <1>11,
       <1>12, <1>13 DEF Next

\* The inductive invariant holds in every reachable state of a supervisor,
\* whatever its callers pass.
THEOREM SupervisorSafe == Spec => []IInv
  <1>1. Init => IInv
    BY InitInv DEF IInv
  <1>2. IInv /\ [Next]_sup => IInv'
    BY NextInv DEF IInv
  <1>. QED BY <1>1, <1>2, PTL DEF Spec

\* Every reachable supervisor is a value of its Rust types: in particular no
\* attempt number passes max_attempts and no instant passes u64::MAX.
THEOREM TypeCorrect == Spec => []TypeOK
  <1>1. IInv => TypeOK
    BY DEF IInv, SupervisorInv, TypeOK
  <1>. QED BY <1>1, SupervisorSafe, PTL

\* The history of an episode holds exactly one record per finished attempt, in
\* order and within the attempt budget, in every active or backed-off state
\* and, while the clock has room, in every state.  An attempt that an overflow
\* left recorded twice never gets a replacement.
THEOREM HistorySafe == Spec => []HistoryCountsAttempts
  <1>1. IInv => HistoryCountsAttempts
    BY DEF IInv, SupervisorInv, HistoryCountsAttempts
  <1>. QED BY <1>1, SupervisorSafe, PTL

\* Cleanup fences replacement: outside PermanentFailure every recorded
\* attempt was cleaned up completely.
THEOREM CleanupFencesReplacement == Spec => []NoReplacementOverFailedCleanup
  <1>1. IInv => NoReplacementOverFailedCleanup
    BY DEF IInv, SupervisorInv, NoReplacementOverFailedCleanup
  <1>. QED BY <1>1, SupervisorSafe, PTL

\* Generations are consumed in order and never reused.
THEOREM GenerationsSafe == Spec => []GenerationsAdvance
  <1>1. IInv => GenerationsAdvance
    BY DEF IInv, SupervisorInv, GenerationsAdvance
  <1>. QED BY <1>1, SupervisorSafe, PTL

\* Replacements respect the backoff and the window of their episode, and an
\* attempt keeps the READY deadline it was started with.
THEOREM WindowSafe == Spec => []ReplacementsInsideWindow
  <1>1. IInv => ReplacementsInsideWindow
    BY DEF IInv, SupervisorInv, ReplacementsInsideWindow
  <1>. QED BY <1>1, SupervisorSafe, PTL

\* An event whose identity is not the open one is rejected with the state
\* untouched, in every reachable state and for every argument.
THEOREM StaleInert == Spec => []StaleEventsAreInert
  <1>1. StaleEventsAreInert
    <2>1. ASSUME NEW now \in Clock, NEW g \in Generations, NEW x \in Transactions,
                 g # sup.state.generation
          PROVE  ReceiveReady(sup, g, x, now).sup = sup
      BY <2>1 DEF ReceiveReady, Rejected
    <2>2. ASSUME NEW now \in Clock, NEW g \in Generations, NEW x \in Transactions,
                 g # sup.state.generation \/ x # sup.state.transaction
          PROVE  /\ ChildStarted(sup, g, x, now).sup = sup
                 /\ Cancel(sup, g, x, now).sup = sup
                 /\ CleanupFinished(sup, g, x, now, "Complete").sup = sup
                 /\ CleanupFinished(sup, g, x, now, "Failed").sup = sup
                 /\ \A exit \in Exits : Terminal(sup, g, x, now, exit).sup = sup
                 /\ \A kind \in FailureKinds :
                      /\ FailAttempt(sup, g, x, now, kind).sup = sup
                      /\ AdmitRecovery(sup, g, x, now, kind).sup = sup
                      /\ \A cleanup \in CleanupDispositions :
                           RetireActiveFailClosed(sup, g, x, now, kind, cleanup).sup = sup
                 /\ \A expected \in Clock :
                      DeadlineElapsed(sup, g, x, expected, now).sup = sup
      <3>1. ~Current(sup, g, x)
        BY <2>2 DEF Current
      <3>2. /\ ChildStarted(sup, g, x, now).sup = sup
            /\ Cancel(sup, g, x, now).sup = sup
        BY <3>1 DEF ChildStarted, Cancel, Rejected
      <3>3. \A arg : CleanupFinished(sup, g, x, now, arg).sup = sup
        BY <3>1 DEF CleanupFinished, Rejected
      <3>4. \A exit \in Exits : Terminal(sup, g, x, now, exit).sup = sup
        BY <3>1 DEF Terminal, Rejected
      <3>5. \A kind \in FailureKinds : FailAttempt(sup, g, x, now, kind).sup = sup
        BY <3>1 DEF FailAttempt, Rejected
      <3>6. \A kind \in FailureKinds : AdmitRecovery(sup, g, x, now, kind).sup = sup
        BY <3>1 DEF AdmitRecovery, Rejected
      <3>7. \A expected \in Clock :
              DeadlineElapsed(sup, g, x, expected, now).sup = sup
        BY <3>1 DEF DeadlineElapsed, Rejected
      <3>8. \A kind \in FailureKinds, cleanup \in CleanupDispositions :
              RetireActiveFailClosed(sup, g, x, now, kind, cleanup).sup = sup
        BY <3>1 DEF RetireActiveFailClosed, Rejected
      <3>. QED BY <3>2, <3>3, <3>4, <3>5, <3>6, <3>7, <3>8, Zenon
    <2>. QED BY <2>1, <2>2, Zenon DEF StaleEventsAreInert
  <1>. QED BY <1>1, PTL
=============================================================================
