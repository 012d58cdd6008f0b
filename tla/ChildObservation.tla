-------------------------- MODULE ChildObservation --------------------------
(***************************************************************************)
(* READY and exit observation of one launched child                        *)
(* (crates/wyrmroot-runtime/src/supervision.rs).                           *)
(*                                                                         *)
(* The child and its observer run concurrently: the child sends datagrams  *)
(* on its launch channel, closes it and exits; the observer waits on the   *)
(* channel and the process, receives, queries the termination record and   *)
(* classifies what it saw.  Each platform call of the observer is a step   *)
(* of its own, so the child may move between a wait and the receive that   *)
(* follows it.  Any platform call may fail.                                *)
(***************************************************************************)
EXTENDS Integers, Sequences

CONSTANTS
    Operations,         \* the entry points observed
    MaxMessages         \* how many datagrams a child may send

ASSUME ObservationAssumption ==
    /\ Operations \subseteq {"AwaitReady", "SuperviseChild", "SuperviseReady"}
    /\ MaxMessages \in Nat

\* An exact READY, one whose bytes do not parse for this transaction, and a
\* datagram of the wrong size or with handles.
Datagrams == {"Ready", "Malformed", "Misshaped"}

\* A normal exit with zero or another code, a fault or a kill, and a record
\* whose envelope is not that of a terminal record.
ExitRecords == {"Zero", "Nonzero", "Abnormal", "Invalid"}

\* Ok, the SupervisionError variants and the ObservedSupervisionError ones.
Results ==
    {"Ok", "UnboundedDeadline", "Platform", "ExitQuery", "InvalidReadyReceive",
     "Ready", "DuplicateReady", "ExitedBeforeReady", "PeerClosedBeforeReady", "Exit",
     "ExitObservedReadiness"}

VARIABLES
    queue,      \* datagrams queued on the launch channel
    sent,       \* every datagram the child ever sent
    closed,     \* the child's endpoint of the channel is closed
    exit,       \* the termination record, "None" while the child runs
    expired,    \* the deadline every wait carries has passed
    op,         \* the entry point the caller used
    bounded,    \* the deadline it passed is not DW_DEADLINE_INFINITE
    pc,         \* where the observer is
    seen,       \* what its last wait reported
    ready,      \* its `ready' flag
    monitor,    \* its `monitor_channel' flag
    result      \* what it returned

child == <<queue, sent, closed, exit>>
observer == <<op, bounded, pc, seen, ready, monitor, result>>
vars == <<child, expired, observer>>

Exited == exit # "None"

Init ==
    /\ op \in Operations
    /\ bounded \in BOOLEAN
    /\ sent = IF op = "SuperviseReady" THEN <<"Ready">> ELSE <<>>
    /\ queue = <<>>
    /\ closed = FALSE
    /\ exit = "None"
    /\ expired = FALSE
    /\ pc = "Enter"
    /\ seen = "Nothing"
    /\ ready = (op = "SuperviseReady")
    /\ monitor = TRUE
    /\ result = "Pending"

-----------------------------------------------------------------------------
(* The child, the kernel and the clock                                     *)

Send(m) ==
    /\ ~closed
    /\ Len(sent) < MaxMessages
    /\ queue' = Append(queue, m)
    /\ sent' = Append(sent, m)
    /\ UNCHANGED <<closed, exit, expired, observer>>

ClosePeer ==
    /\ ~closed
    /\ closed' = TRUE
    /\ UNCHANGED <<queue, sent, exit, expired, observer>>

\* Terminal process state closes the child's endpoint as well.
Exit(record) ==
    /\ ~Exited
    /\ exit' = record
    /\ closed' = TRUE
    /\ UNCHANGED <<queue, sent, expired, observer>>

Expire ==
    /\ bounded
    /\ ~expired
    /\ expired' = TRUE
    /\ UNCHANGED <<child, observer>>

-----------------------------------------------------------------------------
(* The observer                                                            *)

Return(r) ==
    /\ result' = r
    /\ pc' = "Done"
    /\ UNCHANGED <<child, expired, op, bounded, seen, ready, monitor>>

Goto(place) ==
    /\ pc' = place
    /\ UNCHANGED <<child, expired, op, bounded, seen, ready, monitor, result>>

\* Only a child that is READY may be observed without a deadline.
Enter ==
    /\ pc = "Enter"
    /\ IF bounded \/ op = "SuperviseReady"
       THEN Goto("Wait")
       ELSE Return("UnboundedDeadline")

\* WAIT_ANY reports one pending item; a channel result shows READABLE whenever
\* a datagram is queued, and a bare PEER_CLOSED otherwise.
Pending(channel) ==
    (IF channel /\ queue # <<>> THEN {"Readable"} ELSE {})
        \cup (IF channel /\ queue = <<>> /\ closed THEN {"Closed"} ELSE {})
        \cup (IF Exited THEN {"Exited"} ELSE {})

Wait ==
    /\ pc = "Wait"
    /\ \E s \in Pending(monitor) :
          /\ seen' = s
          /\ pc' = "Handle"
    /\ UNCHANGED <<child, expired, op, bounded, ready, monitor, result>>

MutWaitForever ==
    /\ pc = "Wait"
    /\ expired
    /\ Pending(monitor) = {}
    /\ Return("Platform")

\* A wait that finds nothing by the deadline ends the observation.
WaitTimesOut ==
    /\ pc \in {"Wait", "AwaitExit"}
    /\ expired
    /\ Pending(monitor /\ pc = "Wait") = {}
    /\ Return("Platform")

PlatformFails ==
    \/ pc \in {"Wait", "AwaitExit"} /\ Return("Platform")
    \/ pc = "Handle" /\ seen = "Readable" /\ Return("Platform")
    \/ pc = "Query" /\ Return("ExitQuery")
    \/ pc = "Drain" /\ Return("ExitObservedReadiness")

MutKeepWaiting(r) ==
    /\ queue' = Tail(queue)
    /\ result' = r
    /\ pc' = "Wait"
    /\ UNCHANGED <<sent, closed, exit, expired, op, bounded, seen, ready, monitor>>

\* The observer takes the datagram and returns r.
Conclude(r) ==
    /\ queue' = Tail(queue)
    /\ result' = r
    /\ pc' = "Done"
    /\ UNCHANGED <<sent, closed, exit, expired, op, bounded, seen, ready, monitor>>

MutStaleClosure(place) ==
    /\ queue' = Tail(queue)
    /\ ready' = TRUE
    /\ monitor' = ~closed
    /\ pc' = place
    /\ UNCHANGED <<sent, closed, exit, expired, op, bounded, seen, result>>

\* The observer takes the datagram, notes the READY and goes on at `place'.
AcceptReady(place) ==
    /\ queue' = Tail(queue)
    /\ ready' = TRUE
    /\ pc' = place
    /\ UNCHANGED <<sent, closed, exit, expired, op, bounded, seen, monitor, result>>

\* A datagram is received; the errors are those for a misshaped datagram, for
\* a second one and for a READY that does not parse.  The shape is checked
\* before the `ready' flag, the bytes after it.
Receive(place, misshaped, duplicate, malformed) ==
    LET m == Head(queue)
    IN  \/ m = "Misshaped" /\ Conclude(misshaped)
        \/ m # "Misshaped" /\ ready /\ Conclude(duplicate)
        \/ m = "Malformed" /\ ~ready /\ Conclude(malformed)
        \/ m = "Ready" /\ ~ready /\ AcceptReady(place)

\* supervise_profile_state after a wait.
HandleSupervise ==
    /\ pc = "Handle"
    /\ op # "AwaitReady"
    /\ \/ /\ seen = "Readable"
          /\ Receive("Wait", "InvalidReadyReceive", "DuplicateReady", "Ready")
       \/ /\ seen = "Closed"
          /\ monitor' = FALSE
          /\ pc' = "Wait"
          /\ UNCHANGED <<child, expired, op, bounded, seen, ready, result>>
       \/ seen = "Exited" /\ Goto("Query")

MutNoSecondWait ==
    \/ /\ pc = "Handle" /\ op = "AwaitReady" /\ seen = "Readable"
       /\ IF Head(queue) = "Ready" THEN Conclude("Ok") ELSE Conclude("Ready")
    \/ pc = "Handle" /\ op = "AwaitReady" /\ seen # "Readable" /\ Goto("Query")

\* await_child_ready_profile_observed after its wait.
HandleAwait ==
    /\ pc = "Handle"
    /\ op = "AwaitReady"
    /\ \/ /\ seen = "Readable"
          /\ Conclude(CASE Head(queue) = "Misshaped" -> "InvalidReadyReceive"
                      [] Head(queue) = "Malformed" -> "Ready"
                      [] Head(queue) = "Ready" -> "Ok")
       \/ seen = "Closed" /\ Goto("AwaitExit")
       \/ seen = "Exited" /\ Goto("Query")

\* The second, process-only wait of await_child_ready_profile_observed.
AwaitExit ==
    /\ pc = "AwaitExit"
    /\ Exited
    /\ Goto("Query")

SuccessfulExit == IF exit = "Zero" THEN "Ok" ELSE "Exit"

MutNoDrain ==
    /\ pc = "Query"
    /\ \/ op = "AwaitReady" /\ Return("ExitedBeforeReady")
       \/ op # "AwaitReady" /\ ready /\ Return(SuccessfulExit)
       \/ op # "AwaitReady" /\ ~ready /\ Return("ExitedBeforeReady")

\* The termination record is read after EXITED was reported.
Query ==
    /\ pc = "Query"
    /\ \/ exit = "Invalid" /\ Return("Exit")
       \/ /\ exit # "Invalid"
          /\ op = "AwaitReady"
          /\ Return(IF seen = "Closed" THEN "PeerClosedBeforeReady"
                    ELSE "ExitedBeforeReady")
       \/ /\ exit # "Invalid"
          /\ op # "AwaitReady"
          /\ \/ monitor /\ Goto("Drain")
             \/ ~monitor /\ ready /\ Return(SuccessfulExit)
             \/ ~monitor /\ ~ready /\ Return("PeerClosedBeforeReady")

\* One turn of drain_terminal_launch_channel.
Drain ==
    /\ pc = "Drain"
    /\ \/ /\ queue # <<>>
          /\ Receive("Drain", "ExitObservedReadiness", "ExitObservedReadiness",
                     "ExitObservedReadiness")
       \/ queue = <<>> /\ closed /\ ready /\ Return(SuccessfulExit)
       \/ queue = <<>> /\ closed /\ ~ready /\ Return("ExitedBeforeReady")

ObserverStep ==
    \/ Enter
    \/ Wait
    \/ WaitTimesOut
    \/ HandleSupervise
    \/ HandleAwait
    \/ AwaitExit
    \/ Query
    \/ Drain

Next ==
    \/ \E m \in Datagrams : Send(m)
    \/ ClosePeer
    \/ \E record \in ExitRecords : Exit(record)
    \/ Expire
    \/ PlatformFails
    \/ ObserverStep

\* The kernel runs the observer whenever it can run, and a finite deadline
\* passes; nothing is assumed of the child.
Spec == Init /\ [][Next]_vars /\ WF_vars(ObserverStep) /\ WF_vars(Expire)

-----------------------------------------------------------------------------
(* Properties                                                              *)

\* ObservedSupervisionError::process_exit_observed.
ProcessExitObserved(r) ==
    r \in {"ExitQuery", "ExitedBeforeReady", "PeerClosedBeforeReady", "Exit",
           "ExitObservedReadiness"}

\* Type invariant; the observer has returned exactly when it has a result, and
\* what is still queued is the end of what was sent.
TypeOK ==
    /\ queue \in Seq(Datagrams) /\ sent \in Seq(Datagrams)
    /\ \E n \in 0 .. Len(sent) : queue = SubSeq(sent, n + 1, Len(sent))
    /\ closed \in BOOLEAN /\ expired \in BOOLEAN
    /\ exit \in ExitRecords \cup {"None"}
    /\ op \in Operations
    /\ bounded \in BOOLEAN
    /\ pc \in {"Enter", "Wait", "Handle", "AwaitExit", "Query", "Drain", "Done"}
    /\ seen \in {"Nothing", "Readable", "Closed", "Exited"}
    /\ ready \in BOOLEAN /\ monitor \in BOOLEAN
    /\ result \in Results \cup {"Pending"}
    /\ (pc = "Done") = (result # "Pending")

\* A result that tells the caller the process has exited (so that cleanup does
\* not terminate it) is only returned for a process that has, and a non-zero
\* exit is only reported of a child that did not exit with zero.
ExitReportsAreReal ==
    /\ ProcessExitObserved(result) => Exited
    /\ result = "Exit" => exit # "Zero"

\* Success is earned: READY observation succeeds only on an exact first
\* datagram; supervision succeeds only if the child sent exactly one READY and
\* nothing after it, and exited normally with zero, whatever was queued
\* between a wait and the receive that followed it.
OkIsEarned ==
    result = "Ok" =>
        IF op = "AwaitReady"
        THEN sent # <<>> /\ Head(sent) = "Ready"
        ELSE sent = <<"Ready">> /\ exit = "Zero"

\* The result claims that no READY was sent, and none was.
MissingReadyIsReal ==
    result \in {"ExitedBeforeReady", "PeerClosedBeforeReady"} => sent = <<>>

\* Supervision drains the channel before it reports READY missing, even when
\* the wait selected the process while a datagram was queued; a bare peer
\* closure proves the same for READY observation.
SupervisionDrains ==
    op # "AwaitReady" \/ result = "PeerClosedBeforeReady" => MissingReadyIsReal

\* Every observation with a finite deadline ends, whatever the child does or
\* fails to do.  The one entry point that takes an infinite deadline,
\* supervise_ready_child_profile, returns once the child has exited and once a
\* datagram after its READY is queued, also when it exited or closed the
\* channel between a wait and the receive that followed it.
ObservationEnds ==
    (bounded \/ op # "SuperviseReady" \/ Exited \/ queue # <<>>) ~> (pc = "Done")
=============================================================================
