# Wyrmroot in TLA+

This directory models the supervision core of Wyrmroot's userspace and its
service registry, checks them with TLC on small instances, and proves the
safety of the two sequential state machines they rest on with TLAPS.

Contents: 1 the system, 2 the modules and the code, 3 the runs, 4 the proofs,
5 what is only model-checked, 6 where the code and its documents differ,
7 what is not modelled, 8 the plan.

## 1. The system

Wyrmroot is the userspace of the Deepwyrm kernel: an EFI loader, a primordial
bootstrap, `init0`, and then the permanent `system-init`, which starts
`registryd`, `devmgr`, the UART driver, the console daemon and the shell, and
restarts them when they fail. Every program is single threaded and allocates
nothing after start; its tables are fixed arrays. Concurrency is between
programs: each kernel call is a point at which a peer may have sent, closed its
channel or exited.

| Part | State it keeps | Operations | What makes it hard |
| --- | --- | --- | --- |
| Restart policy engine (`wyrmroot-runtime` `supervision/restart.rs`) | one `RestartState`, attempt history, episode and attempt instants, generation high-water mark | begin, child_started, ready, fail_attempt, admit_recovery, retire_active_fail_closed, terminal, deadline_elapsed, cancel, cleanup_complete, cleanup_failed, start_replacement | late events of a retired attempt; fixed history; checked u64 arithmetic; failed cleanup |
| Child observation (`supervision.rs`) | what the waiter has seen so far | await READY, supervise until exit | the child moves between a wait and the receive after it |
| system-init (`system-init/src/lib.rs`) | per role a supervisor, a ledger slot and installed resources; the system mode | bootstrap of the roles, control tick, cleanup, backoff, replacement | exits at any point of a tick; any kernel call may fail half way through |
| Registry (`registryd/src/lib.rs`) | services, clients, watches, issued identities, replay windows | install, publish, retire, lookup, watch, cancel, enumerate, peer closed | missed changes, reused identities, transactions that leak |
| Registry loop (`registryd/src/service.rs`) | the registry and the handles it holds | receive, dispatch, reply, notify, page, forward, remove | a failed send removes a peer, which notifies others, whose sends fail |
| Jobs (`wyr1b.rs`, `wyr1b_job.rs`, `launch_transaction.rs`, `wyr1b_native.rs`) | connections, jobs, sessions, parked launches and their resources | open, launch, stage, publish, terminate, wait, disconnect | a session disconnects while its launch is parked |
| Device manager, device protocol, UART driver | grants, connector generations, rings, drain state | claim, stage, launch driver, drain, replace | custody of a device over a driver replacement |
| Console, streams, shell | leases, queues, foreground job, line editor | attach, read, write, quiesce, run a job | partial transfers, closure with data queued, cancellation |
| Loader, bootstrap, init0, boot archive, manifest | mappings and handles of a process being built | load, start, roll back | failure at every step of a staged construction |

The kernel, the codecs and the build and evidence tooling surround these parts.
`PROJECT.json` lists all of them with the reason for each that is left out, and
lists the hazards line by line.

How the modelled parts interact: `system-init` owns one restart supervisor per
role. It launches a process, waits for READY through child observation, reports
what it saw to the supervisor, and does what the supervisor's state asks for:
clean up, wait for the backoff, start the replacement, or give up and degrade.
`registryd` is one of those roles; it serves the peers whose endpoints
`system-init` installs over its control channel.

## 2. The modules and the code

A Rust method on a struct is an operator on a record that returns the record
after the call and whether the call was accepted; a state machine then says who
calls it, with which arguments. `PROJECT.json` maps every such definition to
its lines. Operators named `Mut...` are deliberately wrong variants of the
definition after them. They are used by no specification; each shows that some
property would notice that mistake.

| Module | Models | Form |
| --- | --- | --- |
| `RestartPolicy` | the methods of `RestartSupervisor` in `restart.rs` | operators |
| `RestartSupervisor` | one supervisor under an arbitrary caller: any method, identity and clock reading | state machine |
| `ChildObservation` | `await_child_ready...` and `supervise_...` in `supervision.rs`, with child, channel and clock | state machine |
| `SystemController` | `SystemInit`, its roles, its reservation ledger and its mode | operators over `RestartPolicy` |
| `SystemInit` | boot activation and the resident control tick, with processes, handles and clock | state machine over `SystemController` |
| `Registry` | `RegistryState` | operators |
| `RegistryCalls` | the registry under any caller: the promise made to the daemon | state machine, abstract |
| `RegistryService` | `service.rs` and the loop of `main.rs`, one kernel call at a time | state machine, detailed |
| `RestartSupervisorProofs`, `RestartStepProofs`, `RegistryProofs` | theorems | proofs |
| `MC...` | small instances | |

**RestartPolicy and RestartSupervisor.** `sup` is the Rust struct with its
enum as a tagged record. Instants and identities are u64 values with `U64Max`
for `u64::MAX`, and `Fits` is the test of `checked_add`; a call that fails half
way keeps what it had already assigned, as `finish_cleanup` does when it has
pushed its record and then overflows. Every action is one method.

**ChildObservation.** The child sends datagrams (a READY, one that does not
parse, one of the wrong shape), closes its endpoint and exits, at any time. The
observer's `Wait`, `Handle...`, `AwaitExit`, `Query` and `Drain` steps each end at a
kernel call. `Wait` may report any signal that is set, which is what `WAIT_ANY`
promises. `bounded` says whether the caller's deadline is finite: `Enter` refuses
an infinite one, except for `supervise_ready_child_profile`, and `Expire` is the
passing of a finite one.

**SystemController and SystemInit.** `ctl` is the controller; `pc` and `local`
are the position and the locals of the one thread, over
`activate_retained_bootfs_state`, `activate_role_until_ready`, `cleanup_loaded`,
`advance_or_degrade` and `control_tick`. `live` and `held` are what exists in
the kernel: processes and handles. They are kept apart from the ledger in
`ctl` so that a property can compare the two. A cleanup that fails leaves any
part of the handles behind (`LeftBehind`), since it tries to close each of them
whatever happened to the others. What an observation may report to
the thread is what `ChildObservation` returns. Any kernel call may fail
(`PlatformFault`).

**Registry, RegistryCalls, RegistryService.** `reg` holds the services by name,
the clients by endpoint, the watches and the identities issued so far. A
service name is a number whose order is the canonical order. In
`RegistryService`, `work` is the sequence of tasks left in the current step of
the loop; a task runs up to its next send, probe or close, and tasks push
further tasks in front when a failed send removes a peer. A connection whose
channel cannot be moved to the service closes that channel in a task of its own
(`CloseChannel`). A close that fails ends the daemon (`CloseFails`), and so would
the close of a handle it no longer holds (`"BadHandle"`, which never happens). A request is chosen
when it is received, so a peer may send anything a decoder lets through.
`owes` and `history` are history variables. `RegistryCalls` has the same `reg`
and the set `tickets` of enumerations in progress, and no loop: any method may
be called at any time. `RegistryService` implements it with `tickets` mapped to
the `Page` tasks of `work`.

## 3. The runs

Times are a few seconds to two and a half minutes with two workers.

| Run | Instance | Distinct states | Shows |
| --- | --- | --- | --- |
| `restart_supervisor` | 2 attempts, history of 3, clock 0..5 with `U64Max = 6`, 3 generations, 2 transactions | 42 thousand | the nine properties of `RestartSupervisor`, up to and past the overflow of the clock |
| `child_observation` | three entry points, finite and infinite deadline, 3 datagrams | 13 thousand | exit reports and successes are real, supervision drains before it reports READY missing, every observation that can end does |
| `await_overlooks_ready` | READY wait only, 1 datagram | violation | section 6 |
| `system_init` | 2 roles, 2 attempts each, window 5, slow calls of 0 or 2 up to instant 4 | 5.3 million | ledger, processes, handles and mode agree under every exit, READY failure and kernel failure |
| `system_init_liveness` | the same with crashes and silence only, window 3, no slow calls | 41 thousand | ticks end, exits are handled |
| `fatal_on_late_ready` | as `system_init` | violation | section 6 |
| `registry_calls` | 2 names, 2 generations, 3 endpoints, 2 transactions, arrays of 1 and 2 | 104 thousand | the five invariants that are also proved |
| `registry_service` | 3 publications of 2 services, 2 clients, 2 transactions, 3 installs, 4 requests | 1.1 million | answers, handles, notices, generations and listings of the daemon |
| `registry_implements_calls` | 2 publications, 2 clients, 3 requests | 267 thousand | the daemon implements `RegistryCalls`; every step of the loop ends |
| `registry_double_removal` | as `registry_service`, 3 requests | violation | section 6 |

**Why the bounds are enough.** Two attempts give a first attempt, a replacement
and a spent budget; a clock of six instants orders start, deadline, cleanup,
backoff and window in every way, and its last ones make the checked additions
overflow, so that attempts recorded twice are reached. Three generations let a
retired, a current and a future identity be named at once. Three datagrams are
a READY, a second one, and one after that. Two roles are the two of the early
boot, not a bound. The registry's arrays of length 1 and 2 make every table
fill; a page of one record makes a listing of two services take two pages; four
requests are two watches and a publication with its notices, or an enumeration
after the changes it should show. (The daemon sends all pages of an enumeration
in one step, so no request changes the registry between two of them.) A third
client or service would add peers that behave as the second does. Bounds are
constants named in the modules: `MaxMessages`, `Horizon` (after it only waits
take time), `MaxInstalls`, `MaxRequests`.

**Deadlock** is checked in `restart_supervisor` and `registry_calls`. The others
end by design: the observer returns, init or registryd exits on an error, and
the request bound is reached.

**Fairness.** `ChildObservation` assumes that the observer runs when it can
(`WF(ObserverStep)`: it is a thread the kernel schedules) and that its deadline
passes when it is finite (`WF(Expire)`: time goes on). Two of the three entry
points refuse an infinite deadline. `supervise_ready_child_profile` accepts one,
which its comment calls intended for a resident service; its callers in
`system-init` (`lib.rs:1217`, `wyr1b_native.rs:7457`) pass a finite one. With an
infinite deadline `ObservationEnds` claims an end only once the child has exited
or a datagram is queued. `SystemInit` assumes
`WF(InitStep)`, for the same reasons. `RegistryService`'s `FairSpec` assumes that a
step with work left continues: sends and probes do not block, only the wait
between steps does. Nothing is assumed of a child, a peer or a kernel call that
may fail, and nothing of the wait's choice among ready endpoints; so there is no
claim that a particular request is eventually received.

**The properties.**

- `RestartSupervisor`: `HistoryCountsAttempts`, an attempt that is active or backed
  off has exactly one record for each attempt before it, and one that an
  overflowing completion recorded early, perhaps more than once, never gets a
  replacement; `NoReplacementOverFailedCleanup`;
  `GenerationsAdvance`; `ReplacementsInsideWindow`; `StaleEventsAreInert`, an
  event with a foreign identity changes nothing; `OnlyForward`;
  `BudgetNeverRenewed`: window, records and counted attempts survive every call
  but begin when stopped and the recovery of a READY owner;
  `ReadyBeforeDeadline`.
- `ChildObservation`: `ExitReportsAreReal`, `OkIsEarned`, `SupervisionDrains`,
  `ObservationEnds`.
- `SystemInit`: `AccountingExact`, the ledger is what is reserved, and, also after
  init gave up, a process, or its channel, left behind is still reserved;
  `OneProcessPerRole`; `CleanBeforeReplacement`; `SettledModeIsHonest`, Normal
  between ticks means that each role is READY and watched, or ended well;
  `DegradedOnce`; `TicksEnd`; `ExitsAreHandled`.
- `RegistryCalls`: `WatchesAreCurrent`, a pending watch waits on the current
  generation and so misses no change; `WatchesAreLive`; `TicketsAreOwn`;
  `EndpointsAreDistinct`.
- `RegistryService`: `AnsweredExactlyOnce`; `HandlesBalanced`, every handle received
  is installed, moved on or closed, and none is closed twice; `NoticesAreTrue`,
  `PublicationsAdvance`, `ListingIsCanonical`, `ImplementsCalls`, `StepsEnd`.

## 4. The proofs

**`RestartSupervisorProofs`** holds for every policy that `RestartSupervisor::new`
accepts (`PolicyAssumption`: positive durations, `1 <= MaxAttempts <= HistoryCapacity`),
every width of the integers and every set of inputs. `SupervisorInv` conjoins the
type with the four state invariants. None of them is inductive alone: that a
push finds a free slot needs the count of records; the count needs that no
addition overflowed (`ClockHasRoom`), which needs the order of the instants; and
the order of the recorded generations needs the count. Each method observes the
clock and then enters or finishes cleanup, so the weight is in `ObserveInv`,
`EnterCleanupInv` and `FinishCleanupInv`, the last of which has a case for the
overflow (`OverflowInv`). One lemma per method follows, then `NextInv`,
`SupervisorSafe`, and a theorem for each invariant. The overflow case is why the
count has two parts: exact for an attempt that is active or backed off, and for
one in cleanup only that any surplus record is of that attempt and that it is
`Stranded`, which later instants keep true. `StaleInert` needs no
invariant: the methods check the identity before anything else, in any state.

**`RestartStepProofs`** proves the three action properties of a supervisor from
`SupervisorInv`. Nearly every method leaves window, generations and earlier
records alone and makes nothing Ready (`Keeps`); observing the clock, entering
cleanup and finishing it each do so (`ObserveKeeps`, `EnterCleanupKeeps`,
`FinishCleanupKeeps`), and one lemma per method combines them. `OwedType` ties the
attempts counted to the records, which `BudgetIsKept` needs when a record is
pushed. `ready` and `start_replacement` are treated on their own, and `begin` and
`admit_recovery` are the two that renew.

**`RegistryProofs`** holds for all names, protocols, versions, endpoints,
transactions, capacities and installs (`RegistryAssumption`: identities are
positive, capacities nonzero). The inductive invariant `CallsInv` is the type
(`WellFormed`) with `CurrentWatches`, `LiveWatches`, `OwnTickets` and
`DistinctEndpoints`. They lean on each other: a change notifies and removes
exactly the watches on its own service, so the others stay current only if the
endpoint that caused it names one publication; removing a notified watch
completes its transaction, which may belong to no other watch and to no
enumeration. The proof has one lemma per registry method over a common fact
about `Notify` (`NotifyStep`), one about installing a changed publication (`Place`)
and one about finishing a transaction (`SettleInv`).

Theorems: `TypeCorrect`, `HistorySafe`, `CleanupFencesReplacement`,
`GenerationsSafe`, `WindowSafe`, `StaleInert`; `ForwardOnly`, `BudgetIsKept`,
`ReadyIsInTime`; `CallsTypeCorrect`, `NoChangeIsMissed`, `WatchesStayLive`, `EnumerationsOwnTickets`,
`EndpointsNameOneParty`. With `ImplementsCalls`, which TLC checks, the last four
carry over to the daemon on the instance of that run.

## 5. Only model-checked

- Liveness (`ObservationEnds`, `TicksEnd`, `ExitsAreHandled`, `StepsEnd`): TLAPS
  does not handle fairness with ENABLED.
- The safety of `ChildObservation`, `SystemInit` and `RegistryService` and the
  refinement `ImplementsCalls`: within the reach of the prover, not proved yet.
- What a listing computes (`ListingIsCanonical`): induction over data, out of the
  prover's reach.

## 6. Where the code and its documents differ

Three runs state what a document says and show a behaviour of the code that
does not do it. `PROJECT.json` quotes the lines.

- `await_overlooks_ready`: a child that queues READY and exits is reported as
  `ExitedBeforeReady` by the READY wait when the wait selects the process.
  Supervision after READY drains the channel in the same situation.
- `fatal_on_late_ready`: a start or READY at or after the deadline, or a READY that
  does not parse, ends init as Fatal instead of going through cleanup and
  backoff.
- `registry_double_removal`: two failed notifications to one client in one step
  remove it twice, and the second removal ends registryd. (The same end after a
  sweep that finds a client already gone is expected by a test of the crate,
  `registryd/tests/service.rs:739`, and is not what the run is about.)

Three more behaviours were met while modelling and have no run. An error during
cleanup replaces the error cleanup was called for
(`system-init/src/lib.rs:3613`). A role whose replacement is started in Degraded
mode stays Starting without a process (`:3746`). The drain of the second role of
a tick can begin after its deadline, which is computed from the tick's first
reading (`:1212`).

## 7. Not modelled, and why

Within the modelled parts:

- `ChildObservation`: a wait result with an impossible index or signal.
- `SystemInit`: the evidence ring, the clock-regression guard of the tick,
  partial failures while the boot archive is remapped and unmapped, and the
  role-level admit_recovery and retire_active_fail_closed, called by the device
  and job drivers only. The additions init itself makes to an instant (the
  retirement, drain and cleanup deadlines) never overflow in its instances; those
  of the supervisors do in `restart_supervisor`. What the loader's own rollback of
  a failed load leaves behind belongs to the loader.
- `Registry`: an endpoint's generation is part of its identity; the zero
  identities the decoder refuses do not occur; tables are sets, so the position
  of a slot and the order in which one change completes several watches are not
  represented; a CONNECTED and a FORWARD_FAILED answer are both an answer.
- `RegistryService`: a wait that returns an impossible event.

Whole parts: the byte formats (boot archive, manifest, protocol codecs, ELF) are
pure functions on bytes with unit tests. The runtime's system-call wrappers have no
behaviour without the kernel, which is another repository. Page tables and the
jump to the kernel are hardware. `xtask`, the gates and the test actors are
tooling. The remaining parts are in the plan.

## 8. The plan

In this order; each step adds its module, a run with the properties named and,
where one is named, a proof.

1. **Jobs**: `LaunchTransactions` (phase graph, custody, rotating scan),
   `JobController` (connections, jobs, cleanup bits), composed in `JobService`
   with the dispatcher's sessions and the tick that parks, polls and publishes
   launches. Properties: resources of a launch are released exactly once over
   disconnect, deadline and exit; a job is reported to its owner only; every
   parked launch is eventually polled. Proof: custody, and token generations
   never match a reused slot.
2. **Bounded accounting** of the runtime: conservation, proved.
3. **Devices**: `devmgr`'s grant staging and connector with the device
   protocol's coordinator and controller, and the drain fence with the UART
   driver. Properties: one owner per device over a replacement; a drain
   completes or is fenced.
4. **Console and streams**: foreground lease, queue limits, quiesce handshake,
   partial transfers; an abstract byte stream that the queues implement.
5. **Loader**: process construction with rollback, and the exit from boot
   services with its stale map key.
6. **Shell**: the job client of step 1, with cancellation and stream drain.
7. **Refinement proof** of `RegistryService` to `RegistryCalls`, and the ledger
   invariant of `SystemController`.
