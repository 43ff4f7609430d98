# termux-stacks: TLA+ models, checks and proofs

termux-stacks runs multi-service stacks in `proot-distro` containers on Android.
One daemon (`termux-stacks daemon`, single-threaded, under runit) serves a Unix
socket, journals every operation in SQLite, starts and stops one `proot-distro`
session per service, and restarts services that exit. The hard part is not the
happy path: the daemon may be killed between any two system calls, its children
outlive it, the engine offers no proof that a session is gone once the child
handle is lost, and the code promises (docs/SPECIFICATION.md, section 5) that it
never starts a second session of a service and never acts on an ambiguous
observation. This directory models that part of the program, checks it with TLC
and proves some of it with TLAPS.

## Inventory

| Part | State | Operations | Talks to | Module |
|---|---|---|---|---|
| `store.rs`, journal | tables stacks, services, rootfs_generations, operations, operation_services | one transaction per step of an operation (`begin_*`, `mark_*`, `finish_*`, `record_*`, `schedule_restart`, ...) | called by runtime | Store, Candidates |
| `store.rs`, cold start | the same rows | `reconcile_cold_start` | called by `Runtime::initialize` | Store |
| `runtime.rs`, lifecycle | `children`, `uncertain_children` | `up`, `down`, `restart`, resume, `shutdown`, `Drop` | store, engine | Runtime, Fleet |
| `runtime.rs`, supervision | the same, `restart_throttle` | `tick`, scheduled restarts | store, engine | Runtime |
| `runtime.rs`/`store.rs`, replay | operations row, cached response | `replay_response`, `cache_response_for_request` | client retries | Replay |
| `daemon.rs`, singleton | flock, control socket file | `acquire`, `bind`, `finish`, `serve`, the drops | kernel, runtime | DaemonLock |
| `daemon.rs`, dispatch; `protocol.rs`; `cli.rs` | none | one request per connection | runtime | Replay |
| `engine.rs` | none (adapter) | `install`, `run`, `sessions`, `kill` | proot-distro | Runtime |
| `manifest.rs` | none | `validate`, `topological_order` | called by dispatch | Manifest |
| `resources.rs`, `logs.rs`, `paths.rs` | none | preflight, files | file system | (failures only) |

What is hard: crashes between intent, effect and evidence; exits of workloads at
any point, with or without their guest trees; journal writes whose errors the
code ignores; timeouts after which the awaited event still happens; partial
failure of a multi-service start; a history of failed candidates that decides
what may be reused; retries of requests whose answer was lost; the failed resume
of one stack, which ends the daemon for all; two daemon processes racing for one
socket; operations that must reach an outcome lest every later one is refused.
`PROJECT.json` lists these hazards at their source lines.

## Modules

- **Store** is the journal of one stack: the rows as variables and one operator per
  transaction. `T_ok` is the condition under which transaction `T` commits (its
  `Conflict`, `NotFound` and `require_one` checks) and `T` its effect, including the
  `refresh_stack_state` that some transactions end with and others do not.
- **Runtime** extends Store with the daemon and its environment. A step is one
  transaction or one engine call with the in-memory work around it; `d` is the
  control state of the single thread (position, request, work lists, pending
  error). `handle` says whether a child is in `children` (`owned`), in
  `uncertain_children`, or just spawned; `tracer`, `guest` and `orphan` are the world
  outside: the foreground process, the guest tree below it, and a guest tree of an
  earlier session that no handle refers to any more. The code never reads `guest`
  or `orphan` directly, only through `registry`, exit statuses and kill.
- **Sessions** is the abstract specification of what Runtime promises about sessions:
  a session begins only after a durable intent, once per intent, and an intent is
  only taken after durable proof that the session before is gone.
  **RuntimeSessions** gives the refinement mapping: a service is alive while it has a
  guest tree, and the journal's word on it is what a cold start would make of the
  rows as they are now.
- **MCRuntime** instantiates Runtime: `app` depends on `db`; the name order is the
  reverse of the start order.
- **Candidates** is the other side of Store: all `up` operations of a stack with all
  their rows, all rootfs generations of all services, and definitions with different
  service sets. `begin_up`, `begin_candidate_recovery` and `commit_up` decide from that
  history; `disk` is what really is under each alias. Sessions are reduced to the
  state of a services row. **MCCandidates** has three definitions, one of which adds a
  service.
- **Replay** follows connections and request ids: clients that repeat a request or use
  an id for something else, frames that cannot be read, `dispatch`, the operations
  row of an id, and the stored response. The operation between its first and last
  row is abstract.
- **Fleet** puts several stacks under one daemon after another: `initialize` with its
  resumes in the order of names, the failure that ends the daemon, `Drop`, `shutdown`,
  and runit. A stack is one journal state and one handle per service. An aborted start
  is one step; `abort_fates` says what it may leave of each service, whether the start
  itself failed or a dependency was lost since it was started.
- **Manifest** is `validate` of manifest.rs where entries relate to each other: mounts,
  host ports, `dependsOn`, and `topological_order` with its counters. The reference
  definitions at its end say what should be accepted and which order is right.
  **MCManifest** lists the service entries considered.
- **DaemonLock** is `run()` of daemon.rs for any number of processes, one action per
  system call that matters: flock, bind, connect probe, remove, bind again, secure,
  initialize, serve, shutdown, the drop of the socket (check, then remove), unlock,
  and SIGKILL anywhere. **MCDaemonLock** bounds the kills and states fairness.
- **RuntimeProofs** (Store and Runtime: types, start order, restart deadlines),
  **LifecycleProofs** (what an operation does to the stack), **EvidenceProofs** (sessions
  and their evidence, the refinement of Sessions), **CandidatesProofs**, **ReplayProofs**,
  **ManifestProofs** and **FleetProofs** hold the theorems; those of DaemonLock are at the
  end of the module itself.

### Abstractions

A manifest with its base directory is a member of `Defs`; a stack's committed
revision is its committed definition. The identity columns are `none`, `pid` or
`session`. A restart deadline is set or not, and any subset of the pending
restarts may be due at a tick, which covers every clock and `restart_throttle`;
whether the restart window is still open is a free choice.

Store keeps the newest candidate, the newest generation and a fixed service set.
Candidates keeps all of them and shows (`NewestDecides`) that the verdict of
`begin_candidate_recovery`, which goes through all failed candidates in the order of
their request ids, is the one of the newest. Runtime has one stack: stacks share no
rows and no children, only the thread and its ends, which is what Fleet models.
Replay has one request id: a request reads and writes the row of its own id only.

The failure kinds of Runtime are a constant, `Faults`; the other modules have their
own, named in them.

| kind | what the environment may do |
|---|---|
| crash | SIGKILL the daemon between two steps |
| store | fail any transaction or query, the ignored ones included |
| io, install, spawn | fail a log file, `engine.install`, or the start before a child exists |
| proc, wait, ps | fail `/proc` or boot-id reads, `try_wait`, the session registry (unreadable, or without the session) |
| kill | fail `engine.kill`, or let the tracer outlive STOP_TIMEOUT |
| signal, linger | a tracer dies of a signal, or exits normally, with guests alive |

proot-distro is external and modelled from what runtime.rs relies on: a live tracer
is listed (unless `ps`); a tracer that exited normally is listed exactly while its
guests live (`linger`), so that "exit status without signal and not listed" is the
proof of absence the code takes it for; after a signal the registry may say
anything; an acknowledged exact-session kill followed by a reaped tracer leaves no
guests. NoSecondSession, DurableEvidence and ImplementsSessions hold under these
assumptions on proot-distro, not without them.

## Properties and runs

| run | instance | what it shows |
|---|---|---|
| core | 2 services, 1 attempt; crash, signal, spawn, linger; FairSpec | safety, the refinement of Sessions, operations end |
| storefaults | 2 services; crash, store, spawn, signal | the evidence survives lost journal writes |
| update | 2 services, 2 definitions; crash, install, spawn, io | candidates that fail, are recovered or replaced |
| engine | 1 service, 2 attempts; every kind but store; FairSpec | ambiguity, timeouts, restart accounting, progress |
| candidates | 3 requests, 3 definitions over 2 services; all kinds | what the history of candidates allows |
| replay | 2 connections, 1 id, 2 payloads; crash, lost, store | retries have one effect and one answer |
| fleet | 3 stacks of 2 services; all kinds; FairSpec | a failing stack harms no other and stops no daemon for ever |
| manifest | up to 4 services | acceptance, start order and cycle report against references |
| daemon_lock | 4 processes, at most 3 SIGKILLs; MCSpec | the singleton, its control path, recovery of a stale socket |
| second_session, install_ambiguity, restored_revision | 2 services | three disagreements between docs and code, below |

Runtime:

- `NoSecondSession`: a session is never started beside a living guest tree of the
  same service.
- `DurableEvidence`: whenever a guest tree is alive, a cold start of the journal as
  it is now would say `unknown`. This is the intent-before-effect discipline as one
  state predicate: it covers every crash point.
- `ImplementsSessions`: the same discipline step by step, as a refinement.
- `UnknownIsSticky`: a service leaves `unknown` only when its tree is gone. The runs that
  check it have either no `kill` or one service; with both, the cleanup of a failed
  start breaks it, which is finding 1.
- `RestartDeadlineSound`: a deadline is pending only for a service without a handle
  and with a countable attempt, so the collision and invalid-attempt branches of
  `tick` are dead.
- `SpawnAfterDependencies`, `StopAfterDependents`: order of starts and stops.
- `NoPartialStack`: a failed candidate keeps no service; what is owned between
  requests belongs to a committed, wanted stack.
- `OperationFinished`, `OperationTerminates`: no operation is left without an
  outcome between requests (while transactions succeed), nor for ever.
- `StatusDerived`: the stack's state agrees with its services' between requests.
- `Responsive`: the thread always gets back to its loop or ends.

Candidates:

- `RootfsTruth`: no alias is installed twice; what is called installed was completely
  installed, what is called absent was never touched.
- `AmbiguityStays`: a rootfs left partial by an install is never buried under a newer
  generation or a changed service set; it blocks the stack.
- `CorrectableCandidate`: the converse: without such a rootfs, no sequence of failures,
  retries and cold starts makes the stack refuse a definition.
- `NewestDecides`: see Abstractions.
- `CommittedSurvives`: failed updates leave exactly one complete current generation
  for each service of the committed definition.

Replay:

- `EffectOnce`: the operation of a request id acts on the engine at most once.
- `TruthfulSuccess`: `success` is only heard by a client whose own payload succeeded.
- `AnswersAgree`, `CachedResponseStable`: the final answers to one request are equal,
  and a stored response is never replaced. Both except ids for whose requests the
  database failed; see the remark under Findings.

Fleet: `UnharmedStacksRun` (a wanted stack without a failure of its own runs whenever
a daemon serves), `NothingHalfResumed`, `DaemonServesAgain` (a failed resume leaves its
stack not resumable, so before a daemon serves again at most one ends for each stack).

Manifest: `AcceptsExactly`, `DependenciesStartFirst`, `StableOrder` (the order is the
first of all start orders by name), `CycleReport` (the error names exactly the
services that can never start). The algorithm counts list entries but releases by
membership; it is right only because `parse_dependencies` rejects repetitions.

DaemonLock: `LockInv`, `OneMutatingDaemon`, `ServesItsPath`, `StaleSocketRecovered`:
invariant 1 of the specification, and that neither the stale-socket recovery nor a
drop, each a check followed by a removal, takes the socket of a serving daemon.

Each property has a mutant in `PROJECT.json`: a plausible slip in the modelled code
(`Mut...` operators, next to the definition they replace) under which TLC finds the
property violated.

**Bounds.** Two services with one dependency are the smallest stack in which a
partial start, a cleanup in reverse order, a dependency that dies while its
dependent starts and both stop orders exist. One attempt (two in `engine`) reaches
both the limit and the reset of the counter. Two definitions give every kind of
update. In Runtime nothing else is bounded: requests, crashes and exits may happen
for ever and the state space is still finite. The fault kinds are split over the runs
because their product is too large. Candidates needs its bound on requests: three
give a failed candidate, its replacement or recovery, and a third that sees both;
two definitions with equal service sets and one with a larger set give every change,
and d1 and d2 are interchangeable (the symmetry set). In Replay two connections are a
request and its concurrent duplicate, two payloads an id used twice; acts are counted
up to two. In Fleet three stacks put one before and one after a failing one. A failed resume can
leave a restart deadline pending only with three services (one that is gone and, after
it, one that cannot be stopped); the theorems of FleetProofs cover that, and for
`DaemonServesAgain` the same run with `N = 2`, `K = 3` finds no error either. Four
services are enough for a cycle with services before, in and behind it.

`NoSecondSession` and `UnknownIsSticky` are not claimed with `kill` together with `store`
or with more than one service: that is finding 1. `OperationFinished` and `OperationTerminates` are not
claimed under `store`: an operation whose outcome cannot be written stays open until
the next cold start. Deadlock is checked in every run except `manifest`, which ends.

**Fairness.** Runtime: `WF(DaemonStep)`: the thread runs until it ends or is killed;
nothing inside a request waits without a timeout. `WF(Boot)`: runit starts a daemon
that ended. `SF(Reconcile)`: a daemon that is killed again and again reaches its cold
start once; without it no operation interrupted by a crash could ever end. Fleet:
`WF(Boot)` and `WF(Daemon)` alone; `DaemonServesAgain` says in its premise that kills
and signals during starts come to an end. `MCSpec` of MCDaemonLock: processes are
started and run, no system call of the start fails every time, and `MaxKills` bounds
the kills. Nothing is assumed of workloads or clients.

## Findings

1. *Second session* (`second_session`). When the cleanup of a failed start cannot
   stop an already started service (kill fails or times out), it quarantines the
   child, which marks it `unknown`, and then records the stop error, which is not in
   the list of ambiguous errors, over it: `failed` (runtime.rs:1168-1169). When the
   tracer exits later, `tick` drops the handle, assuming "state remains unknown"
   (runtime.rs:1409-1414), and the next `up` starts the service beside guests that
   may be alive. SPECIFICATION.md:127 rules that out.
2. *Ambiguous install* (`install_ambiguity`). A failed install is first marked
   `unknown` and then, by the abort of the operation, `failed` (runtime.rs:553, 1121):
   the stack is not reported `unknown` as SPECIFICATION.md:164 says. Candidate
   recovery still refuses the rootfs, so the effect is one of reporting.
3. *Restored revision* (`restored_revision`). A dependency that exits while a candidate
   update starts gets a restart deadline (runtime.rs:1003); after a crash the cold
   start keeps it and `tick` starts that service from the committed revision, which
   SPECIFICATION.md:162 says is "never restored automatically".

A remark without a run: when `operation_replay` fails for a retry (a busy or failing
database), the retry is answered `state_store`, and `cache_response_for_request`
stores that answer over the response of the first attempt, whose row it matches
(runtime.rs:237-298, daemon.rs:363). Later retries get `state_store`, while
tests/scaffold.rs:946 says "exact replay must return the cached response".
`AnswersAgree` and `CachedResponseStable` leave such ids out (`lapse`); `EffectOnce` and
`TruthfulSuccess` hold for them too.

## Proofs

All proofs are checked by TLAPS with no assumption beyond the named `ASSUME`s of
the modules (Order is a topological order listing each service once, Names lists the
services, names of a manifest are finitely many numbers, the constants have their
types; in Candidates, each definition names at least one service and request ids are
positive numbers), which TLC evaluates on every run. The theorems of EvidenceProofs
have one hypothesis more, `TrustedEngine`, and three of LifecycleProofs the hypothesis
that transactions do not fail; both are explained below. The theorems hold for every
stack, dependency graph, restart policy, number of attempts and set of faults, for any
number of processes, connections, requests, definitions and manifests; the runs cover
the instances above. Every safety property that a passing run checks is proved.

- `DaemonLock`: `LockInv` is inductive as it stands; `OneMutatingDaemon` and
  `ServesItsPath` follow from it. The two conjuncts need each other: the path of a
  bound process is only safe because whoever probes, removes or drops holds the
  lock.
- `RuntimeProofs`: every transaction keeps the rows typed (one lemma per group).
  `TypeOK` is not inductive: `Head(d.todo)` of an empty list has no
  type, so the inductive invariant `Inv` says which loops hold a non-empty work list.
  `SpawnAfterDependencies` needs the history of the dependency check:
  `Inv` says that from the choice of a service to its check every dependency is
  owned or still on the list `d.deps`, and that from the check to the spawn all are
  owned. That holds because between the check and the spawn the thread takes no step
  that lets go of a handle; an exit of the dependency's tracer changes no handle.
  `Invariance` proves `Inv` action by action, `TypeCorrect` and `DependenciesFirst`
  follow.
  `RestartDeadlineSound`, also with every set of faults: a deadline is written long
  after the exit it answers was seen. `DInv` adds to `Inv` that what is pending was
  counted (`Rows`), and, for the positions in between (`Watched`), that nothing is held
  for the service the deadline is for, and that a deadline is taken back before the
  service is spawned.
- `LifecycleProofs`: `NoPartialStack`, `StopAfterDependents`, `OperationFinished`,
  `StatusDerived`. `Held` says of the running service what the thread still has to do with
  it: which job passes through which positions (`Route`), that the desired columns of
  the stack and of its services agree (`Desire`), that an owned service is wanted, of the
  committed revision or of the candidate in work (`Wanted`), that the work lists of a
  cleanup, a down or a shutdown miss nothing that is owned (`Bounded`), and what a start
  is for (`Purpose`). From it `NoPartialStack` follows for every set of faults: a cleanup
  goes through all services that were started and quarantines those it could not stop.
  `StopInv` says that the lists of down and shutdown run backwards through the start
  order; what is no longer on such a list is no longer owned, which is
  `StopAfterDependents`. `FF` says where an operation is open (`Unfinished`) and which of its
  rows have no outcome yet at each position (`Outcomes`): every way of the abort closes
  all of them before `finalize`, which therefore commits. `SI` says where the stack's
  state may differ from that of its services (`Stale`): only where every way on ends in
  a transaction that refreshes it. A scheduled restart that was not spawned is taken
  back without a refresh; that works because the state is still the one with the
  restart pending (`Pending`). For `down` it needs what its rows say (`DownRows`): a down that
  fails leaves a row that is not a success, so the `unknown` it reports is derived.
  The last three have the hypothesis `"store" \notin Faults`. Without it they are false:
  an outcome that cannot be written stays open, a status stays as it was until the
  next cold start, and a shutdown that cannot read the stack goes through its handles
  by name. `DownAfterDependents`, the part of the order about `down`, needs no hypothesis.
- `EvidenceProofs`: `NoSecondSession`, `DurableEvidence` and `UnknownIsSticky`, under
  `TrustedEngine`: none of the faults `proc`, `wait`, `ps`, `kill`. Crashes, failing
  transactions (the ignored ones too), failing spawns and installs, signals and
  lingering guests are all allowed. The hypothesis is not for convenience: each of the
  four lets the code give up a child it could not confirm dead, and the run
  `second_session` shows what `kill` leads to. `DurableEvidence` is not inductive: a
  row may read `unknown` only because of an identity column that a later transaction
  ignores. `Touched` is the stronger reading the daemon's own checks use. `EInv` adds
  to `DInv`: a guest tree has a handle or is an orphan, never both (`TreeInv`); a
  service with a handle or an orphan is `Touched` (`JournalInv`); before the first `up`
  there is nothing (`FirstInv`); and for each position of the thread which services
  are known to be absent, or have their intent on record (`Position`). The argument: a
  tree is only born at `spawn`, after its intent was committed; every transaction
  that takes a service out of `Touched` runs at a position where its absence was
  observed; a transaction that fails leaves the rows of before.
  `ImplementsSessions` is the second part, under the same hypothesis. `EInv` gives the
  steps of Sessions in which a tree begins, ends or is taken for gone. What is left is
  `Invoke`: the intent of a start is only written for a service that a cold start would
  not call `unknown`. An operation knows that from the phase of its own row
  (`IntentInv`), a scheduled restart from its deadline, and there the services row is
  not enough: an unfinished operation with a row for the same service would make a
  cold start ignore the deadline. So `SInv` adds that no operation is open on a service
  with a deadline (`BackoffInv`); that where a deadline is about to be written there is
  none either (`ClosedInv`); and, because a deadline follows the exit of an owned child,
  that an operation is open on an owned service only at the positions of the operation
  itself and of its abort, each of which ends it or gives up the child (`OwingInv`).
  The last needs that `abort_restart_operation` handles the very child the restart
  could not stop. With `SInv`, every step of the daemon is a step of Sessions or a
  stutter for each service.
- `CandidatesProofs`: `RootfsTruth`, `AmbiguityStays`, `NewestDecides`, `CommittedSurvives`,
  `CorrectableCandidate`, with every set of faults. What a candidate may reuse depends on
  rows written any number of requests ago, so the invariant is about the whole history:
  each row of each operation with the generation it names and what is on disk under
  it (`RowInv`, `Trees`); a generation is named by two operations only if both have the
  same definition and the later one reused it installed (`Sharing`), which is why `recovery`,
  going through all candidates in the order of their ids, finds what the newest alone
  would say (`NewestInv`); only the newest generation of an active service can be partial
  (`ActiveInv`), because `terminal_candidate_allows_fresh_up` refuses everything while it
  is; and at each position of `prepare_candidate` what is done already (`Position`).
- `ReplayProofs`: `EffectOnce`, `TruthfulSuccess`, `AnswersAgree`, `CachedResponseStable`. The
  invariant says what the row of an id means at each position of the thread (an
  operation acts only while its row, inserted once, is open) and what the row owes to
  an answer that is being written (`DaemonInv`), waits to be read (`ConnInv`) or was
  heard (`HeardInv`); rows only gain (`RowsKept`).
- `ManifestProofs`: `AcceptsExactly`, `DependenciesStartFirst`, `StableOrder`, `CycleReport`, for
  every finite set of services. `CountInv` says that `incoming[n]` is the number of
  dependencies of `n` not yet placed, which is where the absence of repetitions is
  used; `OrderInv` that each prefix of the order was the least choice at its time, from
  which the comparison with any other order follows at the first difference.
- `FleetProofs`: `UnharmedStacksRun`, `NothingHalfResumed`. The invariant says which
  stacks the resumes have still to reach, and that a stack is half started only at
  the position of the thread; the failure of one resume leaves the stacks after it
  resumable for the next daemon.

Only model-checked: `OperationTerminates`, `Responsive`, `DaemonServesAgain` and
`StaleSocketRecovered`, which hold under fairness and are out of TLAPS's reach, and the
refinement of Sessions and `UnknownIsSticky` with the faults that `TrustedEngine` leaves
out (run `engine`, one service, no failing transactions).

## Not modelled

- The YAML parser and the checks of single fields in manifest.rs (names, images,
  commands, environment): string checks without state.
- JSON encoding (protocol.rs): what a frame decodes to is a free choice.
- The output grammar of proot-distro and the arguments it is given (engine.rs):
  output that does not parse is the registry outcome `error`.
- Reading log tails, the port and bind preflight, the directory layout, the CLI's
  arguments and printing: I/O that changes no state of the model; the failures that
  matter are the fault kinds `io` and `spawn`.
- The delay of a restart: any deadline is possible.
- The migration of v2 databases: the program that wrote them is not in the
  repository, so the states to start from are not known.

## State of the work

Store, Runtime with the refinement of Sessions, DaemonLock, Candidates, Replay, Fleet and
Manifest are modelled, each with its run, and their safety properties are proved. What
a next step could take up:

1. the migration of v2 databases, once their states are documented;
2. the findings: a cleanup that keeps `unknown` when the stop of a service fails would
   let `TrustedEngine` be weakened by `kill`.
