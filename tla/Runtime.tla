------------------------------ MODULE Runtime ------------------------------
(***************************************************************************)
(* The daemon (runtime.rs, and the serve loop of daemon.rs) on one stack.  *)
(* The daemon is one thread.  A step of it is one SQLite transaction of    *)
(* module Store or one engine call, together with the in-memory work       *)
(* around it; between two steps the daemon may be killed, a workload may   *)
(* exit, and a transaction or an engine call may fail.                     *)
(*                                                                         *)
(* The engine (proot-distro, external) is modelled by what runtime.rs uses *)
(* of it: a foreground tracer per session, a guest tree below it that may  *)
(* outlive a signalled tracer, a session registry and an exact-session     *)
(* kill that drains the tree.                                              *)
(***************************************************************************)
EXTENDS Store

CONSTANTS
    Names,       \* the services sorted by name, the order of a BTreeMap
    DependsOn,   \* service -> sequence of the services it depends on
    Policy,      \* service -> restart policy
    Faults       \* the kinds of failure the environment may produce

FaultKinds ==
    {"crash",    \* SIGKILL of the daemon
     "store",    \* a transaction fails (SQLITE_FULL, I/O error)
     "io",       \* a log file cannot be prepared or opened
     "install",  \* engine.install fails
     "spawn",    \* engine.run or its resource checks fail before a child
     "proc",     \* /proc or the boot id cannot be read after the spawn
     "wait",     \* try_wait fails
     "ps",       \* the session registry is unreadable or omits a session
     "kill",     \* engine.kill fails, or the tracer outlives STOP_TIMEOUT
     "signal",   \* the tracer dies of a signal, its guests may survive
     "linger"}   \* guests outlive a normal exit, still in the registry

ASSUME NamesAssumption ==
    /\ Names \in Seq(Services)
    /\ Len(Names) > 0
    /\ ToSet(Names) = Services
ASSUME DependsOnAssumption ==
    /\ DependsOn \in [Services -> Seq(Services)]
    /\ \A s \in Services : \A i \in 1..Len(DependsOn[s]) :
          \E j, k \in 1..Len(Order) :
             j < k /\ Order[j] = DependsOn[s][i] /\ Order[k] = s
ASSUME PolicyAssumption == Policy \in [Services -> {"no", "on-failure", "always"}]
ASSUME FaultsAssumption == Faults \subseteq FaultKinds

VARIABLES
    handle,  \* children ("owned"), uncertain_children, or a child just spawned
    tracer,  \* the foreground process of the held session, or its exit status
    guest,   \* the guest tree of the held session is alive
    orphan,  \* a guest tree of an earlier session, no longer held, is alive
    d        \* the daemon's control state

worldVars == <<handle, tracer, guest, orphan>>
vars == <<stack, svc, gen, cand, op, oprow, handle, tracer, guest, orphan, d>>

-----------------------------------------------------------------------------
Handle == {"none", "fresh", "owned", "uncertain"}
Exited == {"ok", "fail", "signal"}
Tracer == {"none", "live"} \cup Exited
ErrorKind == {"none", "store", "uncertain", "session", "identity", "exited",
              "conflict", "prespawn", "engine", "timeout", "io"}
Job == {"none", "up", "down", "restart", "resume"}
PC == {"dead", "reconcile", "resume", "idle", "tick", "tick_child",
       "tick_schedule", "tick_due", "due", "up", "up_check", "cand_begin",
       "cand_svc", "logs", "install_invoke", "install", "install_unknown",
       "install_failed", "installed", "begin_current", "deps", "dep_schedule",
       "start_invoke", "restart_invoke", "spawn", "journal", "contain",
       "qualify", "mark_running", "finish", "abort", "abort_others",
       "cleanup", "cleanup_exit", "cleanup_mark", "survivors", "finalize",
       "restore", "reschedule", "due_unknown", "down_begin", "down_svc",
       "down_stop", "down_stopped", "down_quarantine", "down_final",
       "restart", "restart_begin", "restart_stop_invoke",
       "restart_stop", "restart_stopped", "shutdown", "shutdown_record",
       "shutdown_end"}

Control == [pc : PC, job : Job, def : MaybeDef, cur : Services,
            todo : Seq(Services), deps : Seq(Services),
            order : Seq(Services), started : Seq(Services),
            err : ErrorKind,
            ret : {"start", "up_check", "pre_restart", "due"},
            due : SUBSET Services, again : BOOLEAN]

TypeOK ==
    /\ StoreTypeOK
    /\ handle \in [Services -> Handle]
    /\ tracer \in [Services -> Tracer]
    /\ guest \in [Services -> BOOLEAN]
    /\ orphan \in [Services -> BOOLEAN]
    /\ d \in Control

at(p) == [pc |-> p, job |-> "none", def |-> NoDef, cur |-> Order[1],
          todo |-> << >>, deps |-> << >>, order |-> << >>, started |-> << >>,
          err |-> "none", ret |-> "start", due |-> {}, again |-> FALSE]

\* Mutant: start order, dependencies first.
MutStopOrder(manifest) == IF manifest THEN Order ELSE Names

\* down and shutdown: stop_order() of the committed manifest; without one,
\* the names in descending order.
StopOrder(manifest) == Reverse(IF manifest THEN Order ELSE Names)

Init ==
    /\ StoreInit
    /\ handle = [s \in Services |-> "none"]
    /\ tracer = [s \in Services |-> "none"]
    /\ guest = [s \in Services |-> FALSE]
    /\ orphan = [s \in Services |-> FALSE]
    /\ d = at("dead")

-----------------------------------------------------------------------------
(* Control helpers *)

goto(p) == d' = [d EXCEPT !.pc = p]
return  == d' = at("idle")

\* A transaction fails: its own checks refuse it, or the database does.
StoreFails(ok) == (~ok \/ "store" \in Faults) /\ UNCHANGED dbVars

\* A transaction whose error the code ignores (let _ = ...).
Ignoring(transaction) == transaction \/ StoreFails(TRUE)

\* Mutants: a failed transaction, or an unconfirmed child, counts as proof.
MutAmbiguousStore(e) == e \in {"uncertain", "session", "identity"}
MutAmbiguousUncertain(e) == e \in {"store", "session", "identity"}

\* record_operation_failure: the errors that leave a workload ambiguous.
ambiguous(e) == e \in {"store", "uncertain", "session", "identity"}

should_restart(s, status) ==
    \/ Policy[s] = "always" /\ status \in {"ok", "fail"}
    \/ Policy[s] = "on-failure" /\ status = "fail"

\* What follows the supervision tick.
after_tick(c) ==
    CASE c.job = "up" -> [c EXCEPT !.pc = "up"]
      [] c.job = "down" -> [c EXCEPT !.pc = "down_begin"]
      [] c.job = "restart" -> [c EXCEPT !.pc = "restart"]
      [] OTHER -> at("idle")

next_due(c) == IF c.due = {} THEN after_tick(c) ELSE [c EXCEPT !.pc = "due"]

\* The next service of a starting operation, or its end.
start_next(c, q) ==
    IF q = << >> THEN [c EXCEPT !.pc = "finish", !.todo = << >>]
    ELSE [c EXCEPT !.pc = IF op'.candidate THEN "cand_svc" ELSE "deps",
                   !.cur = Head(q), !.todo = Tail(q),
                   !.deps = DependsOn[Head(q)], !.ret = "start"]

\* The loop of a starting operation begins; start_current_services and
\* restart first read the stack back, and abort if they cannot.
begin_starting(c, q) ==
    \/ d' = start_next(c, q)
    \/ /\ "store" \in Faults
       /\ ~op'.candidate
       /\ d' = [start_next(c, q) EXCEPT !.pc = "abort", !.err = "store"]

\* An error while starting c.cur: the operation is aborted, a scheduled
\* restart is classified by tick and perform_scheduled_restart.
start_fails(c, e) ==
    IF c.ret # "due" THEN [c EXCEPT !.pc = "abort", !.err = e]
    ELSE CASE e = "prespawn" -> [c EXCEPT !.pc = "restore"]
           [] OTHER -> [c EXCEPT !.pc = "due_unknown"]

deps_done(c) ==
    CASE c.ret = "start" -> [c EXCEPT !.pc = "start_invoke"]
      [] c.ret = "due" -> [c EXCEPT !.pc = "restart_invoke"]
      [] c.ret = "pre_restart" -> [c EXCEPT !.pc = "restart_begin"]
      [] c.ret = "up_check" -> [c EXCEPT !.pc = "up_check",
                                         !.todo = Tail(c.todo)]

\* ensure_dependencies_running reports every failure as a conflict; a
\* scheduled restart is then deferred, which only moves its deadline.
deps_failed(c) ==
    CASE c.ret = "start" -> [c EXCEPT !.pc = "abort", !.err = "conflict",
                                      !.deps = << >>]
      [] c.ret = "due" -> next_due([c EXCEPT !.deps = << >>])
      [] OTHER -> at("idle")

-----------------------------------------------------------------------------
(* The engine and the operating system (external) *)

\* What `proot-distro ps --quiet` may say of the held session of s.
registry(s) ==
    CASE tracer[s] = "live" -> {"listed"} \cup
             (IF "ps" \in Faults THEN {"missing", "error"} ELSE {})
      [] tracer[s] = "signal" -> {"listed", "missing"} \cup
             (IF "ps" \in Faults THEN {"error"} ELSE {})
      [] OTHER -> {IF guest[s] THEN "listed" ELSE "missing"} \cup
             (IF "ps" \in Faults THEN {"listed", "error"} ELSE {})

\* The daemon lets go of the handle of s, whose tree may be alive.
let_go(s) ==
    /\ handle' = [handle EXCEPT ![s] = "none"]
    /\ tracer' = [tracer EXCEPT ![s] = "none"]
    /\ guest' = [guest EXCEPT ![s] = FALSE]
    /\ orphan' = [orphan EXCEPT ![s] = orphan[s] \/ guest[s]]

\* A kill that the engine acknowledged and whose tracer was then reaped.
drained(s) ==
    /\ handle' = [handle EXCEPT ![s] = "none"]
    /\ tracer' = [tracer EXCEPT ![s] = "none"]
    /\ guest' = [guest EXCEPT ![s] = FALSE]
    /\ UNCHANGED orphan

TracerExits(s) ==
    /\ handle[s] # "none"
    /\ tracer[s] = "live"
    /\ \/ /\ \E status \in {"ok", "fail"} :
                tracer' = [tracer EXCEPT ![s] = status]
          /\ \/ guest' = [guest EXCEPT ![s] = FALSE]
             \/ "linger" \in Faults /\ UNCHANGED guest
       \/ /\ "signal" \in Faults
          /\ tracer' = [tracer EXCEPT ![s] = "signal"]
          /\ \/ guest' = [guest EXCEPT ![s] = FALSE]
             \/ UNCHANGED guest
    /\ UNCHANGED <<dbVars, handle, orphan, d>>

TreeEnds(s) ==
    /\ \/ /\ guest[s] /\ tracer[s] # "live"
          /\ guest' = [guest EXCEPT ![s] = FALSE]
          /\ UNCHANGED orphan
       \/ /\ orphan[s]
          /\ orphan' = [orphan EXCEPT ![s] = FALSE]
          /\ UNCHANGED guest
    /\ UNCHANGED <<dbVars, handle, tracer, d>>

-----------------------------------------------------------------------------
(* Shared pieces of runtime.rs *)

\* quarantine_managed_child
quarantine(s) ==
    /\ handle' = [handle EXCEPT ![s] = "uncertain"]
    /\ UNCHANGED <<tracer, guest, orphan>>
    /\ Ignoring(mark_runtime_unknown(s))

quarantine_if_owned(s) ==
    IF handle[s] = "owned" THEN quarantine(s) ELSE UNCHANGED <<dbVars, worldVars>>

\* stop_owned_child: it signals only the exact session it still owns.
can_stop(s) ==
    /\ handle[s] = "owned"
    /\ svc[s].ident = "session"
    /\ "listed" \in registry(s)

stop_errors(s) ==
    IF handle[s] # "owned" THEN {"identity"}
    ELSE (IF svc[s].ident # "session" \/ "missing" \in registry(s)
          THEN {"identity"} ELSE {})
         \cup (IF "error" \in registry(s) \/ "proc" \in Faults
               THEN {"engine"} ELSE {})
         \cup (IF "store" \in Faults THEN {"store"} ELSE {})
         \cup (IF "kill" \in Faults /\ can_stop(s)
               THEN {"engine", "timeout"} ELSE {})
         \cup (IF "wait" \in Faults /\ can_stop(s) THEN {"io"} ELSE {})

stop_owned_child(s) == can_stop(s) /\ drained(s)

\* Mutants: one attempt too many, and an attempt that is not counted.
MutScheduleOnceMore(s) ==
    \E previous \in {0, svc[s].attempts} :
        IF previous <= MAX_RESTART_ATTEMPTS
        THEN schedule_restart_ok(s) /\ schedule_restart(s, previous + 1)
        ELSE UNCHANGED dbVars
MutScheduleUncounted(s) ==
    \E previous \in {0, svc[s].attempts} :
        IF previous < MAX_RESTART_ATTEMPTS
        THEN schedule_restart_ok(s) /\ schedule_restart(s, previous)
        ELSE UNCHANGED dbVars

\* schedule_restart_after_exit and reschedule_after_early_exit: the window
\* is still open (previous = attempts) or has expired (previous = 0).
schedule_or_give_up(s) ==
    \E previous \in {0, svc[s].attempts} :
        IF previous < MAX_RESTART_ATTEMPTS
        THEN \/ schedule_restart_ok(s) /\ schedule_restart(s, previous + 1)
             \/ StoreFails(schedule_restart_ok(s))
        ELSE UNCHANGED dbVars

schedule_restart_after_exit(s) ==
    IF stack.desired = "running" THEN schedule_or_give_up(s)
    ELSE UNCHANGED dbVars

holding == \E s \in Services : handle[s] # "none"

\* A pass of shutdown over the stack; again: Drop may run one more.  When
\* the status rows cannot be read (err "store") only handles are considered,
\* and the committed manifest may be unreadable too.
begin_shutdown(again) ==
    \/ d' = [at("shutdown") EXCEPT !.todo = StopOrder(committed),
                                  !.again = again]
    \/ /\ "store" \in Faults
       /\ \E manifest \in {committed, FALSE} :
             d' = [at("shutdown") EXCEPT !.todo = StopOrder(manifest),
                                         !.again = again, !.err = "store"]

-----------------------------------------------------------------------------
(* Daemon lifetime *)

Boot ==
    /\ d.pc = "dead"
    /\ d' = at("reconcile")
    /\ UNCHANGED <<dbVars, worldVars>>

Reconcile ==
    /\ d.pc = "reconcile"
    /\ \/ reconcile_cold_start /\ goto("resume")
       \/ StoreFails(TRUE) /\ d' = at("dead")
    /\ UNCHANGED worldVars

\* resume_gracefully_stopped: only a stack whose services were all proven
\* stopped by the previous daemon is started again.
Resume ==
    /\ d.pc = "resume"
    /\ LET resuming == /\ committed
                       /\ stack.desired = "running"
                       /\ \A s \in Services : resumable(svc[s])
       IN  \/ /\ resuming
              /\ begin_start_current_ok
              /\ begin_start_current("resume", Services)
              /\ begin_starting([d EXCEPT !.job = "resume",
                                         !.order = Order], Order)
           \/ ~resuming /\ return /\ UNCHANGED dbVars
           \/ /\ StoreFails(resuming => begin_start_current_ok)
              /\ d' = at("dead")
    /\ UNCHANGED worldVars

\* The process ends: its handles are gone, its children live on.
process_ends ==
    /\ d' = at("dead")
    /\ handle' = [s \in Services |-> "none"]
    /\ tracer' = [s \in Services |-> "none"]
    /\ guest' = [s \in Services |-> FALSE]
    /\ orphan' = [s \in Services |-> orphan[s] \/ guest[s]]

Crash ==
    /\ "crash" \in Faults
    /\ d.pc # "dead"
    /\ process_ends
    /\ UNCHANGED dbVars

\* A client request, or a turn of the serve loop without one.
Accept ==
    /\ d.pc = "idle"
    /\ \/ d' = at("tick")
       \/ \E m \in Defs :
             d' = [at("tick") EXCEPT !.job = "up", !.def = m]
       \/ stack.exists /\ d' = [at("tick") EXCEPT !.job = "down"]
       \/ \E s \in Services :
             d' = [at("tick") EXCEPT !.job = "restart", !.cur = s]
    /\ UNCHANGED <<dbVars, worldVars>>

-----------------------------------------------------------------------------
(* tick *)

TickUncertain ==
    /\ d.pc = "tick"
    /\ LET gone == {s \in Services : handle[s] = "uncertain"
                                     /\ tracer[s] \in Exited}
       IN  /\ handle' = [s \in Services |->
                           IF s \in gone THEN "none" ELSE handle[s]]
           /\ tracer' = [s \in Services |->
                           IF s \in gone THEN "none" ELSE tracer[s]]
           /\ guest' = [s \in Services |-> s \notin gone /\ guest[s]]
           /\ orphan' = [s \in Services |->
                           orphan[s] \/ (s \in gone /\ guest[s])]
    /\ d' = [d EXCEPT !.pc = "tick_child", !.todo = Names]
    /\ UNCHANGED dbVars

tick_next == d' = [d EXCEPT !.pc = IF Tail(d.todo) = << >> THEN "tick_due"
                                   ELSE "tick_child",
                            !.todo = Tail(d.todo)]

TickChild ==
    /\ d.pc = "tick_child"
    /\ LET s == Head(d.todo)
       IN  \/ \* not owned, or still running
              /\ handle[s] # "owned" \/ tracer[s] = "live"
              /\ tick_next
              /\ UNCHANGED <<dbVars, worldVars>>
           \/ \* try_wait fails: the child is kept
              /\ handle[s] = "owned" /\ "wait" \in Faults
              /\ Ignoring(mark_runtime_unknown(s))
              /\ tick_next
              /\ UNCHANGED worldVars
           \/ \* exited without proven guest-tree absence
              /\ handle[s] = "owned" /\ tracer[s] \in Exited
              /\ tracer[s] = "signal" \/ registry(s) # {"missing"}
              /\ \/ mark_runtime_unknown(s) /\ let_go(s)
                 \/ StoreFails(TRUE) /\ UNCHANGED worldVars
              /\ tick_next
           \/ \* a proven exit
              /\ handle[s] = "owned" /\ tracer[s] \in {"ok", "fail"}
              /\ "missing" \in registry(s)
              /\ \/ /\ record_exit(s)
                    /\ let_go(s)
                    /\ IF should_restart(s, tracer[s])
                       THEN goto("tick_schedule") ELSE tick_next
                 \/ StoreFails(TRUE) /\ UNCHANGED worldVars /\ tick_next

TickSchedule ==
    /\ d.pc = "tick_schedule"
    /\ schedule_restart_after_exit(Head(d.todo))
    /\ tick_next
    /\ UNCHANGED worldVars

\* due_restarts: any subset of the pending restarts may be due by now.
TickDue ==
    /\ d.pc = "tick_due"
    /\ \/ \E D \in SUBSET {s \in Services : due_restart(svc[s])} :
             d' = next_due([d EXCEPT !.due = D])
       \/ "store" \in Faults /\ return
    /\ UNCHANGED <<dbVars, worldVars>>

\* Mutant: a deferred restart is tried again at once.
MutDue ==
    /\ d.pc = "due"
    /\ \E s \in d.due :
          \/ /\ committed /\ due_restart(svc[s])
             /\ d' = [d EXCEPT !.cur = s, !.pc = "deps",
                               !.deps = DependsOn[s], !.ret = "due"]
          \/ /\ ~(committed /\ due_restart(svc[s])) \/ "store" \in Faults
             /\ d' = next_due([d EXCEPT !.cur = s])
    /\ UNCHANGED <<dbVars, worldVars>>

\* perform_scheduled_restart, up to its dependency check.  An error here is
\* deferred: defer_restart moves the deadline and nothing else.
Due ==
    /\ d.pc = "due"
    /\ \E s \in d.due :
          LET c == [d EXCEPT !.cur = s, !.due = d.due \ {s}]
          IN  \/ /\ committed /\ due_restart(svc[s])
                 /\ d' = [c EXCEPT !.pc = "deps", !.deps = DependsOn[s],
                                   !.ret = "due"]
              \/ /\ ~(committed /\ due_restart(svc[s])) \/ "store" \in Faults
                 /\ d' = next_due(c)
    /\ UNCHANGED <<dbVars, worldVars>>

RestartInvoke ==
    /\ d.pc = "restart_invoke"
    /\ \/ /\ mark_restart_invoked_ok(d.cur)
          /\ mark_restart_invoked(d.cur)
          /\ goto("spawn")
       \/ /\ StoreFails(mark_restart_invoked_ok(d.cur)
                        /\ "io" \notin Faults)
          /\ d' = next_due(d)
    /\ UNCHANGED worldVars

\* A proven pre-spawn failure restores the same backoff attempt.
Restore ==
    /\ d.pc = "restore"
    /\ \/ /\ restore_restart_backoff_ok(d.cur)
          /\ restore_restart_backoff(d.cur)
       \/ /\ "store" \in Faults
          /\ Ignoring(mark_runtime_unknown(d.cur))
    /\ d' = next_due(d)
    /\ UNCHANGED worldVars

Reschedule ==
    /\ d.pc = "reschedule"
    /\ schedule_or_give_up(d.cur)
    /\ d' = next_due(d)
    /\ UNCHANGED worldVars

DueUnknown ==
    /\ d.pc = "due_unknown"
    /\ Ignoring(mark_runtime_unknown(d.cur))
    /\ d' = next_due(d)
    /\ UNCHANGED worldVars

-----------------------------------------------------------------------------
(* up *)

\* up, after its tick and preflight_manifest: reject, converge the committed
\* definition, or prepare a candidate.
Up ==
    /\ d.pc = "up"
    /\ LET unknown == /\ stack.exists
                      /\ \/ stack.observed = "unknown"
                         \/ \E s \in Services : svc[s].observed = "unknown"
           same == committed /\ stack.def = d.def
           uncertain == \E s \in Services : handle[s] = "uncertain"
           changing == committed /\ ~same /\ stack.desired # "stopped"
       IN  \/ /\ unknown \/ (same /\ uncertain) \/ changing \/ "store" \in Faults
              /\ return
           \/ /\ ~unknown /\ same /\ ~uncertain
              /\ d' = [d EXCEPT !.pc = "up_check", !.todo = Order]
           \/ /\ ~unknown /\ ~same /\ ~changing
              /\ goto("cand_begin")
    /\ UNCHANGED <<dbVars, worldVars>>

\* One service of the committed definition: revalidate an owned one, collect
\* a proven-absent one, refuse anything else.
UpCheck ==
    /\ d.pc = "up_check"
    /\ d.todo # << >>
    /\ LET s == Head(d.todo)
           running == svc[s].desired = "running" /\ svc[s].observed = "running"
           startable == /\ svc[s].observed \in {"stopped", "failed"}
                        /\ ~svc[s].backoff
       IN  \/ /\ handle[s] = "owned" /\ running
              /\ d' = [d EXCEPT !.pc = "deps", !.deps = <<s>>,
                                !.ret = "up_check"]
           \/ /\ handle[s] # "owned" /\ startable
              /\ d' = [d EXCEPT !.order = Append(d.order, s),
                                !.todo = Tail(d.todo)]
           \/ /\ IF handle[s] = "owned" THEN ~running ELSE ~startable
              /\ return
    /\ UNCHANGED <<dbVars, worldVars>>

UpConverge ==
    /\ d.pc = "up_check"
    /\ d.todo = << >>
    /\ \/ /\ d.order = << >>
          /\ record_noop_up(d.def) \/ StoreFails(TRUE)
          /\ return
       \/ /\ d.order # << >>
          /\ goto("begin_current")
          /\ UNCHANGED dbVars
    /\ UNCHANGED worldVars

BeginCurrent ==
    /\ d.pc = "begin_current"
    /\ \/ /\ begin_start_current_ok
          /\ begin_start_current("up", ToSet(d.order))
          /\ begin_starting(d, d.order)
       \/ StoreFails(begin_start_current_ok) /\ return
    /\ UNCHANGED worldVars

\* prepare_candidate: recover the failed candidate or begin a fresh one.
CandBegin ==
    /\ d.pc = "cand_begin"
    /\ \/ /\ \/ /\ begin_candidate_recovery_ok(d.def)
                /\ begin_candidate_recovery(d.def)
             \/ begin_up_ok(d.def) /\ begin_up(d.def)
          /\ d' = start_next([d EXCEPT !.order = Order], Order)
       \/ /\ StoreFails(begin_candidate_recovery_ok(d.def)
                        \/ begin_up_ok(d.def))
          /\ return
    /\ UNCHANGED worldVars

\* start_installed_candidate or install_and_start_candidate, up to the logs.
CandSvc ==
    /\ d.pc = "cand_svc"
    /\ \/ goto(IF oprow[d.cur].phase = "installed" THEN "deps" ELSE "logs")
       \/ "io" \in Faults /\ d' = start_fails(d, "io")
    /\ UNCHANGED <<dbVars, worldVars>>

\* A journal write of the running operation that its error path aborts.
Journal(p, ok, transaction, next) ==
    /\ d.pc = p
    /\ \/ ok /\ transaction /\ goto(next)
       \/ StoreFails(ok) /\ d' = start_fails(d, "store")
    /\ UNCHANGED worldVars

MarkLogsPrepared ==
    Journal("logs", set_service_phase_ok(d.cur),
            set_service_phase(d.cur, "logs_prepared"), "install_invoke")

MarkInstallInvoked ==
    Journal("install_invoke", set_service_phase_ok(d.cur),
            set_service_phase(d.cur, "install_invoked"), "install")

Install ==
    /\ d.pc = "install"
    /\ \/ goto("installed")
       \/ "install" \in Faults /\ goto("install_unknown")
    /\ UNCHANGED <<dbVars, worldVars>>

MarkInstalled ==
    Journal("installed", TRUE, mark_installed(d.cur), "deps")

MarkRootfsUnknown ==
    Journal("install_unknown", TRUE, mark_rootfs_unknown(d.cur),
            "install_failed")

MarkInstallFailed ==
    /\ d.pc = "install_failed"
    /\ \/ mark_service_failed(d.cur, TRUE) /\ d' = start_fails(d, "engine")
       \/ StoreFails(TRUE) /\ d' = start_fails(d, "store")
    /\ UNCHANGED worldVars

-----------------------------------------------------------------------------
(* Dependencies: ensure_dependencies_running, validate_owned_service_running *)

DepsDone ==
    /\ d.pc = "deps"
    /\ d.deps = << >>
    /\ d' = deps_done(d)
    /\ UNCHANGED <<dbVars, worldVars>>

\* Mutant: a dependency this daemon does not own is passed over.
MutDepAbsent ==
    /\ d.pc = "deps"
    /\ d.deps # << >>
    /\ handle[Head(d.deps)] # "owned"
    /\ d' = [d EXCEPT !.deps = Tail(d.deps)]
    /\ UNCHANGED <<dbVars, worldVars>>

DepAbsent ==
    /\ d.pc = "deps"
    /\ d.deps # << >>
    /\ handle[Head(d.deps)] # "owned"
    /\ d' = deps_failed(d)
    /\ UNCHANGED <<dbVars, worldVars>>

DepValid ==
    /\ d.pc = "deps"
    /\ d.deps # << >>
    /\ LET s == Head(d.deps)
       IN  /\ handle[s] = "owned"
           /\ tracer[s] = "live"
           /\ svc[s].ident = "session"
           /\ "listed" \in registry(s)
    /\ d' = [d EXCEPT !.deps = Tail(d.deps)]
    /\ UNCHANGED <<dbVars, worldVars>>

\* The identity of a live dependency cannot be confirmed.
DepUnqualified ==
    /\ d.pc = "deps"
    /\ d.deps # << >>
    /\ LET s == Head(d.deps)
       IN  /\ handle[s] = "owned"
           /\ \/ /\ tracer[s] = "live"
                 /\ \/ svc[s].ident # "session"
                    \/ registry(s) # {"listed"}
                    \/ Faults \cap {"store", "proc"} # {}
              \/ "wait" \in Faults
           /\ quarantine(s)
    /\ d' = deps_failed(d)

DepExitAmbiguous ==
    /\ d.pc = "deps"
    /\ d.deps # << >>
    /\ LET s == Head(d.deps)
       IN  /\ handle[s] = "owned"
           /\ tracer[s] \in Exited
           /\ tracer[s] = "signal" \/ registry(s) # {"missing"}
           /\ let_go(s)
           /\ Ignoring(mark_runtime_unknown(s))
    /\ d' = deps_failed(d)

DepExited ==
    /\ d.pc = "deps"
    /\ d.deps # << >>
    /\ LET s == Head(d.deps)
       IN  /\ handle[s] = "owned"
           /\ tracer[s] \in {"ok", "fail"}
           /\ "missing" \in registry(s)
           /\ let_go(s)
           /\ \/ /\ record_exit(s)
                 /\ IF should_restart(s, tracer[s]) THEN goto("dep_schedule")
                    ELSE d' = deps_failed(d)
              \/ StoreFails(TRUE) /\ d' = deps_failed(d)

DepSchedule ==
    /\ d.pc = "dep_schedule"
    /\ schedule_restart_after_exit(Head(d.deps))
    /\ d' = deps_failed(d)
    /\ UNCHANGED worldVars

-----------------------------------------------------------------------------
(* Starting one service: start_operation_child and spawn_and_qualify *)

MarkStartInvoked ==
    /\ d.pc = "start_invoke"
    /\ \/ /\ set_service_phase_ok(d.cur)
          /\ set_service_phase(d.cur, "start_invoked")
          /\ goto("spawn")
       \/ /\ StoreFails(set_service_phase_ok(d.cur))
          /\ d' = start_fails(d, "store")
       \/ \* open_logs of a committed service
          /\ "io" \in Faults /\ ~op.candidate
          /\ UNCHANGED dbVars
          /\ d' = start_fails(d, "io")
    /\ UNCHANGED worldVars

Spawn ==
    /\ d.pc = "spawn"
    /\ handle[d.cur] = "none"
    /\ handle' = [handle EXCEPT ![d.cur] = "fresh"]
    /\ tracer' = [tracer EXCEPT ![d.cur] = "live"]
    /\ guest' = [guest EXCEPT ![d.cur] = TRUE]
    /\ goto("journal")
    /\ UNCHANGED <<dbVars, orphan>>

\* Ports, binds or the exec fail, or a handle for the service exists.
SpawnRefused ==
    /\ d.pc = "spawn"
    /\ \E e \in (IF handle[d.cur] # "none" THEN {"identity"} ELSE {})
                \cup (IF "spawn" \in Faults THEN {"prespawn"} ELSE {}) :
          d' = start_fails(d, e)
    /\ UNCHANGED <<dbVars, worldVars>>

JournalChild ==
    /\ d.pc = "journal"
    /\ \/ /\ IF d.ret = "due" THEN mark_restart_starting(d.cur)
             ELSE mark_starting(d.cur)
          /\ \/ /\ handle' = [handle EXCEPT ![d.cur] = "owned"]
                /\ goto("qualify")
             \/ /\ "store" \in Faults   \* the identity cannot be read back
                /\ goto("contain")
                /\ UNCHANGED handle
       \/ /\ Faults \cap {"store", "proc"} # {}
          /\ goto("contain")
          /\ UNCHANGED <<dbVars, handle>>
    /\ UNCHANGED <<tracer, guest, orphan>>

\* contain_unqualified_child
Contain ==
    /\ d.pc = "contain"
    /\ \/ tracer[d.cur] \in Exited /\ let_go(d.cur)
       \/ "listed" \in registry(d.cur) /\ drained(d.cur)
       \/ /\ Faults \cap {"ps", "kill", "wait"} # {}
          /\ handle' = [handle EXCEPT ![d.cur] = "uncertain"]
          /\ UNCHANGED <<tracer, guest, orphan>>
    /\ d' = start_fails(d, "uncertain")
    /\ UNCHANGED dbVars

Qualify ==
    /\ d.pc = "qualify"
    /\ tracer[d.cur] = "live"
    /\ "listed" \in registry(d.cur)
    /\ goto("mark_running")
    /\ UNCHANGED <<dbVars, worldVars>>

\* The session never shows up, or it cannot be observed.
QualifyFails ==
    /\ d.pc = "qualify"
    /\ \/ /\ tracer[d.cur] = "live" /\ "missing" \in registry(d.cur)
          /\ d' = start_fails(d, "session")
       \/ /\ \/ tracer[d.cur] = "live" /\ "error" \in registry(d.cur)
             \/ "wait" \in Faults
          /\ d' = start_fails(d, "uncertain")
    /\ quarantine(d.cur)

\* The child exits before its session is seen.
QualifyExited ==
    /\ d.pc = "qualify"
    /\ tracer[d.cur] \in Exited
    /\ let_go(d.cur)
    /\ \/ /\ tracer[d.cur] = "signal" \/ registry(d.cur) # {"missing"}
          /\ Ignoring(mark_runtime_unknown(d.cur))
          /\ d' = start_fails(d, "uncertain")
       \/ /\ tracer[d.cur] # "signal" /\ "missing" \in registry(d.cur)
          /\ \/ /\ record_exit(d.cur)
                /\ d' = IF d.ret # "due" THEN start_fails(d, "exited")
                        ELSE IF should_restart(d.cur, tracer[d.cur])
                        THEN [d EXCEPT !.pc = "reschedule"] ELSE next_due(d)
             \/ StoreFails(TRUE) /\ d' = start_fails(d, "store")

MarkRunning ==
    /\ d.pc = "mark_running"
    /\ \/ /\ IF d.ret = "due"
             THEN mark_restart_running(d.cur) /\ d' = next_due(d)
             ELSE /\ mark_running(d.cur)
                  /\ d' = start_next([d EXCEPT
                             !.started = Append(d.started, d.cur)], d.todo)
          /\ UNCHANGED worldVars
       \/ /\ "store" \in Faults
          /\ quarantine(d.cur)
          /\ d' = start_fails(d, "store")

\* commit_up, finish_start_current or finish_restart
Finish ==
    /\ d.pc = "finish"
    /\ LET ok == IF op.candidate THEN commit_up_ok ELSE finish_start_current_ok
       IN  \/ /\ ok
              /\ IF op.candidate THEN commit_up ELSE finish_start_current
              /\ return
           \/ StoreFails(ok) /\ d' = start_fails(d, "store")
    /\ UNCHANGED worldVars

-----------------------------------------------------------------------------
(* A failed start: abort_start_operation and abort_restart_operation *)

cleanup_next(c, q) ==
    IF q = << >> THEN [c EXCEPT !.pc = "finalize", !.todo = << >>]
    ELSE [c EXCEPT !.pc = "cleanup", !.todo = q]

\* Mutant: the services already started are not stopped.
MutAbortOthersNext(c, q) ==
    IF q = << >> THEN [c EXCEPT !.pc = "finalize", !.todo = << >>]
    ELSE [c EXCEPT !.pc = "abort_others", !.todo = q]

abort_others_next(c, q) ==
    IF q = << >> THEN cleanup_next(c, Reverse(c.started))
    ELSE [c EXCEPT !.pc = "abort_others", !.todo = q]

\* Mutant: children left over by a failed cleanup stay owned.
MutSurvivorsNext(c, q) == [c EXCEPT !.pc = "finalize", !.todo = << >>]

survivors_next(c, q) ==
    IF q = << >> THEN [c EXCEPT !.pc = "finalize", !.todo = << >>]
    ELSE [c EXCEPT !.pc = "survivors", !.todo = q]

\* record_operation_failure ignores the error of its transaction.
record_failure(s, unknown) ==
    \/ mark_service_failed_ok(s) /\ mark_service_failed(s, unknown)
    \/ StoreFails(mark_service_failed_ok(s))

Abort ==
    /\ d.pc = "abort"
    /\ record_failure(d.cur, ambiguous(d.err))
    /\ d' = IF d.job # "restart" THEN abort_others_next(d, d.order)
            ELSE IF handle[d.cur] # "owned" THEN cleanup_next(d, << >>)
            ELSE IF d.ret = "start" THEN cleanup_next(d, <<d.cur>>)
            ELSE survivors_next(d, <<d.cur>>)
    /\ UNCHANGED worldVars

\* Mutant: the services not reached yet get no outcome.
MutAbortOthers ==
    /\ d.pc = "abort_others"
    /\ d' = abort_others_next(d, Tail(d.todo))
    /\ UNCHANGED <<dbVars, worldVars>>

AbortOthers ==
    /\ d.pc = "abort_others"
    /\ LET s == Head(d.todo)
       IN  IF s = d.cur \/ s \in ToSet(d.started) THEN UNCHANGED dbVars
           ELSE record_failure(s, FALSE)
    /\ d' = abort_others_next(d, Tail(d.todo))
    /\ UNCHANGED worldVars

\* stop_started_after_failed_up: in reverse start order, up to a failure.
Cleanup ==
    /\ d.pc = "cleanup"
    /\ LET s == Head(d.todo)
       IN  \/ /\ stop_owned_child(s)
              /\ goto("cleanup_exit")
              /\ UNCHANGED dbVars
           \/ \E e \in stop_errors(s) :
                 /\ quarantine_if_owned(s)
                 /\ d' = [d EXCEPT !.pc = "cleanup_mark", !.err = e]

CleanupExit ==
    /\ d.pc = "cleanup_exit"
    /\ \/ record_exit(Head(d.todo)) /\ d' = cleanup_next(d, Tail(d.todo))
       \/ /\ "store" \in Faults
          /\ Ignoring(mark_runtime_unknown(Head(d.todo)))
          /\ d' = survivors_next(d, Reverse(Tail(d.todo)))
    /\ UNCHANGED worldVars

CleanupMark ==
    /\ d.pc = "cleanup_mark"
    /\ record_failure(Head(d.todo), ambiguous(d.err))
    /\ d' = survivors_next(d, Reverse(Tail(d.todo)))
    /\ UNCHANGED worldVars

\* quarantine_cleanup_survivors
Survivors ==
    /\ d.pc = "survivors"
    /\ quarantine_if_owned(Head(d.todo))
    /\ d' = survivors_next(d, Tail(d.todo))

\* A failed resume ends the daemon; Drop shuts down what it still holds.
Finalize ==
    /\ d.pc = "finalize"
    /\ \/ finalize_operation_failure_ok /\ finalize_operation_failure
       \/ StoreFails(finalize_operation_failure_ok)
    /\ IF d.job # "resume" THEN return
       ELSE IF holding THEN begin_shutdown(FALSE)
       ELSE d' = at("dead")
    /\ UNCHANGED worldVars

-----------------------------------------------------------------------------
(* down *)

DownBegin ==
    /\ d.pc = "down_begin"
    /\ \/ /\ begin_down_ok
          /\ begin_down
          /\ \/ d' = [d EXCEPT !.pc = "down_svc", !.todo = StopOrder(committed)]
             \/ "store" \in Faults /\ goto("down_quarantine")
       \/ StoreFails(begin_down_ok) /\ return
    /\ UNCHANGED worldVars

DownSvc ==
    /\ d.pc = "down_svc"
    /\ d.todo # << >>
    /\ LET s == Head(d.todo)
           proven == svc[s].observed \in {"stopped", "unknown"}
       IN  \/ /\ handle[s] = "owned"
              /\ \/ /\ set_service_phase_ok(s)
                    /\ set_service_phase(s, "stop_invoked")
                    /\ goto("down_stop")
                 \/ /\ StoreFails(set_service_phase_ok(s))
                    /\ goto("down_quarantine")
           \/ /\ handle[s] # "owned"
              /\ d' = IF proven THEN [d EXCEPT !.todo = Tail(d.todo)]
                      ELSE [d EXCEPT !.pc = "down_quarantine"]
              /\ UNCHANGED dbVars
    /\ UNCHANGED worldVars

DownStop ==
    /\ d.pc = "down_stop"
    /\ LET s == Head(d.todo)
       IN  \/ stop_owned_child(s) /\ goto("down_stopped")
           \/ /\ stop_errors(s) # {}
              /\ goto("down_quarantine")
              /\ UNCHANGED worldVars
    /\ UNCHANGED dbVars

DownStopped ==
    /\ d.pc = "down_stopped"
    /\ LET s == Head(d.todo)
       IN  \/ /\ mark_stopped_ok(s)
              /\ mark_stopped(s)
              /\ d' = [d EXCEPT !.pc = "down_svc", !.todo = Tail(d.todo)]
           \/ StoreFails(mark_stopped_ok(s)) /\ goto("down_quarantine")
    /\ UNCHANGED worldVars

DownFinish ==
    /\ d.pc = "down_svc"
    /\ d.todo = << >>
    /\ \/ finish_down_ok /\ finish_down /\ return
       \/ StoreFails(finish_down_ok) /\ goto("down_quarantine")
    /\ UNCHANGED worldVars

\* A failed down quarantines every child it still owns.
DownQuarantine ==
    /\ d.pc = "down_quarantine"
    /\ \/ \E s \in Services :
             /\ handle[s] = "owned"
             /\ quarantine(s)
             /\ UNCHANGED d
       \/ /\ \A s \in Services : handle[s] # "owned"
          /\ goto("down_final")
          /\ UNCHANGED <<dbVars, worldVars>>

DownFinal ==
    /\ d.pc = "down_final"
    /\ \/ finalize_down_failure_ok /\ finalize_down_failure
       \/ StoreFails(finalize_down_failure_ok)
    /\ return
    /\ UNCHANGED worldVars

-----------------------------------------------------------------------------
(* restart *)

Restart ==
    /\ d.pc = "restart"
    /\ d' = IF committed THEN [d EXCEPT !.pc = "deps", !.ret = "pre_restart",
                                        !.deps = DependsOn[d.cur]]
            ELSE at("idle")
    /\ UNCHANGED <<dbVars, worldVars>>

RestartBegin ==
    /\ d.pc = "restart_begin"
    /\ LET ok == handle[d.cur] = "owned" /\ begin_restart_ok(d.cur)
       IN  \/ ok /\ begin_restart(d.cur) /\ goto("restart_stop_invoke")
           \/ StoreFails(ok) /\ return
    /\ UNCHANGED worldVars

RestartStopInvoke ==
    Journal("restart_stop_invoke", mark_restart_stop_invoked_ok(d.cur),
            mark_restart_stop_invoked(d.cur), "restart_stop")

RestartStop ==
    /\ d.pc = "restart_stop"
    /\ \/ stop_owned_child(d.cur) /\ goto("restart_stopped")
       \/ /\ \E e \in stop_errors(d.cur) : d' = start_fails(d, e)
          /\ UNCHANGED worldVars
    /\ UNCHANGED dbVars

RestartStopped ==
    /\ d.pc = "restart_stopped"
    /\ \/ /\ mark_restart_stopped_ok(d.cur)
          /\ mark_restart_stopped(d.cur)
          /\ begin_starting(d, <<d.cur>>)
       \/ /\ StoreFails(mark_restart_stopped_ok(d.cur))
          /\ d' = start_fails(d, "store")
    /\ UNCHANGED worldVars

-----------------------------------------------------------------------------
(* SIGTERM: shutdown, and once more from Drop if a child is still held *)

SigTerm ==
    /\ d.pc = "idle"
    /\ IF holding \/ \E s \in Services : due_restart(svc[s])
       THEN begin_shutdown(TRUE) /\ UNCHANGED worldVars
       ELSE process_ends
    /\ UNCHANGED dbVars

shutdown_next == d' = [d EXCEPT !.pc = "shutdown", !.todo = Tail(d.todo)]

\* A service without an owned child.
ShutdownAbsent ==
    /\ d.pc = "shutdown"
    /\ d.todo # << >>
    /\ LET s == Head(d.todo)
           active == svc[s].observed \in {"preparing", "starting", "running",
                                         "stopping", "restarting"}
           blind == d.err = "store"
       IN  \/ /\ handle[s] = "uncertain"
              /\ Ignoring(mark_runtime_unknown(s))
              /\ goto("shutdown_end")
           \/ /\ handle[s] = "none" /\ ~blind /\ due_restart(svc[s])
              /\ \/ /\ record_graceful_backoff_stop_ok(s)
                    /\ record_graceful_backoff_stop(s)
                    /\ shutdown_next
                 \/ /\ "store" \in Faults
                    /\ Ignoring(mark_runtime_unknown(s))
                    /\ goto("shutdown_end")
           \/ /\ handle[s] = "none" /\ ~blind /\ active /\ ~due_restart(svc[s])
              /\ Ignoring(mark_runtime_unknown(s))
              /\ goto("shutdown_end")
           \/ /\ handle[s] = "none" /\ (blind \/ ~active)
              /\ shutdown_next
              /\ UNCHANGED dbVars
    /\ UNCHANGED worldVars

ShutdownStop ==
    /\ d.pc = "shutdown"
    /\ d.todo # << >>
    /\ LET s == Head(d.todo)
       IN  /\ handle[s] = "owned"
           /\ \/ /\ stop_owned_child(s)
                 /\ goto("shutdown_record")
                 /\ UNCHANGED dbVars
              \/ /\ stop_errors(s) # {}
                 /\ quarantine(s)
                 /\ goto("shutdown_end")

ShutdownRecord ==
    /\ d.pc = "shutdown_record"
    /\ LET s == Head(d.todo)
       IN  \/ /\ record_graceful_stop_ok(s)
              /\ record_graceful_stop(s)
              /\ shutdown_next
           \/ /\ ~record_graceful_stop_ok(s) \/ "store" \in Faults
              /\ Ignoring(mark_runtime_unknown(s))
              /\ goto("shutdown_end")
    /\ UNCHANGED worldVars

ShutdownEnd ==
    /\ \/ d.pc = "shutdown_end"
       \/ d.pc = "shutdown" /\ d.todo = << >>
    /\ IF d.again /\ holding
       THEN begin_shutdown(FALSE) /\ UNCHANGED worldVars
       ELSE process_ends
    /\ UNCHANGED dbVars

-----------------------------------------------------------------------------
Supervise ==
    \/ TickUncertain \/ TickChild \/ TickSchedule \/ TickDue \/ Due
    \/ RestartInvoke \/ Restore \/ Reschedule \/ DueUnknown

Prepare ==
    \/ Up \/ UpCheck \/ UpConverge \/ BeginCurrent \/ CandBegin \/ CandSvc
    \/ MarkLogsPrepared \/ MarkInstallInvoked \/ Install \/ MarkInstalled
    \/ MarkRootfsUnknown \/ MarkInstallFailed

Depend ==
    \/ DepsDone \/ DepAbsent \/ DepValid \/ DepUnqualified
    \/ DepExitAmbiguous \/ DepExited \/ DepSchedule

StartOne ==
    \/ MarkStartInvoked \/ Spawn \/ SpawnRefused \/ JournalChild \/ Contain
    \/ Qualify \/ QualifyFails \/ QualifyExited \/ MarkRunning \/ Finish

AbortStart ==
    \/ Abort \/ AbortOthers \/ Cleanup \/ CleanupExit \/ CleanupMark
    \/ Survivors \/ Finalize

Stop ==
    \/ DownBegin \/ DownSvc \/ DownStop \/ DownStopped \/ DownFinish
    \/ DownQuarantine \/ DownFinal
    \/ Restart \/ RestartBegin \/ RestartStopInvoke \/ RestartStop
    \/ RestartStopped
    \/ ShutdownAbsent \/ ShutdownStop \/ ShutdownRecord \/ ShutdownEnd

\* A step of the daemon that neither waits for a client nor for a signal.
DaemonStep ==
    \/ Reconcile \/ Resume
    \/ Supervise \/ Prepare \/ Depend \/ StartOne \/ AbortStart \/ Stop

Environment ==
    \/ Boot \/ Accept \/ SigTerm \/ Crash
    \/ \E s \in Services : TracerExits(s) \/ TreeEnds(s)

Next == DaemonStep \/ Environment

Spec == Init /\ [][Next]_vars

\* The serve loop keeps running until it ends or is killed; a killed daemon
\* is started again (runit) and some start gets as far as its cold start.
Fairness ==
    /\ WF_vars(DaemonStep)
    /\ WF_vars(Boot)
    /\ SF_vars(Reconcile)
FairSpec == Spec /\ Fairness

-----------------------------------------------------------------------------
(* Properties *)

\* SPECIFICATION.md, invariant 3: spawn_and_qualify never starts a session of
\* a service while an earlier guest tree of that service is still alive, in
\* whatever order exits, failures and crashes led there.
NoSecondSession == \A s \in Services : ~(guest[s] /\ orphan[s])

\* Whatever point the daemon is killed at, the journal holds enough for
\* reconcile_cold_start to classify a service whose guest tree is alive as
\* unknown: intent is durable before each effect and evidence of a session
\* is erased only once its absence is proven.
DurableEvidence ==
    \A s \in Services :
        guest[s] \/ orphan[s] => cold_row(s).observed = "unknown"

\* A service leaves `unknown` only when its guest tree is gone: no abort,
\* cleanup, down or later request turns an ambiguous service into a state
\* that authorizes a new start.  Not claimed when the kill of one service
\* fails in the cleanup after another (CleanupMark): there the code does so.
UnknownIsSticky ==
    [][\A s \in Services :
          svc[s].observed = "unknown" /\ svc'[s].observed # "unknown"
             => ~guest'[s] /\ ~orphan'[s]]_vars

\* A restart deadline is only ever pending for a service that no handle
\* refers to, with an attempt count tick accepts: the collision and the
\* invalid-attempt branches of tick are never taken.
RestartDeadlineSound ==
    \A s \in Services :
        proven_backoff(svc[s]) => /\ handle[s] = "none"
                                  /\ svc[s].attempts \in 1..MAX_RESTART_ATTEMPTS

\* A service is spawned only while this daemon owns every service it depends
\* on, for `up`, `restart`, resume and scheduled restarts alike.
SpawnAfterDependencies ==
    [][\A s \in Services :
          handle[s] = "none" /\ handle'[s] = "fresh"
             => \A t \in ToSet(DependsOn[s]) : handle[t] = "owned"]_vars

\* down and shutdown kill the session of a service only after every service
\* that depends on it has been let go of.
StopAfterDependents ==
    [][d.pc \in {"down_stop", "shutdown"} /\ d'.pc # "dead" =>
          \A t \in Services : \A s \in ToSet(DependsOn[t]) :
             handle[s] = "owned" /\ handle'[s] = "none"
                => handle[t] # "owned"]_vars

\* Between requests, what the daemon owns belongs to a committed, wanted
\* stack, and a candidate that failed has let go of every service it had
\* started by the time its failure is journalled.
NoPartialStack ==
    \A s \in Services : handle[s] = "owned" =>
        /\ d.pc = "idle" => committed /\ svc[s].desired = "running"
        /\ d.pc = "finalize" => ~op.candidate

\* While no transaction fails, every operation reaches an outcome before the
\* daemon serves the next request; an operation without one would make
\* reject_unfinished refuse all later ones.
OperationFinished == d.pc = "idle" => ~unfinished

\* SPECIFICATION.md section 7: between requests the state of the stack is the
\* one derived from its services, although several transactions change a
\* service without refresh_stack_state.
StatusDerived ==
    d.pc = "idle" /\ stack.exists =>
        stack.observed = derived_state(stack.desired, svc)

\* SPECIFICATION.md section 6 on a failed update: the committed generations
\* "are never restored automatically".  tick starts no service of the
\* committed revision after an update of it has failed.
NeverRestoresCommitted ==
    [][\A s \in Services :
          handle[s] = "none" /\ handle'[s] = "fresh" /\ d.ret = "due"
             => ~(op.candidate /\ op.outcome = "failure")]_vars

\* SPECIFICATION.md section 6 on `up`: when an observation is ambiguous, here
\* the rootfs of a failed install, the stack becomes `unknown`.
InstallAmbiguityReported ==
    d.pc = "idle" /\ (\E s \in Services : gen[s].state = "unknown"
                                          /\ gen[s].role = "candidate")
                 /\ op.candidate
        => stack.observed = "unknown"

\* Whatever fails, the daemon comes back to its serve loop or ends: no abort,
\* cleanup, restart or shutdown path loops or gets stuck.
Responsive == d.pc \notin {"idle", "dead"} ~> d.pc \in {"idle", "dead"}

\* An accepted operation gets an outcome, across any number of crashes: from
\* the daemon that accepted it or from the cold start of a later one.
OperationTerminates == unfinished ~> ~unfinished
=============================================================================
