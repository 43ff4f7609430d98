------------------------------- MODULE Store -------------------------------
(***************************************************************************)
(* The durable journal of one stack (store.rs): the rows of the tables     *)
(* stacks, services, rootfs_generations, operations and                    *)
(* operation_services, and one operator per SQLite transaction.  Every     *)
(* transaction is atomic; T_ok is the condition under which transaction T  *)
(* commits (its require_one and Conflict checks), T its effect.            *)
(*                                                                         *)
(* Data abstraction.  A manifest with its base directory is a member of    *)
(* Defs; the committed revision is the committed definition (NoDef at      *)
(* revision zero).  The identity columns (session_id, child_pid,           *)
(* child_starttime, boot_id) are none / pid / session.  next_restart_at is *)
(* whether a deadline is set.  Only the newest rootfs generation of a      *)
(* service and the newest operation are kept: older ones are never         *)
(* selected by a query that can change state.                              *)
(***************************************************************************)
EXTENDS Naturals, Sequences, SequencesExt

CONSTANTS
    Services,            \* the service names of the stack's manifest
    Defs,                \* manifest sources the client may submit
    NoDef,               \* no committed (or failed candidate) definition
    Order,               \* manifest.start_order(): a topological order
    MAX_RESTART_ATTEMPTS

ASSUME OrderAssumption ==
    /\ Order \in Seq(Services)
    /\ Len(Order) > 0
    /\ ToSet(Order) = Services
    /\ \A i, j \in 1..Len(Order) : Order[i] = Order[j] => i = j
ASSUME DefsAssumption == NoDef \notin Defs
ASSUME AttemptsAssumption == MAX_RESTART_ATTEMPTS \in Nat \ {0}

VARIABLES
    stack,   \* the stacks row: exists, desired_state, observed_state, manifest
    svc,     \* the services rows
    gen,     \* the newest rootfs_generations row of each service
    cand,    \* definition of the newest failed `up` of the next revision
    op,      \* the newest operations row
    oprow    \* its operation_services rows

dbVars == <<stack, svc, gen, cand, op, oprow>>

-----------------------------------------------------------------------------
Desired == {"running", "stopped"}
Observed == {"absent", "preparing", "starting", "running", "stopping",
             "restarting", "stopped", "failed", "unknown"}
Phase == {"none", "intent", "logs_prepared", "install_invoked", "installed",
          "start_intent", "start_invoked", "starting", "running", "committed",
          "stop_intent", "stop_invoked", "stopped", "restart_stop_intent",
          "restart_stop_invoked", "shutdown_proven", "exited", "backoff",
          "restart_invoked", "restart_starting", "failed",
          "failed_pre_effect", "unknown"}
Identity == {"none", "pid", "session"}
Outcome == {"none", "null", "success", "failure"}
MaybeDef == Defs \cup {NoDef}

StackRow == [exists : BOOLEAN, desired : Desired, observed : Observed,
             def : MaybeDef]
ServiceRow == [desired : Desired, observed : Observed, phase : Phase,
               ident : Identity, backoff : BOOLEAN,
               attempts : 0..MAX_RESTART_ATTEMPTS]
Generation == [state : {"absent", "preparing", "installed", "unknown"},
               role : {"candidate", "current", "retired"},
               pre : BOOLEAN]   \* its operation row ended failed_pre_effect
OpKind == {"none", "up", "down", "restart", "resume"}
Operation == [kind : OpKind, candidate : BOOLEAN, def : MaybeDef,
              outcome : Outcome]
OpRow == [phase : Phase, outcome : Outcome]

StoreTypeOK ==
    /\ stack \in StackRow
    /\ svc \in [Services -> ServiceRow]
    /\ gen \in [Services -> Generation]
    /\ cand \in MaybeDef
    /\ op \in Operation
    /\ oprow \in [Services -> OpRow]

NoRow == [phase |-> "none", outcome |-> "none"]

StoreInit ==
    /\ stack = [exists |-> FALSE, desired |-> "stopped",
                observed |-> "absent", def |-> NoDef]
    /\ svc = [s \in Services |->
                [desired |-> "stopped", observed |-> "absent",
                 phase |-> "none", ident |-> "none", backoff |-> FALSE,
                 attempts |-> 0]]
    /\ gen = [s \in Services |->
                [state |-> "absent", role |-> "retired", pre |-> FALSE]]
    /\ cand = NoDef
    /\ op = [kind |-> "none", candidate |-> FALSE, def |-> NoDef,
             outcome |-> "none"]
    /\ oprow = [s \in Services |-> NoRow]

-----------------------------------------------------------------------------
(* Queries *)

committed == stack.def # NoDef
unfinished == op.outcome = "null"

\* refresh_stack_state: the stack's observed state from its services' rows.
derived_state(desired, rows) ==
    LET seen(v) == \E s \in Services : rows[s].observed = v
        all(v)  == \A s \in Services : rows[s].observed = v
    IN  IF seen("unknown") THEN "unknown"
        ELSE IF desired = "stopped"
             THEN IF all("stopped") THEN "stopped" ELSE "stopping"
        ELSE IF all("running") THEN "running"
        ELSE IF seen("failed") THEN "failed"
        ELSE IF seen("stopping") \/ seen("restarting") THEN "restarting"
        ELSE "starting"

proven_backoff(r) ==
    /\ r.observed = "restarting"
    /\ r.phase = "backoff"
    /\ r.backoff
    /\ r.ident = "none"

\* Neither identity, nor ambiguity, nor a pending restart.
quiet(r) ==
    /\ r.observed \in {"stopped", "failed"}
    /\ r.phase # "unknown"
    /\ r.ident = "none"
    /\ ~r.backoff

\* active_service_rows: the rows that a cold start has to explain.
active_row(r) ==
    \/ r.observed \in {"preparing", "starting", "running", "stopping",
                       "restarting"}
    \/ r.ident # "none"

resumable(r) ==
    /\ r.desired = "running"
    /\ r.observed = "stopped"
    /\ r.phase = "shutdown_proven"

due_restart(r) == r.desired = "running" /\ proven_backoff(r)

\* terminal_candidate_allows_fresh_up
terminal_candidate_allows_fresh_up ==
    \A s \in Services :
        \/ /\ gen[s].state \in {"installed", "absent"}
           /\ gen[s].role \in {"candidate", "retired"}
        \/ /\ gen[s].state = "preparing"
           /\ gen[s].role = "candidate"
           /\ gen[s].pre

reuse_installed(s) == gen[s].state = "installed" /\ gen[s].role = "candidate"

-----------------------------------------------------------------------------
(* Row updates shared by the transactions *)

\* One services row changes and refresh_stack_state runs.
write_refreshed(s, r) ==
    /\ svc' = [svc EXCEPT ![s] = r]
    /\ stack' = [stack EXCEPT !.observed =
                    derived_state(stack.desired, [svc EXCEPT ![s] = r])]

\* One services row changes; the stacks row is left alone.
write_row(s, r) ==
    /\ svc' = [svc EXCEPT ![s] = r]
    /\ UNCHANGED stack

\* set_service_phase
set_service_phase_ok(s) == oprow[s].outcome = "null"
set_service_phase(s, p) ==
    /\ oprow' = [oprow EXCEPT ![s].phase = p]
    /\ write_row(s, [svc[s] EXCEPT !.phase = p])
    /\ UNCHANGED <<gen, cand, op>>

\* Mutant: the operations row is never given its outcome.
MutFinishOp(outcome) ==
    /\ cand' = IF outcome = "failure" /\ op.candidate THEN op.def ELSE cand
    /\ UNCHANGED op

finish_op(outcome) ==
    /\ op' = [op EXCEPT !.outcome = outcome]
    /\ cand' = IF outcome = "failure" /\ op.candidate THEN op.def ELSE cand

fresh_row(r, observed, phase) ==
    [r EXCEPT !.desired = "running", !.observed = observed, !.phase = phase,
              !.ident = "none", !.backoff = FALSE]

-----------------------------------------------------------------------------
(* up: a candidate generation *)

\* begin_candidate_recovery's verdict on a failed candidate.
recovery(d) ==
    IF unfinished THEN "conflict"
    ELSE IF ~stack.exists THEN "not_found"
    ELSE IF \E s \in Services : ~quiet(svc[s]) THEN "conflict"
    ELSE IF cand = NoDef THEN "not_found"
    ELSE IF ~terminal_candidate_allows_fresh_up THEN "conflict"
    ELSE IF cand # d THEN "not_found"
    ELSE "recover"

begin_candidate(d, reused) ==
    /\ stack' = [stack EXCEPT !.exists = TRUE, !.desired = "running",
                              !.observed = "starting"]
    /\ svc' = [s \in Services |->
                 [fresh_row(svc[s],
                            IF s \in reused THEN "starting" ELSE "preparing",
                            IF s \in reused THEN "installed" ELSE "intent")
                    EXCEPT !.attempts = 0]]
    /\ gen' = [s \in Services |->
                 IF s \in reused THEN gen[s]
                 ELSE [state |-> "preparing", role |-> "candidate",
                       pre |-> FALSE]]
    /\ op' = [kind |-> "up", candidate |-> TRUE, def |-> d,
              outcome |-> "null"]
    /\ oprow' = [s \in Services |->
                   [phase |-> IF s \in reused THEN "installed" ELSE "intent",
                    outcome |-> "null"]]
    /\ UNCHANGED cand

begin_candidate_recovery_ok(d) == recovery(d) = "recover"
begin_candidate_recovery(d) ==
    begin_candidate(d, {s \in Services : reuse_installed(s)})

begin_up_ok(d) ==
    /\ recovery(d) = "not_found"
    /\ ~unfinished
    /\ stack.exists => \A s \in Services : quiet(svc[s])
    /\ stack.exists /\ ~committed => terminal_candidate_allows_fresh_up
begin_up(d) == begin_candidate(d, {})

mark_installed(s) ==
    /\ gen' = [gen EXCEPT ![s].state = "installed"]
    /\ oprow' = [oprow EXCEPT ![s].phase = "installed"]
    /\ write_row(s, [svc[s] EXCEPT !.phase = "installed"])
    /\ UNCHANGED <<cand, op>>

mark_rootfs_unknown(s) ==
    /\ gen' = [gen EXCEPT ![s].state = "unknown"]
    /\ UNCHANGED <<stack, svc, cand, op, oprow>>

mark_starting(s) ==
    /\ oprow' = [oprow EXCEPT ![s].phase = "starting"]
    /\ write_refreshed(s, [svc[s] EXCEPT !.observed = "starting",
                                         !.phase = "starting",
                                         !.ident = "pid"])
    /\ UNCHANGED <<gen, cand, op>>

mark_running(s) ==
    /\ oprow' = [oprow EXCEPT ![s] = [phase |-> "running",
                                      outcome |-> "success"]]
    /\ write_refreshed(s, [svc[s] EXCEPT !.observed = "running",
                                         !.phase = "running",
                                         !.ident = "session",
                                         !.attempts = 0,
                                         !.backoff = FALSE])
    /\ UNCHANGED <<gen, cand, op>>

\* mark_service_failed overwrites whatever the row said; it keeps identity.
mark_service_failed_ok(s) == oprow[s].outcome # "none"
\* Mutant: the failure does not refresh the stack's state.
MutMarkServiceFailed(s, unknown) ==
    LET state == IF unknown THEN "unknown" ELSE "failed"
    IN  /\ write_row(s, [svc[s] EXCEPT !.observed = state, !.phase = state])
        /\ oprow' = [oprow EXCEPT ![s] = [phase |-> state,
                                          outcome |-> "failure"]]
        /\ UNCHANGED <<gen, cand, op>>

mark_service_failed(s, unknown) ==
    LET state == IF unknown THEN "unknown" ELSE "failed"
        pre   == ~unknown /\ oprow[s].phase \in {"intent", "logs_prepared"}
    IN  /\ write_refreshed(s, [svc[s] EXCEPT !.observed = state,
                                             !.phase = state])
        /\ oprow' = [oprow EXCEPT ![s] =
                       [phase |-> IF pre THEN "failed_pre_effect" ELSE state,
                        outcome |-> "failure"]]
        /\ gen' = IF op.candidate THEN [gen EXCEPT ![s].pre = pre] ELSE gen
        /\ UNCHANGED <<cand, op>>

finalize_operation_failure_ok ==
    /\ unfinished
    /\ \E s \in Services : oprow[s].outcome = "failure"
    /\ \A s \in Services : oprow[s].outcome # "null"
finalize_operation_failure ==
    /\ finish_op("failure")
    /\ UNCHANGED <<stack, svc, gen, oprow>>

\* Every row the operation has is successful.
complete == \A s \in Services : oprow[s].outcome \in {"none", "success"}

commit_up_ok ==
    /\ unfinished
    /\ complete
    /\ \A s \in Services : reuse_installed(s)
commit_up ==
    /\ gen' = [s \in Services |-> [gen[s] EXCEPT !.role = "current"]]
    /\ svc' = [s \in Services |->
                 [svc[s] EXCEPT !.desired = "running", !.observed = "running",
                                !.phase = "committed"]]
    /\ stack' = [stack EXCEPT !.desired = "running", !.observed = "running",
                              !.def = op.def]
    /\ op' = [op EXCEPT !.outcome = "success"]
    /\ cand' = NoDef
    /\ UNCHANGED oprow

-----------------------------------------------------------------------------
(* up, resume and restart on the committed generations *)

\* The successful row of an `up` that found everything running; an
\* unfinished operation, if any, keeps the slot.
record_noop_up(d) ==
    /\ IF unfinished THEN UNCHANGED <<op, oprow>>
       ELSE /\ op' = [kind |-> "up", candidate |-> FALSE, def |-> d,
                      outcome |-> "success"]
            /\ oprow' = [s \in Services |-> NoRow]
    /\ UNCHANGED <<stack, svc, gen, cand>>

begin_start_current_ok == ~unfinished /\ committed
begin_start_current(kind, names) ==
    /\ svc' = [s \in Services |->
                 IF s \in names THEN fresh_row(svc[s], "starting", "start_intent")
                 ELSE svc[s]]
    /\ oprow' = [s \in Services |->
                   IF s \in names
                   THEN [phase |-> "start_intent", outcome |-> "null"]
                   ELSE NoRow]
    /\ op' = [kind |-> kind, candidate |-> FALSE, def |-> stack.def,
              outcome |-> "null"]
    /\ stack' = [stack EXCEPT !.desired = "running", !.observed = "starting"]
    /\ UNCHANGED <<gen, cand>>

finish_start_current_ok ==
    /\ unfinished
    /\ complete
    /\ \A s \in Services :
          oprow[s].outcome = "success" => svc[s].observed = "running"
finish_start_current ==
    LET rows == [s \in Services |->
                   IF oprow[s].outcome = "success"
                   THEN [svc[s] EXCEPT !.phase = "committed"] ELSE svc[s]]
    IN  /\ svc' = rows
        /\ stack' = [stack EXCEPT !.observed =
                        derived_state(stack.desired, rows)]
        /\ op' = [op EXCEPT !.outcome = "success"]
        /\ UNCHANGED <<gen, cand, oprow>>

begin_restart_ok(s) ==
    /\ ~unfinished
    /\ committed
    /\ svc[s].desired = "running"
    /\ svc[s].observed = "running"
    /\ svc[s].ident = "session"
begin_restart(s) ==
    /\ op' = [kind |-> "restart", candidate |-> FALSE, def |-> NoDef,
              outcome |-> "null"]
    /\ oprow' = [t \in Services |->
                   IF t = s
                   THEN [phase |-> "restart_stop_intent", outcome |-> "null"]
                   ELSE NoRow]
    /\ write_row(s, [svc[s] EXCEPT !.phase = "restart_stop_intent"])
    /\ UNCHANGED <<gen, cand>>

mark_restart_stop_invoked_ok(s) ==
    /\ oprow[s] = [phase |-> "restart_stop_intent", outcome |-> "null"]
    /\ svc[s].ident = "session"
mark_restart_stop_invoked(s) ==
    /\ oprow' = [oprow EXCEPT ![s].phase = "restart_stop_invoked"]
    /\ write_refreshed(s, [svc[s] EXCEPT !.observed = "stopping",
                                         !.phase = "restart_stop_invoked"])
    /\ UNCHANGED <<gen, cand, op>>

\* The row of a service whose exit this daemon observed.
proven_row(r, observed, phase) ==
    [r EXCEPT !.observed = observed, !.phase = phase, !.ident = "none",
              !.backoff = FALSE]

mark_restart_stopped_ok(s) ==
    /\ oprow[s] = [phase |-> "restart_stop_invoked", outcome |-> "null"]
    /\ svc[s].desired = "running"
mark_restart_stopped(s) ==
    /\ oprow' = [oprow EXCEPT ![s].phase = "shutdown_proven"]
    /\ write_refreshed(s, proven_row(svc[s], "stopped", "shutdown_proven"))
    /\ UNCHANGED <<gen, cand, op>>

-----------------------------------------------------------------------------
(* down *)

begin_down_ok == ~unfinished /\ stack.exists

\* Mutant: a row without identity counts as proven absent.
MutDownClass(r) == IF r.ident = "none" THEN "stopped" ELSE "stopping"

\* begin_down's classification of one services row.
down_class(r) ==
    LET absent == r.ident = "none"
        proven == absent /\ (r.observed \in {"stopped", "failed"}
                             \/ proven_backoff(r))
        active == r.observed \in {"preparing", "starting", "running",
                                  "stopping", "restarting"}
    IN  IF proven THEN "stopped"
        ELSE IF r.observed = "unknown" \/ (absent /\ active) THEN "unknown"
        ELSE "stopping"

down_row(r) ==
    LET c == down_class(r)
    IN  [r EXCEPT !.desired = "stopped", !.observed = c, !.backoff = FALSE,
                  !.phase = IF c = "stopping" THEN "stop_intent" ELSE c]

down_oprow(r) ==
    LET c == down_class(r)
    IN  [phase |-> IF c = "stopping" THEN "stop_intent" ELSE c,
         outcome |-> IF c = "stopped" THEN "success"
                     ELSE IF c = "unknown" THEN "failure" ELSE "null"]

begin_down ==
    LET rows == [s \in Services |-> down_row(svc[s])]
        ambiguous == \E s \in Services : rows[s].observed = "unknown"
    IN  /\ svc' = rows
        /\ oprow' = [s \in Services |-> down_oprow(svc[s])]
        /\ op' = [kind |-> "down", candidate |-> FALSE, def |-> NoDef,
                  outcome |-> IF ambiguous THEN "failure" ELSE "null"]
        /\ stack' = [stack EXCEPT !.desired = "stopped",
                                  !.observed = derived_state("stopped", rows)]
        /\ UNCHANGED <<gen, cand>>

mark_stopped_ok(s) ==
    oprow[s].outcome \in {"null", "success"} /\ oprow[s].phase # "unknown"
mark_stopped(s) ==
    /\ write_refreshed(s, [proven_row(svc[s], "stopped", "stopped")
                             EXCEPT !.desired = "stopped"])
    /\ oprow' = [oprow EXCEPT ![s] = [phase |-> "stopped",
                                      outcome |-> "success"]]
    /\ UNCHANGED <<gen, cand, op>>

finish_down_ok == unfinished /\ complete
finish_down ==
    /\ stack' = [stack EXCEPT !.desired = "stopped", !.observed = "stopped"]
    /\ op' = [op EXCEPT !.outcome = "success"]
    /\ UNCHANGED <<svc, gen, cand, oprow>>

finalize_down_failure_ok == unfinished /\ op.kind = "down"
finalize_down_failure ==
    LET left == {s \in Services : oprow[s].outcome # "success"}
    IN  /\ svc' = [s \in Services |->
                     IF s \in left
                     THEN [svc[s] EXCEPT !.desired = "stopped",
                             !.observed = "unknown", !.phase = "unknown"]
                     ELSE svc[s]]
        /\ oprow' = [s \in Services |->
                       IF s \in left
                       THEN [phase |-> "unknown", outcome |-> "failure"]
                       ELSE oprow[s]]
        /\ op' = [op EXCEPT !.outcome = "failure"]
        /\ stack' = [stack EXCEPT !.desired = "stopped",
                                  !.observed = "unknown"]
        /\ UNCHANGED <<gen, cand>>

-----------------------------------------------------------------------------
(* Supervision, scheduled restarts and graceful shutdown *)

record_exit(s) ==
    /\ write_refreshed(s,
         proven_row(svc[s], IF svc[s].desired = "stopped" THEN "stopped"
                            ELSE "failed", "exited"))
    /\ UNCHANGED <<gen, cand, op, oprow>>

mark_runtime_unknown(s) ==
    /\ write_refreshed(s, [svc[s] EXCEPT !.observed = "unknown",
                                         !.phase = "unknown",
                                         !.backoff = FALSE])
    /\ UNCHANGED <<gen, cand, op, oprow>>

schedule_restart_ok(s) == svc[s].desired = "running" /\ svc[s].ident = "none"
schedule_restart(s, attempts) ==
    /\ write_refreshed(s, [svc[s] EXCEPT !.observed = "restarting",
                                         !.phase = "backoff",
                                         !.backoff = TRUE,
                                         !.attempts = attempts])
    /\ UNCHANGED <<gen, cand, op, oprow>>

mark_restart_invoked_ok(s) ==
    /\ svc[s].desired = "running"
    /\ svc[s].phase = "backoff"
    /\ svc[s].backoff
    /\ svc[s].ident = "none"
\* Mutant: the restart is not journalled before its spawn.
MutMarkRestartInvoked(s) == UNCHANGED dbVars

mark_restart_invoked(s) ==
    /\ write_row(s, [svc[s] EXCEPT !.observed = "starting",
                                   !.phase = "restart_invoked",
                                   !.backoff = FALSE])
    /\ UNCHANGED <<gen, cand, op, oprow>>

restore_restart_backoff_ok(s) ==
    /\ svc[s].desired = "running"
    /\ svc[s].observed = "starting"
    /\ svc[s].phase = "restart_invoked"
    /\ svc[s].ident = "none"
restore_restart_backoff(s) ==
    /\ write_row(s, [svc[s] EXCEPT !.observed = "restarting",
                                   !.phase = "backoff", !.backoff = TRUE])
    /\ UNCHANGED <<gen, cand, op, oprow>>

mark_restart_starting(s) ==
    /\ write_row(s, [svc[s] EXCEPT !.observed = "starting",
                                   !.phase = "restart_starting",
                                   !.ident = "pid"])
    /\ UNCHANGED <<gen, cand, op, oprow>>

\* Mutant: no refresh_stack_state after a scheduled restart.
MutMarkRestartRunning(s) ==
    /\ write_row(s, [svc[s] EXCEPT !.observed = "running",
                                   !.phase = "committed",
                                   !.ident = "session",
                                   !.backoff = FALSE])
    /\ UNCHANGED <<gen, cand, op, oprow>>

mark_restart_running(s) ==
    /\ write_refreshed(s, [svc[s] EXCEPT !.observed = "running",
                                         !.phase = "committed",
                                         !.ident = "session",
                                         !.backoff = FALSE])
    /\ UNCHANGED <<gen, cand, op, oprow>>

record_graceful_stop_ok(s) == svc[s].desired = "running"
record_graceful_stop(s) ==
    /\ write_refreshed(s, proven_row(svc[s], "stopped", "shutdown_proven"))
    /\ UNCHANGED <<gen, cand, op, oprow>>

record_graceful_backoff_stop_ok(s) == due_restart(svc[s])
record_graceful_backoff_stop(s) ==
    /\ write_refreshed(s, [svc[s] EXCEPT !.observed = "stopped",
                                         !.phase = "shutdown_proven",
                                         !.backoff = FALSE])
    /\ UNCHANGED <<gen, cand, op, oprow>>

-----------------------------------------------------------------------------
(* Cold start *)

\* Mutant: a start that was invoked is taken for one that never happened.
MutColdClass(r) ==
    IF r.phase \in {"start_intent", "shutdown_proven"} THEN "stopped"
    ELSE IF r.phase \in {"intent", "logs_prepared", "installed",
                         "start_invoked"} THEN "failed"
    ELSE "unknown"

\* The class a cold start gives a service of the unfinished operation.
cold_class(r) ==
    IF r.phase \in {"start_intent", "shutdown_proven"} THEN "stopped"
    ELSE IF r.phase \in {"intent", "logs_prepared", "installed"} THEN "failed"
    ELSE "unknown"

cold_phase(c) == IF c = "stopped" THEN "shutdown_proven" ELSE c

\* The services row a cold start leaves: rows of the unfinished operation
\* are classified by their phase, other active rows become unknown.
cold_row(s) ==
    IF unfinished /\ oprow[s].outcome = "null"
    THEN LET c == cold_class(oprow[s])
         IN  [svc[s] EXCEPT !.observed = c, !.phase = cold_phase(c),
                            !.ident = "none", !.backoff = FALSE]
    ELSE IF active_row(svc[s]) /\ ~proven_backoff(svc[s])
    THEN [svc[s] EXCEPT !.observed = "unknown", !.phase = "unknown",
                        !.ident = "none", !.backoff = FALSE]
    ELSE svc[s]

cold_gen(s) ==
    IF ~(unfinished /\ op.candidate /\ oprow[s].outcome = "null") THEN gen[s]
    ELSE IF oprow[s].phase \in {"intent", "logs_prepared"}
         THEN [gen[s] EXCEPT !.state = "absent", !.role = "retired"]
    ELSE IF oprow[s].phase = "install_invoked"
         THEN [gen[s] EXCEPT !.state = "unknown"]
    ELSE gen[s]

reconcile_cold_start ==
    LET rows == [s \in Services |-> cold_row(s)]
        safe_down == /\ op.kind = "down"
                     /\ complete
                     /\ \A s \in Services :
                           /\ rows[s].desired = "stopped"
                           /\ rows[s].observed = "stopped"
                           /\ rows[s].phase = "stopped"
                           /\ rows[s].ident = "none"
                           /\ ~rows[s].backoff
        desired == IF unfinished /\ safe_down THEN "stopped" ELSE stack.desired
    IN  /\ svc' = rows
        /\ gen' = [s \in Services |-> cold_gen(s)]
        /\ oprow' = [s \in Services |->
                       IF unfinished /\ oprow[s].outcome = "null"
                       THEN [phase |-> cold_phase(cold_class(oprow[s])),
                             outcome |-> "failure"]
                       ELSE oprow[s]]
        /\ IF unfinished
           THEN finish_op(IF safe_down THEN "success" ELSE "failure")
           ELSE UNCHANGED <<op, cand>>
        /\ stack' = IF stack.exists
                    THEN [stack EXCEPT !.desired = desired,
                            !.observed = derived_state(desired, rows)]
                    ELSE stack
=============================================================================
