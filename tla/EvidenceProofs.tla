--------------------------- MODULE EvidenceProofs ---------------------------
(***************************************************************************)
(* What the journal knows of the guest trees (NoSecondSession,             *)
(* DurableEvidence and UnknownIsSticky of module Runtime), for every stack *)
(* and every set of faults that leaves the daemon's view of the engine     *)
(* intact: the database may fail, a log file, an install or a spawn may    *)
(* fail, trees may outlive their tracers, and the daemon may be killed, at *)
(* any point.                                                              *)
(*                                                                         *)
(* DurableEvidence is not inductive: a row may look explained only because *)
(* of an identity column that a later transaction ignores.  Touched is the *)
(* stronger reading that the daemon's own checks use, and the invariant    *)
(* says at which positions a service is known to have no child and no      *)
(* tree.                                                                   *)
(***************************************************************************)
EXTENDS RuntimeProofs, RuntimeSessions

\* The daemon can read /proc and the session registry, wait for its children
\* and kill a session; with any of these failing, an unconfirmed child may be
\* taken for an absent one (run second_session).
TrustedEngine == Faults \cap {"proc", "wait", "ps", "kill"} = {}

-----------------------------------------------------------------------------
(* The rows and the trees *)

\* The daemon holds a child of s, or a tree of s is alive without one.
Busy(s) == handle[s] # "none" \/ orphan[s]

\* The rows of a service explain a live tree: a cold start would make it
\* unknown, and no request takes it for absent.
Told(outcome, o, r) ==
    IF outcome = "null" /\ o.outcome = "null"
    THEN cold_class(o) = "unknown"
    ELSE /\ r.observed \notin {"stopped", "failed", "absent"}
         /\ ~proven_backoff(r)

\* The unfinished operation has done nothing to the service yet.
Early(outcome, o) ==
    outcome = "null" /\ o.outcome = "null" /\ cold_class(o) # "unknown"

Touched(s) == Told(op.outcome, oprow[s], svc[s])
Untouched(s) == Early(op.outcome, oprow[s])
DuePhase(r) == r.phase \in {"backoff", "restart_invoked"}

TreeInv ==
    \A s \in Services : /\ handle[s] = "none" => ~guest[s]
                        /\ handle[s] # "none" => ~orphan[s]

JournalInv ==
    \A s \in Services :
        /\ Busy(s) => Touched(s)
        /\ Untouched(s) => ~DuePhase(svc[s])
        /\ proven_backoff(svc[s]) => ~orphan[s]

\* Before the first `up` of the stack.
FirstPC == {"dead", "reconcile", "resume", "idle", "tick", "tick_child",
            "tick_due", "up", "cand_begin", "restart"}

FirstInv ==
    ~stack.exists =>
        /\ stack.def = NoDef
        /\ op.outcome = "none"
        /\ d.pc \in FirstPC
        /\ d.due = {} /\ d.job # "down"
        /\ \A s \in Services :
              svc[s].observed = "absent" /\ svc[s].ident = "none" /\ ~Busy(s)

-----------------------------------------------------------------------------
(* The positions of the daemon *)

NoDup(q) == \A i, j \in DOMAIN q : q[i] = q[j] => i = j

PreparePC == {"cand_svc", "logs", "install_invoke", "install",
              "install_unknown", "install_failed", "installed"}

\* From the choice of a service to its spawn.
BeforePC == PreparePC \cup {"deps", "dep_schedule", "start_invoke",
                            "restart_invoke", "spawn"}

StartPC == BeforePC \cup BirthPC \cup {"finish"}

\* Where no operation has collected services yet.
FreshPC == {"tick", "tick_child", "tick_schedule", "tick_due", "due",
            "restart_invoke", "due_unknown", "restore", "reschedule", "up",
            "restart", "restart_begin", "restart_stop_invoke",
            "restart_stop", "restart_stopped"}

\* Why a service is being started.
RetInv ==
    /\ d.pc \in PreparePC \cup {"start_invoke", "finish"} => d.ret = "start"
    /\ d.pc = "restart_invoke" => d.ret = "due"
    /\ d.pc \in BirthPC => d.ret \in {"start", "due"}

CollectInv ==
    \/ d.pc \in FreshPC
    \/ d.pc \in StartPC /\ d.ret \in {"due", "pre_restart"}
    => d.order = << >>

\* An operation is starting services: the ones to come are absent.
StartingInv ==
    d.pc \in StartPC /\ d.ret = "start" =>
        /\ unfinished
        /\ NoDup(d.todo)
        /\ d.cur \notin ToSet(d.todo)
        /\ \A s \in ToSet(d.todo) : ~Busy(s)
        /\ ToSet(d.order) \subseteq
              ToSet(d.started) \cup {d.cur} \cup ToSet(d.todo)
        /\ \A s \in ToSet(d.order) \cup {d.cur} \cup ToSet(d.todo) :
              svc[s].observed # "unknown"
        /\ op.candidate => ToSet(d.order) = Services

\* A restart that is stopping its service is the unfinished operation.
RestartingInv ==
    d.pc \in {"restart_stop_invoke", "restart_stop", "restart_stopped"} =>
        unfinished /\ ~op.candidate

\* Where a service has neither child nor tree.
AbsentInv ==
    /\ d.pc \in BeforePC /\ d.ret \in {"start", "due"} => ~Busy(d.cur)
    /\ d.pc \in {"restart_stopped", "reschedule", "restore"} => ~Busy(d.cur)
    /\ d.pc = "reschedule" => ~Untouched(d.cur)
    /\ d.pc \in {"tick_schedule", "cleanup_exit", "down_stopped",
                 "shutdown_record"} => ~Busy(Head(d.todo))
    /\ d.pc = "tick_schedule" => ~Untouched(Head(d.todo))
    /\ d.pc = "dep_schedule" => ~Busy(Head(d.deps)) /\ ~Untouched(Head(d.deps))

\* From the intent of a start to its result.
BirthInv ==
    /\ d.pc = "spawn" => Touched(d.cur)
    /\ d.pc \in BirthPC \ {"spawn"} => handle[d.cur] # "none"
    /\ d.pc \in BirthPC \cup {"restart_stop_invoke"} =>
          svc[d.cur].observed # "unknown"

\* A failure that is not ambiguous is one of an absent service.
FailureInv ==
    /\ d.pc = "abort" => ambiguous(d.err) \/ ~Busy(d.cur)
    /\ d.pc = "cleanup_mark" => ambiguous(d.err)
    /\ d.pc \in {"abort", "abort_others"} =>
          \A s \in ToSet(d.order) \ (ToSet(d.started) \cup {d.cur}) : ~Busy(s)
    /\ d.pc = "abort_others" => ToSet(d.todo) \subseteq ToSet(d.order)

\* `up` of the committed definition collects absent services, each once.
ConvergeInv ==
    /\ \/ d.pc \in {"up_check", "begin_current"}
       \/ d.pc = "deps" /\ d.ret = "up_check"
       => /\ \A s \in ToSet(d.order) : svc[s].observed \in {"stopped", "failed"}
          /\ NoDup(d.order)
    /\ d.pc = "up_check" \/ (d.pc = "deps" /\ d.ret = "up_check") =>
          NoDup(d.todo) /\ ToSet(d.order) \cap ToSet(d.todo) = {}
    /\ d.pc = "begin_current" => d.order # << >>

Position == /\ RetInv /\ CollectInv /\ StartingInv /\ RestartingInv
            /\ AbsentInv /\ BirthInv /\ FailureInv /\ ConvergeInv

EInv == DInv /\ TreeInv /\ JournalInv /\ FirstInv /\ Position

-----------------------------------------------------------------------------
(* The transactions *)

\* The rows of s go on explaining a tree, and keep saying `unknown`.
Kept(s) ==
    Touched(s) => /\ Touched(s)'
                  /\ svc[s].observed = "unknown" => svc'[s].observed = "unknown"

\* The rows of s do not come to claim both an untouched service and a
\* restart in progress.
Calm(s) ==
    (Untouched(s) => ~DuePhase(svc[s])) => (Untouched(s)' => ~DuePhase(svc'[s]))

\* A transaction on the rows of s leaves the other services alone.
LEMMA OtherRows ==
    ASSUME NEW s, NEW t \in Services, t # s, UNCHANGED op, StoreTypeOK,
           (\E r : svc' = [svc EXCEPT ![s] = r]) \/ UNCHANGED svc,
           (\E o : oprow' = [oprow EXCEPT ![s] = o]) \/ UNCHANGED oprow
    PROVE  Kept(t) /\ Calm(t)
<1>1. svc'[t] = svc[t] /\ oprow'[t] = oprow[t]
  BY DEF StoreTypeOK
<1> QED BY <1>1 DEF Kept, Calm, Touched, Untouched

\* A transaction that changes nothing.
LEMMA SameKept ==
    ASSUME UNCHANGED dbVars, NEW t
    PROVE  Kept(t) /\ Calm(t)
BY DEF dbVars, Kept, Calm, Touched, Untouched

\* The transactions on one service that leave its scheduled restart alone.
PlainTx(s) ==
    \/ \E p \in {"start_invoked", "stop_invoked", "logs_prepared",
                 "install_invoked"} : set_service_phase(s, p)
    \/ mark_installed(s) \/ mark_rootfs_unknown(s)
    \/ mark_starting(s) \/ mark_running(s)
    \/ \E unknown \in BOOLEAN : mark_service_failed(s, unknown)
    \/ mark_restart_stop_invoked(s)
    \/ mark_restart_stopped(s) \/ mark_stopped(s) \/ record_exit(s)
    \/ mark_runtime_unknown(s)
    \/ mark_restart_starting(s) \/ mark_restart_running(s)
    \/ record_graceful_stop(s) \/ record_graceful_backoff_stop(s)

\* The transactions on one service.
LocalTx(s) ==
    \/ PlainTx(s)
    \/ mark_restart_invoked(s) \/ restore_restart_backoff(s)
    \/ \E n : schedule_restart(s, n)

\* They concern that service only.
LEMMA LocalOthers ==
    ASSUME StoreTypeOK, NEW s \in Services, LocalTx(s),
           NEW t \in Services, t # s
    PROVE  Kept(t) /\ Calm(t)
<1>1. UNCHANGED op
  BY DEF LocalTx, PlainTx, set_service_phase, mark_installed,
     mark_rootfs_unknown, mark_starting, mark_running, mark_service_failed,
     mark_restart_stop_invoked, mark_restart_stopped, mark_stopped,
     record_exit, mark_runtime_unknown, mark_restart_invoked,
     mark_restart_starting, mark_restart_running, record_graceful_stop,
     record_graceful_backoff_stop, schedule_restart, restore_restart_backoff
<1>2. (\E r : svc' = [svc EXCEPT ![s] = r]) \/ UNCHANGED svc
  BY DEF LocalTx, PlainTx, set_service_phase, mark_installed,
     mark_rootfs_unknown, mark_starting, mark_running, mark_service_failed,
     mark_restart_stop_invoked, mark_restart_stopped, mark_stopped,
     record_exit, mark_runtime_unknown, mark_restart_invoked,
     mark_restart_starting, mark_restart_running, record_graceful_stop,
     record_graceful_backoff_stop, schedule_restart, restore_restart_backoff,
     write_row, write_refreshed
<1>3. (\E o : oprow' = [oprow EXCEPT ![s] = o]) \/ UNCHANGED oprow
  BY DEF LocalTx, PlainTx, set_service_phase, mark_installed,
     mark_rootfs_unknown, mark_starting, mark_running, mark_service_failed,
     mark_restart_stop_invoked, mark_restart_stopped, mark_stopped,
     record_exit, mark_runtime_unknown, mark_restart_invoked,
     mark_restart_starting, mark_restart_running, record_graceful_stop,
     record_graceful_backoff_stop, schedule_restart, restore_restart_backoff
<1> QED BY <1>1, <1>2, <1>3, OtherRows

\* The rows of the service itself, where they go on explaining a tree.
LEMMA LocalKept ==
    ASSUME StoreTypeOK, NEW s \in Services,
           \/ \E p \in {"start_invoked", "stop_invoked", "install_invoked"} :
                 set_service_phase(s, p)
           \/ mark_rootfs_unknown(s) \/ mark_service_failed(s, TRUE)
           \/ mark_runtime_unknown(s)
           \/ /\ record_graceful_backoff_stop_ok(s)
              /\ record_graceful_backoff_stop(s)
           \/ /\ svc[s].observed # "unknown"
              /\ \/ mark_starting(s) \/ mark_running(s)
                 \/ mark_restart_stop_invoked(s)
                 \/ mark_restart_starting(s) \/ mark_restart_running(s)
    PROVE  Kept(s)
<1>0. svc[s] \in ServiceRow /\ oprow[s] \in OpRow
  BY DEF StoreTypeOK
<1>1. ASSUME NEW p \in {"start_invoked", "stop_invoked", "install_invoked"},
             set_service_phase(s, p)
      PROVE  Kept(s)
  <2>1. /\ op' = op
        /\ svc'[s] = [svc[s] EXCEPT !.phase = p]
        /\ oprow'[s] = [oprow[s] EXCEPT !.phase = p]
    BY <1>1 DEF set_service_phase, write_row, StoreTypeOK
  <2> QED BY <1>0, <2>1 DEF Kept, Touched, Told, cold_class, proven_backoff,
             ServiceRow, OpRow
<1>2. CASE mark_rootfs_unknown(s)
  BY <1>2 DEF mark_rootfs_unknown, Kept, Touched
<1>3. CASE mark_service_failed(s, TRUE)
  <2>1. /\ svc'[s].observed = "unknown"
        /\ oprow'[s].outcome = "failure"
    BY <1>0, <1>3 DEF mark_service_failed, write_refreshed, StoreTypeOK,
       ServiceRow
  <2> QED BY <2>1 DEF Kept, Touched, Told, proven_backoff
<1>4. CASE mark_runtime_unknown(s)
  <2>1. /\ svc'[s].observed = "unknown"
        /\ UNCHANGED <<op, oprow>>
    BY <1>0, <1>4 DEF mark_runtime_unknown, write_refreshed, StoreTypeOK,
       ServiceRow
  <2> QED BY <2>1 DEF Kept, Touched, Told, proven_backoff
<1>5. CASE /\ record_graceful_backoff_stop_ok(s)
           /\ record_graceful_backoff_stop(s)
  BY <1>5 DEF record_graceful_backoff_stop_ok, record_graceful_backoff_stop,
     due_restart, proven_backoff, Kept, Touched, Told
<1>6. CASE /\ svc[s].observed # "unknown"
           /\ \/ mark_starting(s) \/ mark_running(s)
              \/ mark_restart_stop_invoked(s)
              \/ mark_restart_starting(s) \/ mark_restart_running(s)
  <2>q. PICK q :
           /\ svc' = [svc EXCEPT ![s] = q]
           /\ \/ q = [svc[s] EXCEPT !.observed = "starting",
                                    !.phase = "starting", !.ident = "pid"]
              \/ q = [svc[s] EXCEPT !.observed = "running",
                                    !.phase = "running", !.ident = "session",
                                    !.attempts = 0, !.backoff = FALSE]
              \/ q = [svc[s] EXCEPT !.observed = "stopping",
                                    !.phase = "restart_stop_invoked"]
              \/ q = [svc[s] EXCEPT !.observed = "starting",
                                    !.phase = "restart_starting",
                                    !.ident = "pid"]
              \/ q = [svc[s] EXCEPT !.observed = "running",
                                    !.phase = "committed",
                                    !.ident = "session", !.backoff = FALSE]
    BY <1>6 DEF mark_starting, mark_running, mark_restart_stop_invoked,
       mark_restart_starting, mark_restart_running, write_row, write_refreshed
  <2>1. svc'[s].observed \in {"starting", "running", "stopping"}
    BY <1>0, <2>q DEF StoreTypeOK, ServiceRow
  <2>2. \/ oprow' = oprow
        \/ oprow'[s].outcome = "success"
        \/ oprow'[s].phase \in {"starting", "restart_stop_invoked"}
    BY <1>0, <1>6 DEF mark_starting, mark_running, mark_restart_stop_invoked,
       mark_restart_starting, mark_restart_running, StoreTypeOK, OpRow
  <2>3. op' = op
    BY <1>6 DEF mark_starting, mark_running, mark_restart_stop_invoked,
       mark_restart_starting, mark_restart_running
  <2> QED BY <1>6, <2>1, <2>2, <2>3 DEF Kept, Touched, Told, cold_class,
             proven_backoff
<1> QED BY <1>1, <1>2, <1>3, <1>4, <1>5, <1>6

\* A restart in progress is claimed only for a service that an operation has
\* left alone or dealt with.
LEMMA LocalCalm ==
    ASSUME StoreTypeOK, NEW s \in Services,
           \/ PlainTx(s)
           \/ mark_restart_invoked_ok(s) /\ mark_restart_invoked(s)
           \/ restore_restart_backoff_ok(s) /\ restore_restart_backoff(s)
           \/ ~Untouched(s) /\ \E n : schedule_restart(s, n)
    PROVE  Calm(s)
<1>0. svc[s] \in ServiceRow /\ oprow[s] \in OpRow
  BY DEF StoreTypeOK
<1>1. CASE ~Untouched(s) /\ \E n : schedule_restart(s, n)
  <2>1. UNCHANGED <<op, oprow>> /\ ~Untouched(s)
    BY <1>1 DEF schedule_restart
  <2> QED BY <2>1 DEF Calm, Untouched
<1>2. CASE mark_restart_invoked_ok(s) /\ mark_restart_invoked(s)
  <2>1. UNCHANGED <<op, oprow>> /\ DuePhase(svc[s])
    BY <1>2 DEF mark_restart_invoked, mark_restart_invoked_ok, DuePhase
  <2> QED BY <2>1 DEF Calm, Untouched
<1>3. CASE restore_restart_backoff_ok(s) /\ restore_restart_backoff(s)
  <2>1. UNCHANGED <<op, oprow>> /\ DuePhase(svc[s])
    BY <1>3 DEF restore_restart_backoff, restore_restart_backoff_ok, DuePhase
  <2> QED BY <2>1 DEF Calm, Untouched
<1>4. CASE mark_rootfs_unknown(s)
  BY <1>4 DEF mark_rootfs_unknown, Calm, Untouched
<1>q. ASSUME NEW q, svc' = [svc EXCEPT ![s] = q],
             q.phase \notin {"backoff", "restart_invoked"}
      PROVE  Calm(s)
  BY <1>q DEF Calm, DuePhase, StoreTypeOK
<1>5. ASSUME NEW p \in {"start_invoked", "stop_invoked", "logs_prepared",
                        "install_invoked"}, set_service_phase(s, p)
      PROVE  Calm(s)
  BY <1>0, <1>5, <1>q DEF set_service_phase, write_row, ServiceRow
<1>6. CASE mark_installed(s) \/ mark_restart_starting(s)
  BY <1>0, <1>6, <1>q DEF mark_installed, mark_restart_starting, write_row,
     ServiceRow
<1>7. CASE mark_starting(s) \/ mark_running(s) \/ mark_restart_running(s)
  BY <1>0, <1>7, <1>q DEF mark_starting, mark_running, mark_restart_running,
     write_refreshed, ServiceRow
<1>8. CASE \E unknown \in BOOLEAN : mark_service_failed(s, unknown)
  <2>1. PICK x \in {"unknown", "failed"} :
           svc' = [svc EXCEPT ![s] = [svc[s] EXCEPT !.observed = x,
                                                    !.phase = x]]
    BY <1>8 DEF mark_service_failed, write_refreshed
  <2> QED BY <1>0, <1>q, <2>1 DEF ServiceRow
<1>9. CASE mark_restart_stop_invoked(s) \/ mark_runtime_unknown(s)
           \/ record_graceful_backoff_stop(s)
  BY <1>0, <1>9, <1>q DEF mark_restart_stop_invoked, mark_runtime_unknown,
     record_graceful_backoff_stop, write_refreshed, ServiceRow
<1>10. CASE mark_restart_stopped(s) \/ mark_stopped(s) \/ record_exit(s)
            \/ record_graceful_stop(s)
  <2>1. PICK x \in {"stopped", "failed"},
             p \in {"shutdown_proven", "stopped", "exited"} :
           \/ svc' = [svc EXCEPT ![s] = proven_row(svc[s], x, p)]
           \/ svc' = [svc EXCEPT ![s] = [proven_row(svc[s], x, p)
                                           EXCEPT !.desired = "stopped"]]
    BY <1>10 DEF mark_restart_stopped, mark_stopped, record_exit,
       record_graceful_stop, write_refreshed
  <2> QED BY <1>0, <1>q, <2>1 DEF proven_row, ServiceRow
<1> QED BY <1>1, <1>2, <1>3, <1>4, <1>5, <1>6, <1>7, <1>8, <1>9, <1>10
        DEF PlainTx

\* The transactions that begin and end an operation, where the rows of a
\* service go on explaining a tree.
LEMMA OperationKept ==
    ASSUME StoreTypeOK, NEW s \in Services,
           \/ \E m : record_noop_up(m)
           \/ begin_start_current_ok /\
              \E kind, names : s \notin names /\ begin_start_current(kind, names)
           \/ finalize_operation_failure_ok /\ finalize_operation_failure
           \/ finish_start_current_ok /\ finish_start_current
           \/ svc[s].observed # "unknown" /\ commit_up
           \/ begin_down_ok /\ begin_down
           \/ finish_down_ok /\ finish_down
           \/ finalize_down_failure
           \/ reconcile_cold_start
           \/ \E u : begin_restart_ok(u) /\ begin_restart(u)
    PROVE  Kept(s)
<1>0. svc[s] \in ServiceRow /\ oprow[s] \in OpRow /\ op \in Operation
  BY DEF StoreTypeOK
<1>1. CASE \E m : record_noop_up(m)
  BY <1>0, <1>1 DEF record_noop_up, unfinished, NoRow, Kept, Touched, Told
<1>2. ASSUME begin_start_current_ok, NEW kind, NEW names, s \notin names,
             begin_start_current(kind, names)
      PROVE  Kept(s)
  <2>1. svc'[s] = svc[s] /\ oprow'[s] = NoRow /\ op.outcome # "null"
    BY <1>2 DEF begin_start_current, begin_start_current_ok, unfinished
  <2> QED BY <2>1 DEF NoRow, Kept, Touched, Told
<1>3. CASE finalize_operation_failure_ok /\ finalize_operation_failure
  BY <1>3 DEF finalize_operation_failure_ok, finalize_operation_failure, Kept,
     Touched, Told
<1>4. CASE finish_start_current_ok /\ finish_start_current
  <2>1. oprow[s].outcome # "null" /\ oprow' = oprow
        /\ svc'[s] \in {svc[s], [svc[s] EXCEPT !.phase = "committed"]}
    BY <1>4 DEF finish_start_current_ok, finish_start_current, complete
  <2> QED BY <1>0, <2>1 DEF Kept, Touched, Told, proven_backoff, ServiceRow
<1>5. CASE svc[s].observed # "unknown" /\ commit_up
  <2>1. svc'[s].observed = "running" /\ op'.outcome = "success"
    BY <1>0, <1>5 DEF commit_up, ServiceRow, Operation
  <2> QED BY <1>5, <2>1 DEF Kept, Touched, Told, proven_backoff
<1>6. CASE begin_down_ok /\ begin_down
  <2>1. op.outcome # "null"
    BY <1>6 DEF begin_down_ok, unfinished
  <2>2. svc'[s] = down_row(svc[s]) /\ oprow'[s] = down_oprow(svc[s])
    BY <1>6 DEF begin_down
  <2>3. ASSUME Touched(s)
        PROVE  /\ down_class(svc[s]) \in {"stopping", "unknown"}
               /\ svc[s].observed = "unknown" => down_class(svc[s]) = "unknown"
    BY <2>1, <2>3 DEF Touched, Told, down_class
  <2>4. ASSUME Touched(s)
        PROVE  /\ svc'[s].observed = down_class(svc[s])
               /\ down_class(svc[s]) = "unknown" => oprow'[s].outcome = "failure"
               /\ down_class(svc[s]) = "stopping"
                    => oprow'[s].phase = "stop_intent"
    BY <1>0, <2>2, <2>3, <2>4 DEF down_row, down_oprow, ServiceRow
  <2> QED BY <2>3, <2>4 DEF Kept, Touched, Told, cold_class, proven_backoff
<1>7. CASE finish_down_ok /\ finish_down
  BY <1>7 DEF finish_down_ok, finish_down, complete, Kept, Touched, Told
<1>8. CASE finalize_down_failure
  <2>1. op'.outcome = "failure"
    BY <1>0, <1>8 DEF finalize_down_failure, Operation
  <2>2. CASE oprow[s].outcome # "success"
    <3>1. svc'[s].observed = "unknown"
      BY <1>0, <1>8, <2>2 DEF finalize_down_failure, ServiceRow
    <3> QED BY <2>1, <3>1 DEF Kept, Touched, Told, proven_backoff
  <2>3. CASE oprow[s].outcome = "success"
    <3>1. svc'[s] = svc[s]
      BY <1>8, <2>3 DEF finalize_down_failure
    <3> QED BY <2>1, <2>3, <3>1 DEF Kept, Touched, Told
  <2> QED BY <2>2, <2>3
<1>9. CASE reconcile_cold_start
  <2>1. op'.outcome # "null"
    BY <1>0, <1>9 DEF reconcile_cold_start, finish_op, unfinished, Operation
  <2>2. svc'[s] = cold_row(s)
    BY <1>9 DEF reconcile_cold_start
  <2>3. ASSUME Touched(s) PROVE cold_row(s).observed = "unknown"
    BY <1>0, <2>3 DEF Touched, Told, cold_row, unfinished, active_row,
       ServiceRow, Observed
  <2> QED BY <2>1, <2>2, <2>3 DEF Kept, Touched, Told, proven_backoff
<1>10. ASSUME NEW u, begin_restart_ok(u), begin_restart(u)
       PROVE  Kept(s)
  <2>1. op.outcome # "null"
    BY <1>10 DEF begin_restart_ok, unfinished
  <2>2. CASE s = u
    <3>1. oprow'[s] = [phase |-> "restart_stop_intent", outcome |-> "null"]
          /\ svc'[s].observed = "running" /\ svc[s].observed = "running"
          /\ op'.outcome = "null"
      BY <1>0, <1>10, <2>2 DEF begin_restart, begin_restart_ok, write_row,
         StoreTypeOK, ServiceRow
    <3> QED BY <3>1 DEF Kept, Touched, Told, cold_class
  <2>3. CASE s # u
    <3>1. svc'[s] = svc[s] /\ oprow'[s] = NoRow
      BY <1>10, <2>3 DEF begin_restart, write_row, StoreTypeOK
    <3> QED BY <2>1, <3>1 DEF NoRow, Kept, Touched, Told
  <2> QED BY <2>2, <2>3
<1> QED BY <1>1, <1>2, <1>3, <1>4, <1>5, <1>6, <1>7, <1>8, <1>9, <1>10

\* They claim no restart in progress.
LEMMA OperationCalm ==
    ASSUME StoreTypeOK, NEW s \in Services,
           \/ \E m : record_noop_up(m)
           \/ \E kind, names : begin_start_current(kind, names)
           \/ \E m, reused : begin_candidate(m, reused)
           \/ finalize_operation_failure \/ finish_start_current \/ commit_up
           \/ begin_down \/ finish_down \/ finalize_down_failure
           \/ reconcile_cold_start
           \/ \E u : begin_restart(u)
    PROVE  Calm(s)
<1>0. svc[s] \in ServiceRow /\ oprow[s] \in OpRow /\ op \in Operation
  BY DEF StoreTypeOK
<1>1. CASE \E m : record_noop_up(m)
  BY <1>0, <1>1 DEF record_noop_up, NoRow, Calm, Untouched, Early
<1>2. ASSUME NEW kind, NEW names, begin_start_current(kind, names)
      PROVE  Calm(s)
  <2>1. oprow'[s] = NoRow \/ svc'[s].phase = "start_intent"
    BY <1>0, <1>2 DEF begin_start_current, fresh_row, ServiceRow
  <2> QED BY <2>1 DEF NoRow, Calm, Untouched, Early, DuePhase
<1>3. ASSUME NEW m, NEW reused, begin_candidate(m, reused)
      PROVE  Calm(s)
  <2>1. svc'[s].phase \in {"installed", "intent"}
    BY <1>0, <1>3 DEF begin_candidate, fresh_row, ServiceRow
  <2> QED BY <2>1 DEF Calm, DuePhase
<1>4. CASE \/ finalize_operation_failure \/ finish_start_current \/ commit_up
           \/ finish_down \/ finalize_down_failure \/ reconcile_cold_start
  <2>1. op'.outcome # "null"
    BY <1>0, <1>4 DEF finalize_operation_failure, finish_start_current,
       commit_up, finish_down, finalize_down_failure, reconcile_cold_start,
       finish_op, unfinished, Operation
  <2> QED BY <2>1 DEF Calm, Untouched, Early
<1>5. CASE begin_down
  <2>1. oprow'[s] = down_oprow(svc[s])
    BY <1>5 DEF begin_down
  <2>2. oprow'[s].outcome = "null" => oprow'[s].phase = "stop_intent"
    BY <2>1 DEF down_oprow, down_class
  <2> QED BY <2>2 DEF Calm, Untouched, Early, cold_class
<1>6. CASE \E u : begin_restart(u)
  <2>1. oprow'[s] \in {[phase |-> "restart_stop_intent", outcome |-> "null"],
                       NoRow}
    BY <1>6 DEF begin_restart
  <2> QED BY <2>1 DEF NoRow, Calm, Untouched, Early, cold_class
<1> QED BY <1>1, <1>2, <1>3, <1>4, <1>5, <1>6

-----------------------------------------------------------------------------
(* Children and trees *)

\* A service gets a child or a tree by a spawn only.
BusyOnly ==
    \A s \in Services : Busy(s)' => Busy(s) \/ (d.pc = "spawn" /\ s = d.cur)

\* The changes of the handles and the trees, other than a spawn.
WorldChange ==
    \/ UNCHANGED worldVars
    \/ UNCHANGED <<handle, guest, orphan>>
    \/ \E u \in Services : let_go(u) \/ drained(u)
    \/ \E u \in Services : quarantine(u) /\ handle[u] # "none"
    \/ \E u \in Services : quarantine_if_owned(u)
    \/ \E u \in Services, v \in {"owned", "uncertain"} :
          /\ handle[u] # "none"
          /\ handle' = [handle EXCEPT ![u] = v]
          /\ UNCHANGED <<guest, orphan>>
    \/ process_ends \/ TickUncertain
    \/ \E u \in Services : TracerExits(u) \/ TreeEnds(u)

\* They keep trees below handles and give no service a child.
LEMMA WorldKept ==
    ASSUME WorldTypeOK, TreeInv, WorldChange
    PROVE  TreeInv' /\ BusyOnly
<1> USE DEF WorldTypeOK, TreeInv, BusyOnly, Busy
<1>1. CASE UNCHANGED worldVars \/ UNCHANGED <<handle, guest, orphan>>
  BY <1>1 DEF worldVars
<1>2. ASSUME NEW u \in Services, let_go(u) PROVE TreeInv' /\ BusyOnly
  BY <1>2 DEF let_go
<1>3. ASSUME NEW u \in Services, drained(u) PROVE TreeInv' /\ BusyOnly
  BY <1>3 DEF drained
<1>4. ASSUME NEW u \in Services, NEW v \in {"owned", "uncertain"},
             handle[u] # "none", handle' = [handle EXCEPT ![u] = v],
             UNCHANGED <<guest, orphan>>
      PROVE  TreeInv' /\ BusyOnly
  BY <1>4
<1>5. ASSUME NEW u \in Services, quarantine(u) /\ handle[u] # "none"
      PROVE  TreeInv' /\ BusyOnly
  BY <1>4, <1>5 DEF quarantine
<1>6. ASSUME NEW u \in Services, quarantine_if_owned(u)
      PROVE  TreeInv' /\ BusyOnly
  BY <1>1, <1>5, <1>6 DEF quarantine_if_owned
<1>7. CASE process_ends
  BY <1>7 DEF process_ends
<1>8. CASE TickUncertain
  BY <1>8 DEF TickUncertain
<1>9. ASSUME NEW u \in Services, TracerExits(u) \/ TreeEnds(u)
      PROVE  TreeInv' /\ BusyOnly
  BY <1>9 DEF TracerExits, TreeEnds
<1> QED BY <1>1, <1>2, <1>3, <1>4, <1>5, <1>6, <1>7, <1>8, <1>9
        DEF WorldChange

\* Every step keeps trees below handles; only Spawn adds a child, and it does
\* so for a service that has none.
LEMMA TreeStep ==
    ASSUME EInv, Next
    PROVE  TreeInv' /\ BusyOnly
<1>s. WorldTypeOK /\ TreeInv /\ d \in Control /\ d.cur \in Services
  BY DEF EInv, DInv, Inv, Sound, Control
<1>k. ASSUME WorldChange PROVE TreeInv' /\ BusyOnly
  BY <1>s, <1>k, WorldKept
<1>h. d.pc \in LoopPC => Head(d.todo) \in Services
  BY HeadTail DEF EInv, DInv, Inv, Sound, Control
<1>g. /\ d.deps # << >> => Head(d.deps) \in Services
      /\ d.todo # << >> => Head(d.todo) \in Services
  BY <1>s, HeadTail DEF Control
<1>1. CASE Supervise
  <2>1. CASE TickChild
    BY <1>k, <1>h, <2>1 DEF TickChild, LoopPC, WorldChange
  <2>2. CASE TickUncertain
    BY <1>k, <2>2 DEF WorldChange
  <2> QED BY <1>1, <1>k, <2>1, <2>2 DEF Supervise, TickSchedule, TickDue, Due,
         RestartInvoke, Restore, Reschedule, DueUnknown, WorldChange
<1>2. CASE Prepare
  BY <1>2, <1>k DEF Prepare, Up, UpCheck, UpConverge, BeginCurrent, CandBegin,
     CandSvc, MarkLogsPrepared, MarkInstallInvoked, Install, MarkInstalled,
     MarkRootfsUnknown, MarkInstallFailed, Journal, WorldChange
<1>3. CASE Depend
  <2>1. CASE DepUnqualified
    BY <1>k, <1>g, <2>1 DEF DepUnqualified, WorldChange
  <2>2. CASE DepExitAmbiguous \/ DepExited
    BY <1>k, <1>g, <2>2 DEF DepExitAmbiguous, DepExited, WorldChange
  <2> QED BY <1>3, <1>k, <2>1, <2>2 DEF Depend, DepsDone, DepAbsent, DepValid,
         DepSchedule, WorldChange
<1>4. CASE StartOne
  <2>1. CASE MarkStartInvoked \/ SpawnRefused \/ Qualify \/ Finish
    BY <1>k, <2>1 DEF MarkStartInvoked, SpawnRefused, Qualify, Finish,
       WorldChange
  <2>2. CASE Spawn
    <3>1. ~Busy(d.cur) /\ d.pc = "spawn"
      BY <2>2 DEF Spawn, EInv, Position, AbsentInv, RetInv, BeforePC, BirthPC
    <3>2. /\ handle' = [handle EXCEPT ![d.cur] = "fresh"]
          /\ guest' = [guest EXCEPT ![d.cur] = TRUE]
          /\ orphan' = orphan
      BY <2>2 DEF Spawn
    <3> QED BY <1>s, <3>1, <3>2 DEF WorldTypeOK, TreeInv, BusyOnly, Busy
  <2>3. CASE JournalChild \/ Contain \/ QualifyFails \/ MarkRunning
    <3>1. handle[d.cur] # "none"
      BY <2>3 DEF JournalChild, Contain, QualifyFails, MarkRunning, EInv,
         Position, BirthInv, BirthPC
    <3> QED BY <1>s, <1>k, <2>3, <3>1 DEF JournalChild, Contain, QualifyFails,
           MarkRunning, WorldChange
  <2>4. CASE QualifyExited
    BY <1>s, <1>k, <2>4 DEF QualifyExited, WorldChange
  <2> QED BY <1>4, <2>1, <2>2, <2>3, <2>4 DEF StartOne
<1>5. CASE AbortStart
  <2>1. CASE Cleanup \/ Survivors
    BY <1>k, <1>h, <2>1 DEF Cleanup, Survivors, LoopPC, stop_owned_child,
       WorldChange
  <2> QED BY <1>5, <1>k, <2>1 DEF AbortStart, Abort, AbortOthers,
         CleanupExit, CleanupMark, Finalize, WorldChange
<1>6. CASE Stop
  <2>1. CASE DownQuarantine
    BY <1>k, <2>1 DEF DownQuarantine, WorldChange
  <2>2. CASE ShutdownStop \/ DownStop
    BY <1>k, <1>g, <1>h, <2>2 DEF ShutdownStop, DownStop, stop_owned_child,
       LoopPC, WorldChange
  <2>3. CASE RestartStop
    BY <1>s, <1>k, <2>3 DEF RestartStop, stop_owned_child, WorldChange
  <2> QED BY <1>6, <1>k, <2>1, <2>2, <2>3 DEF Stop, DownBegin, DownSvc,
         DownStopped, DownFinish, DownFinal, Restart, RestartBegin,
         RestartStopInvoke, Journal, RestartStopped, ShutdownAbsent,
         ShutdownRecord, ShutdownEnd, WorldChange
<1>7. CASE Reconcile \/ Resume
  BY <1>7, <1>k DEF Reconcile, Resume, WorldChange
<1>8. CASE Environment
  BY <1>8, <1>k DEF Environment, Boot, Accept, SigTerm, Crash, WorldChange
<1> QED BY <1>1, <1>2, <1>3, <1>4, <1>5, <1>6, <1>7, <1>8 DEF Next, DaemonStep

\* An exit without a session in the registry is one without a tree.
LEMMA Reaped ==
    ASSUME TrustedEngine, WorldTypeOK, TreeInv, NEW s \in Services,
           handle[s] # "none", tracer[s] \in {"ok", "fail"},
           "missing" \in registry(s), let_go(s)
    PROVE  ~Busy(s)'
<1>1. ~guest[s]
  BY DEF TrustedEngine, registry
<1>2. ~orphan[s]
  BY DEF TreeInv
<1> QED BY <1>1, <1>2 DEF let_go, Busy, WorldTypeOK

\* A session that was stopped leaves nothing.
LEMMA Stopped ==
    ASSUME WorldTypeOK, TreeInv, NEW s \in Services, stop_owned_child(s)
    PROVE  ~Busy(s)'
BY DEF WorldTypeOK, TreeInv, stop_owned_child, can_stop, drained, Busy

\* Every reason not to stop a session leaves it ambiguous.
LEMMA StopErrors ==
    ASSUME TrustedEngine, NEW s, NEW e \in stop_errors(s)
    PROVE  ambiguous(e)
<1>1. "error" \notin registry(s)
  BY DEF TrustedEngine, registry
<1> QED BY <1>1 DEF TrustedEngine, stop_errors, ambiguous

-----------------------------------------------------------------------------
(* What a step does to the rows of a busy service *)

GoodRows == \A s \in Services : Calm(s) /\ (Busy(s)' => Kept(s))

\* No transaction, or a failed one.
LEMMA SameGood ==
    ASSUME UNCHANGED dbVars
    PROVE  GoodRows
BY SameKept DEF GoodRows

\* A transaction on a service that goes on being explained, or is absent.
LEMMA LocalGood ==
    ASSUME StoreTypeOK, NEW s \in Services, LocalTx(s), Calm(s),
           Kept(s) \/ ~Busy(s)'
    PROVE  GoodRows
BY LocalOthers DEF GoodRows

\* The transactions that make a service unknown, and the ignored ones.
LEMMA UnknownGood ==
    ASSUME StoreTypeOK, NEW s \in Services,
           \/ UNCHANGED dbVars
           \/ mark_runtime_unknown(s) \/ Ignoring(mark_runtime_unknown(s))
           \/ quarantine(s) \/ quarantine_if_owned(s)
           \/ mark_service_failed(s, TRUE)
           \/ record_failure(s, TRUE)
    PROVE  GoodRows
<1>1. \/ UNCHANGED dbVars \/ mark_runtime_unknown(s)
      \/ mark_service_failed(s, TRUE)
  BY DEF Ignoring, quarantine, quarantine_if_owned, StoreFails, record_failure
<1>2. ASSUME mark_runtime_unknown(s) \/ mark_service_failed(s, TRUE)
      PROVE  GoodRows
  <2>1. PlainTx(s) /\ LocalTx(s)
    BY <1>2 DEF PlainTx, LocalTx
  <2> QED BY <1>2, <2>1, LocalCalm, LocalKept, LocalGood
<1> QED BY <1>1, <1>2, SameGood

\* A service that no operation holds and that is stopped is one without a
\* child and without a tree.
LEMMA AbsentRow ==
    ASSUME JournalInv, NEW s \in Services, ~unfinished,
           svc[s].observed \in {"stopped", "failed", "absent"}
    PROVE  ~Busy(s)
BY DEF JournalInv, Touched, Told, unfinished

\* A deadline is set for a service that is absent.
LEMMA ScheduleGood ==
    ASSUME StoreTypeOK, NEW s \in Services, ~Busy(s)', ~Untouched(s),
           schedule_or_give_up(s) \/ schedule_restart_after_exit(s)
    PROVE  GoodRows
<1>1. UNCHANGED dbVars \/ \E n : schedule_restart(s, n)
  BY DEF schedule_or_give_up, schedule_restart_after_exit, StoreFails
<1>2. ASSUME \E n : schedule_restart(s, n) PROVE GoodRows
  <2>1. LocalTx(s)
    BY <1>2 DEF LocalTx
  <2>2. Calm(s)
    BY <1>2, LocalCalm
  <2> QED BY <2>1, <2>2, LocalGood
<1> QED BY <1>1, <1>2, SameGood

\* The services a step may be about: the current one, and the heads of the
\* work lists.
LEMMA Subjects ==
    ASSUME EInv
    PROVE  \E c, t, e \in Services :
              /\ c = d.cur
              /\ d.todo # << >> \/ d.pc \in LoopPC => t = Head(d.todo)
              /\ d.deps # << >> \/ d.pc = "dep_schedule" => e = Head(d.deps)
<1>1. d.cur \in Services /\ d.todo \in Seq(Services) /\ d.deps \in Seq(Services)
      /\ (d.pc \in LoopPC => d.todo # << >>)
      /\ (d.pc = "dep_schedule" => d.deps # << >>)
  BY DEF EInv, DInv, Inv, Sound, Control
<1>2. /\ d.todo # << >> => Head(d.todo) \in Services
      /\ d.deps # << >> => Head(d.deps) \in Services
  BY <1>1, HeadTail
<1>3. \E t \in Services : d.todo # << >> => t = Head(d.todo)
  BY <1>1, <1>2
<1>4. \E e \in Services : d.deps # << >> => e = Head(d.deps)
  BY <1>1, <1>2
<1> QED BY <1>1, <1>3, <1>4

\* The exit of a child that was reaped.
LEMMA ExitGood ==
    ASSUME TrustedEngine, StoreTypeOK, WorldTypeOK, TreeInv,
           NEW s \in Services,
           handle[s] # "none", tracer[s] \in {"ok", "fail"},
           "missing" \in registry(s), let_go(s), record_exit(s)
    PROVE  GoodRows
<1>1. ~Busy(s)'
  BY Reaped
<1>2. PlainTx(s) /\ LocalTx(s)
  BY DEF PlainTx, LocalTx
<1> QED BY <1>1, <1>2, LocalCalm, LocalGood

\* A transaction on a service that is absent and stays so.
LEMMA AbsentGood ==
    ASSUME StoreTypeOK, NEW s \in Services, ~Busy(s), UNCHANGED worldVars,
           \/ UNCHANGED dbVars
           \/ PlainTx(s)
           \/ mark_restart_invoked_ok(s) /\ mark_restart_invoked(s)
           \/ restore_restart_backoff_ok(s) /\ restore_restart_backoff(s)
           \/ ~Untouched(s) /\ schedule_or_give_up(s)
           \/ ~Untouched(s) /\ schedule_restart_after_exit(s)
    PROVE  GoodRows
<1>1. ~Busy(s)'
  BY DEF worldVars, Busy
<1>2. CASE \/ PlainTx(s)
           \/ mark_restart_invoked_ok(s) /\ mark_restart_invoked(s)
           \/ restore_restart_backoff_ok(s) /\ restore_restart_backoff(s)
  <2>1. LocalTx(s) /\ Calm(s)
    BY <1>2, LocalCalm DEF LocalTx
  <2> QED BY <1>1, <2>1, LocalGood
<1> QED BY <1>1, <1>2, SameGood, ScheduleGood

\* tick and the scheduled restarts.
LEMMA SuperviseGood ==
    ASSUME TrustedEngine, EInv, Supervise
    PROVE  GoodRows
<1>s. StoreTypeOK /\ WorldTypeOK /\ TreeInv
  BY DEF EInv, DInv, Inv
<1>p. PICK c, s \in Services :
         c = d.cur /\ (d.pc \in LoopPC => s = Head(d.todo))
  BY Subjects
<1>1. CASE TickChild
  <2>0. s = Head(d.todo)
    BY <1>p, <1>1 DEF TickChild, LoopPC
  <2>1. \/ UNCHANGED dbVars \/ mark_runtime_unknown(s)
        \/ Ignoring(mark_runtime_unknown(s))
        \/ /\ handle[s] = "owned" /\ tracer[s] \in {"ok", "fail"}
           /\ "missing" \in registry(s) /\ record_exit(s) /\ let_go(s)
    BY <1>1, <2>0 DEF TickChild, StoreFails
  <2> QED BY <1>s, <2>1, UnknownGood, ExitGood
<1>2. CASE TickSchedule
  <2>0. s = Head(d.todo)
    BY <1>p, <1>2 DEF TickSchedule, LoopPC
  <2>1. ~Busy(s) /\ ~Untouched(s)
    BY <1>2, <2>0 DEF TickSchedule, EInv, Position, AbsentInv
  <2> QED BY <1>s, <1>2, <2>0, <2>1, AbsentGood DEF TickSchedule
<1>3. CASE Reschedule
  <2>1. ~Busy(c) /\ ~Untouched(c)
    BY <1>p, <1>3 DEF Reschedule, EInv, Position, AbsentInv
  <2> QED BY <1>s, <1>p, <1>3, <2>1, AbsentGood DEF Reschedule
<1>4. CASE RestartInvoke
  <2>1. ~Busy(c)
    BY <1>p, <1>4
       DEF RestartInvoke, EInv, Position, AbsentInv, RetInv, BeforePC
  <2> QED BY <1>s, <1>p, <1>4, <2>1, AbsentGood DEF RestartInvoke, StoreFails
<1>5. CASE Restore
  <2>1. ~Busy(c)
    BY <1>p, <1>5 DEF Restore, EInv, Position, AbsentInv
  <2> QED BY <1>s, <1>p, <1>5, <2>1, AbsentGood, UnknownGood DEF Restore
<1>6. CASE DueUnknown
  BY <1>s, <1>p, <1>6, UnknownGood DEF DueUnknown
<1>7. CASE TickUncertain \/ TickDue \/ Due
  BY <1>7, SameGood DEF TickUncertain, TickDue, Due
<1> QED BY <1>1, <1>2, <1>3, <1>4, <1>5, <1>6, <1>7 DEF Supervise

\* The dependency check.
LEMMA DependGood ==
    ASSUME TrustedEngine, EInv, Depend
    PROVE  GoodRows
<1>s. StoreTypeOK /\ WorldTypeOK /\ TreeInv
  BY DEF EInv, DInv, Inv
<1>p. PICK s \in Services :
         d.deps # << >> \/ d.pc = "dep_schedule" => s = Head(d.deps)
  BY Subjects
<1>1. CASE DepsDone \/ DepAbsent \/ DepValid
  BY <1>1, SameGood DEF DepsDone, DepAbsent, DepValid
<1>2. CASE DepUnqualified \/ DepExitAmbiguous
  <2>1. quarantine(s) \/ Ignoring(mark_runtime_unknown(s))
    BY <1>p, <1>2 DEF DepUnqualified, DepExitAmbiguous
  <2> QED BY <1>s, <2>1, UnknownGood
<1>3. CASE DepExited
  <2>1. \/ UNCHANGED dbVars
        \/ /\ handle[s] = "owned" /\ tracer[s] \in {"ok", "fail"}
           /\ "missing" \in registry(s) /\ record_exit(s) /\ let_go(s)
    BY <1>p, <1>3 DEF DepExited, StoreFails
  <2> QED BY <1>s, <2>1, SameGood, ExitGood
<1>4. CASE DepSchedule
  <2>1. ~Busy(s) /\ ~Untouched(s) /\ schedule_restart_after_exit(s)
    BY <1>p, <1>4 DEF DepSchedule, EInv, Position, AbsentInv
  <2> QED BY <1>s, <1>4, <2>1, AbsentGood DEF DepSchedule
<1> QED BY <1>1, <1>2, <1>3, <1>4 DEF Depend

\* The transactions that begin and end an operation and harm no row.
LEMMA OperationGood ==
    ASSUME StoreTypeOK,
           \/ \E m : record_noop_up(m)
           \/ finalize_operation_failure_ok /\ finalize_operation_failure
           \/ finish_start_current_ok /\ finish_start_current
           \/ commit_up /\ \A s \in Services : svc[s].observed # "unknown"
           \/ begin_down_ok /\ begin_down
           \/ finish_down_ok /\ finish_down
           \/ finalize_down_failure
           \/ reconcile_cold_start
           \/ \E u : begin_restart_ok(u) /\ begin_restart(u)
    PROVE  GoodRows
<1> SUFFICES ASSUME NEW s \in Services PROVE Kept(s) /\ Calm(s)
  BY DEF GoodRows
<1>1. Kept(s)
  BY OperationKept
<1>2. Calm(s)
  BY OperationCalm
<1> QED BY <1>1, <1>2

\* A start of services that are stopped.
LEMMA BeginGood ==
    ASSUME StoreTypeOK, JournalInv, UNCHANGED worldVars, NEW kind, NEW names,
           begin_start_current_ok, begin_start_current(kind, names),
           \A s \in names : svc[s].observed \in {"stopped", "failed"}
    PROVE  GoodRows
<1> SUFFICES ASSUME NEW s \in Services
             PROVE  Calm(s) /\ (Busy(s)' => Kept(s))
  BY DEF GoodRows
<1>1. Calm(s)
  BY OperationCalm
<1>2. CASE s \in names
  <2>1. ~Busy(s)
    BY <1>2, AbsentRow DEF begin_start_current_ok
  <2> QED BY <1>1, <2>1 DEF worldVars, Busy
<1>3. CASE s \notin names
  BY <1>1, <1>3, OperationKept
<1> QED BY <1>2, <1>3

\* A candidate: every service is quiet, or was never started.
LEMMA CandidateAbsent ==
    ASSUME EInv, NEW m, NEW s \in Services,
           begin_candidate_recovery_ok(m) \/ begin_up_ok(m)
    PROVE  ~Busy(s)
<1>1. ~unfinished /\ (stack.exists => quiet(svc[s]))
  BY DEF begin_candidate_recovery_ok, begin_up_ok, recovery
<1>2. CASE stack.exists
  BY <1>1, <1>2, AbsentRow DEF EInv, quiet
<1>3. CASE ~stack.exists
  BY <1>3 DEF EInv, FirstInv
<1> QED BY <1>2, <1>3

\* up and the preparation of its candidates.
LEMMA PrepareGood ==
    ASSUME TrustedEngine, EInv, Prepare
    PROVE  GoodRows
<1>s. StoreTypeOK /\ JournalInv
  BY DEF EInv, DInv, Inv
<1>p. PICK c \in Services : c = d.cur
  BY Subjects
<1>b. d.pc \in PreparePC => ~Busy(c)
  BY <1>p DEF EInv, Position, AbsentInv, RetInv, BeforePC
<1>1. CASE Up \/ UpCheck \/ CandSvc \/ Install
  BY <1>1, SameGood DEF Up, UpCheck, CandSvc, Install
<1>2. CASE UpConverge
  BY <1>s, <1>2, SameGood, OperationGood DEF UpConverge, StoreFails
<1>3. CASE BeginCurrent
  <2>1. \A s \in ToSet(d.order) : svc[s].observed \in {"stopped", "failed"}
    BY <1>3 DEF BeginCurrent, EInv, Position, ConvergeInv
  <2> QED BY <1>s, <1>3, <2>1, SameGood, BeginGood DEF BeginCurrent, StoreFails
<1>4. CASE CandBegin
  <2>1. CASE UNCHANGED dbVars
    BY <2>1, SameGood
  <2>2. CASE /\ begin_candidate_recovery_ok(d.def) \/ begin_up_ok(d.def)
             /\ \E m, reused : begin_candidate(m, reused)
    <3>1. ASSUME NEW s \in Services PROVE Calm(s) /\ ~Busy(s)
      BY <1>s, <2>2, CandidateAbsent, OperationCalm
    <3> QED BY <1>4, <3>1 DEF CandBegin, GoodRows, worldVars, Busy
  <2> QED BY <1>4, <2>1, <2>2 DEF CandBegin, StoreFails, begin_up,
         begin_candidate_recovery
<1>5. CASE MarkLogsPrepared \/ MarkInstallInvoked \/ MarkInstalled
           \/ MarkRootfsUnknown
  <2>1. ~Busy(c) /\ UNCHANGED worldVars
    BY <1>b, <1>5 DEF MarkLogsPrepared, MarkInstallInvoked, MarkInstalled,
       MarkRootfsUnknown, Journal, PreparePC
  <2>2. UNCHANGED dbVars \/ PlainTx(c)
    BY <1>p, <1>5 DEF MarkLogsPrepared, MarkInstallInvoked, MarkInstalled,
       MarkRootfsUnknown, Journal, StoreFails, PlainTx
  <2> QED BY <1>s, <2>1, <2>2, AbsentGood
<1>6. CASE MarkInstallFailed
  BY <1>s, <1>p, <1>6, UnknownGood DEF MarkInstallFailed, StoreFails
<1> QED BY <1>1, <1>2, <1>3, <1>4, <1>5, <1>6 DEF Prepare

\* The start of one service.
LEMMA StartOneGood ==
    ASSUME TrustedEngine, EInv, StartOne
    PROVE  GoodRows
<1>s. StoreTypeOK /\ WorldTypeOK /\ TreeInv
  BY DEF EInv, DInv, Inv
<1>p. PICK c \in Services : c = d.cur
  BY Subjects
<1>u. d.pc \in BirthPC => svc[c].observed # "unknown"
  BY <1>p DEF EInv, Position, BirthInv
<1>k. ASSUME d.pc \in BirthPC,
             \/ mark_starting(c) \/ mark_running(c)
             \/ mark_restart_starting(c) \/ mark_restart_running(c)
      PROVE  GoodRows
  <2>1. PlainTx(c) /\ LocalTx(c)
    BY <1>k DEF PlainTx, LocalTx
  <2>2. Kept(c)
    BY <1>s, <1>u, <1>k, LocalKept
  <2> QED BY <1>s, <2>1, <2>2, LocalCalm, LocalGood
<1>1. CASE MarkStartInvoked
  <2>1. ~Busy(c)
    BY <1>p, <1>1
       DEF MarkStartInvoked, EInv, Position, AbsentInv, RetInv, BeforePC
  <2>2. UNCHANGED dbVars \/ PlainTx(c)
    BY <1>p, <1>1 DEF MarkStartInvoked, StoreFails, PlainTx
  <2> QED BY <1>s, <1>1, <2>1, <2>2, AbsentGood DEF MarkStartInvoked
<1>2. CASE Spawn \/ SpawnRefused \/ Contain \/ Qualify
  BY <1>2, SameGood DEF Spawn, SpawnRefused, Contain, Qualify
<1>3. CASE JournalChild
  BY <1>p, <1>k, <1>3, SameGood DEF JournalChild, BirthPC
<1>4. CASE QualifyFails
  BY <1>s, <1>p, <1>4, UnknownGood DEF QualifyFails
<1>5. CASE QualifyExited
  <2>1. handle[c] # "none"
    BY <1>p, <1>5 DEF QualifyExited, EInv, Position, BirthInv, BirthPC
  <2>2. \/ UNCHANGED dbVars
        \/ Ignoring(mark_runtime_unknown(c))
        \/ /\ tracer[c] \in {"ok", "fail"}
           /\ "missing" \in registry(c) /\ record_exit(c) /\ let_go(c)
    BY <1>p, <1>5 DEF QualifyExited, StoreFails, Exited
  <2> QED BY <1>s, <2>1, <2>2, UnknownGood, ExitGood
<1>6. CASE MarkRunning
  <2>1. mark_running(c) \/ mark_restart_running(c) \/ quarantine(c)
    BY <1>p, <1>6 DEF MarkRunning
  <2> QED BY <1>s, <1>k, <1>6, <2>1, UnknownGood DEF MarkRunning, BirthPC
<1>7. CASE Finish
  <2>1. CASE op.candidate /\ commit_up
    <3>1. \A s \in Services : svc[s].observed # "unknown"
      BY <1>7, <2>1
         DEF Finish, EInv, Position, StartingInv, RetInv, StartPC
    <3> QED BY <1>s, <2>1, <3>1, OperationGood
  <2>2. CASE finish_start_current_ok /\ finish_start_current
    BY <1>s, <2>2, OperationGood
  <2> QED BY <1>7, <2>1, <2>2, SameGood DEF Finish, StoreFails
<1> QED BY <1>1, <1>2, <1>3, <1>4, <1>5, <1>6, <1>7 DEF StartOne

\* A failure recorded for an absent service.
LEMMA FailureGood ==
    ASSUME StoreTypeOK, NEW s \in Services, NEW unknown \in BOOLEAN,
           record_failure(s, unknown), UNCHANGED worldVars,
           unknown \/ ~Busy(s)
    PROVE  GoodRows
<1>1. CASE unknown
  <2>1. unknown = TRUE
    BY <1>1
  <2> QED BY <2>1, UnknownGood
<1>2. CASE ~Busy(s)
  <2>1. UNCHANGED dbVars \/ PlainTx(s)
    BY DEF record_failure, StoreFails, PlainTx
  <2> QED BY <1>2, <2>1, AbsentGood
<1> QED BY <1>1, <1>2

\* A failed start.
LEMMA AbortGood ==
    ASSUME TrustedEngine, EInv, AbortStart
    PROVE  GoodRows
<1>s. StoreTypeOK
  BY DEF EInv, DInv, Inv
<1>p. PICK c, s \in Services :
         c = d.cur /\ (d.pc \in LoopPC => s = Head(d.todo))
  BY Subjects
<1>a. ambiguous(d.err) \in BOOLEAN
  BY DEF ambiguous
<1>1. CASE Abort
  <2>1. ambiguous(d.err) \/ ~Busy(c)
    BY <1>p, <1>1 DEF Abort, EInv, Position, FailureInv
  <2> QED BY <1>s, <1>p, <1>a, <1>1, <2>1, FailureGood DEF Abort
<1>2. CASE AbortOthers
  <2>0. s = Head(d.todo)
    BY <1>p, <1>2 DEF AbortOthers, LoopPC
  <2>1. CASE s # d.cur /\ s \notin ToSet(d.started) /\ record_failure(s, FALSE)
    <3>1. d.todo # << >> /\ d.todo \in Seq(Services)
      BY <1>2 DEF AbortOthers, EInv, DInv, Inv, Sound, LoopPC, Control
    <3>2. s \in ToSet(d.todo)
      BY <2>0, <3>1 DEF ToSet
    <3>3. ~Busy(s)
      BY <1>2, <2>1, <3>2 DEF AbortOthers, EInv, Position, FailureInv
    <3> QED BY <1>s, <1>2, <2>1, <3>3, FailureGood DEF AbortOthers
  <2> QED BY <1>2, <2>0, <2>1, SameGood DEF AbortOthers
<1>3. CASE Cleanup \/ Survivors
  <2>1. UNCHANGED dbVars \/ quarantine_if_owned(s)
    BY <1>p, <1>3 DEF Cleanup, Survivors, LoopPC
  <2> QED BY <1>s, <2>1, UnknownGood
<1>4. CASE CleanupExit
  <2>0. s = Head(d.todo)
    BY <1>p, <1>4 DEF CleanupExit, LoopPC
  <2>1. ~Busy(s)
    BY <1>4, <2>0 DEF CleanupExit, EInv, Position, AbsentInv
  <2>2. PlainTx(s) \/ Ignoring(mark_runtime_unknown(s))
    BY <1>4, <2>0 DEF CleanupExit, PlainTx
  <2> QED BY <1>s, <1>4, <2>1, <2>2, AbsentGood, UnknownGood DEF CleanupExit
<1>5. CASE CleanupMark
  <2>1. ambiguous(d.err) /\ record_failure(s, ambiguous(d.err))
    BY <1>p, <1>5 DEF CleanupMark, LoopPC, EInv, Position, FailureInv
  <2> QED BY <1>s, <1>a, <1>5, <2>1, FailureGood DEF CleanupMark
<1>6. CASE Finalize
  BY <1>s, <1>6, SameGood, OperationGood DEF Finalize, StoreFails
<1> QED BY <1>1, <1>2, <1>3, <1>4, <1>5, <1>6 DEF AbortStart

\* down, restart and shutdown.
LEMMA StopGood ==
    ASSUME TrustedEngine, EInv, Stop
    PROVE  GoodRows
<1>s. StoreTypeOK
  BY DEF EInv, DInv, Inv
<1>p. PICK c, s \in Services :
         c = d.cur /\ (d.todo # << >> \/ d.pc \in LoopPC => s = Head(d.todo))
  BY Subjects
<1>1. CASE DownStop \/ Restart \/ RestartStop \/ ShutdownEnd
  BY <1>1, SameGood DEF DownStop, Restart, RestartStop, ShutdownEnd
<1>2. CASE DownBegin \/ DownFinish \/ DownFinal \/ RestartBegin
  BY <1>s, <1>2, SameGood, OperationGood
     DEF DownBegin, DownFinish, DownFinal, RestartBegin, StoreFails
<1>3. CASE DownSvc
  <2>1. UNCHANGED dbVars \/ set_service_phase(s, "stop_invoked")
    BY <1>p, <1>3 DEF DownSvc, StoreFails
  <2>2. ASSUME set_service_phase(s, "stop_invoked") PROVE GoodRows
    <3>1. PlainTx(s) /\ LocalTx(s)
      BY <2>2 DEF PlainTx, LocalTx
    <3>2. Kept(s)
      BY <1>s, <2>2, LocalKept
    <3> QED BY <1>s, <3>1, <3>2, LocalCalm, LocalGood
  <2> QED BY <2>1, <2>2, SameGood
<1>4. CASE DownStopped
  <2>0. s = Head(d.todo)
    BY <1>p, <1>4 DEF DownStopped, LoopPC
  <2>1. ~Busy(s)
    BY <1>4, <2>0 DEF DownStopped, EInv, Position, AbsentInv
  <2>2. UNCHANGED dbVars \/ PlainTx(s)
    BY <1>4, <2>0 DEF DownStopped, StoreFails, PlainTx
  <2> QED BY <1>s, <1>4, <2>1, <2>2, AbsentGood DEF DownStopped
<1>5. CASE DownQuarantine
  BY <1>s, <1>5, SameGood, UnknownGood DEF DownQuarantine
<1>6. CASE RestartStopInvoke
  <2>1. UNCHANGED dbVars \/ mark_restart_stop_invoked(c)
    BY <1>p, <1>6 DEF RestartStopInvoke, Journal, StoreFails
  <2>2. ASSUME mark_restart_stop_invoked(c) PROVE GoodRows
    <3>1. PlainTx(c) /\ LocalTx(c)
      BY <2>2 DEF PlainTx, LocalTx
    <3>2. svc[c].observed # "unknown"
      BY <1>p, <1>6
         DEF RestartStopInvoke, Journal, EInv, Position, BirthInv
    <3>3. Kept(c)
      BY <1>s, <2>2, <3>2, LocalKept
    <3> QED BY <1>s, <3>1, <3>3, LocalCalm, LocalGood
  <2> QED BY <2>1, <2>2, SameGood
<1>7. CASE RestartStopped
  <2>1. ~Busy(c)
    BY <1>p, <1>7 DEF RestartStopped, EInv, Position, AbsentInv
  <2>2. UNCHANGED dbVars \/ PlainTx(c)
    BY <1>p, <1>7 DEF RestartStopped, StoreFails, PlainTx
  <2> QED BY <1>s, <1>7, <2>1, <2>2, AbsentGood DEF RestartStopped
<1>8. CASE ShutdownAbsent
  <2>0. s = Head(d.todo)
    BY <1>p, <1>8 DEF ShutdownAbsent
  <2>1. \/ UNCHANGED dbVars \/ Ignoring(mark_runtime_unknown(s))
        \/ record_graceful_backoff_stop_ok(s) /\ record_graceful_backoff_stop(s)
    BY <1>8, <2>0 DEF ShutdownAbsent
  <2>2. ASSUME record_graceful_backoff_stop_ok(s),
               record_graceful_backoff_stop(s)
        PROVE  GoodRows
    <3>1. PlainTx(s) /\ LocalTx(s)
      BY <2>2 DEF PlainTx, LocalTx
    <3>2. Kept(s)
      BY <1>s, <2>2, LocalKept
    <3> QED BY <1>s, <3>1, <3>2, LocalCalm, LocalGood
  <2> QED BY <1>s, <2>1, <2>2, UnknownGood
<1>9. CASE ShutdownStop
  <2>1. UNCHANGED dbVars \/ quarantine(s)
    BY <1>p, <1>9 DEF ShutdownStop
  <2> QED BY <1>s, <2>1, UnknownGood
<1>10. CASE ShutdownRecord
  <2>0. s = Head(d.todo)
    BY <1>p, <1>10 DEF ShutdownRecord, LoopPC
  <2>1. ~Busy(s)
    BY <1>10, <2>0 DEF ShutdownRecord, EInv, Position, AbsentInv
  <2>2. PlainTx(s) \/ Ignoring(mark_runtime_unknown(s))
    BY <1>10, <2>0 DEF ShutdownRecord, PlainTx
  <2> QED BY <1>s, <1>10, <2>1, <2>2, AbsentGood, UnknownGood
          DEF ShutdownRecord
<1> QED BY <1>1, <1>2, <1>3, <1>4, <1>5, <1>6, <1>7, <1>8, <1>9, <1>10 DEF Stop

\* No step takes the explanation from the rows of a busy service.
LEMMA RowsStep ==
    ASSUME TrustedEngine, EInv, Next
    PROVE  GoodRows
<1>s. StoreTypeOK /\ JournalInv
  BY DEF EInv, DInv, Inv
<1>1. CASE Reconcile
  BY <1>s, <1>1, SameGood, OperationGood DEF Reconcile, StoreFails
<1>2. CASE Resume
  <2>1. CASE /\ \A s \in Services : resumable(svc[s])
             /\ begin_start_current_ok
             /\ begin_start_current("resume", Services)
    <3>1. \A s \in Services : svc[s].observed \in {"stopped", "failed"}
      BY <2>1 DEF resumable
    <3> QED BY <1>s, <1>2, <2>1, <3>1, BeginGood DEF Resume
  <2> QED BY <1>2, <2>1, SameGood DEF Resume, StoreFails
<1>3. CASE Environment
  BY <1>3, SameGood DEF Environment, Boot, Accept, SigTerm, Crash,
     TracerExits, TreeEnds
<1> QED BY <1>1, <1>2, <1>3, SuperviseGood, PrepareGood, DependGood,
        StartOneGood, AbortGood, StopGood DEF Next, DaemonStep

\* A deadline is set for a service that is absent.
LEMMA DeadlineAbsent ==
    ASSUME EInv, Deadlines
    PROVE  /\ UNCHANGED worldVars
           /\ \/ UNCHANGED svc
              \/ \E s \in Services :
                    ~Busy(s) /\ \E r : svc' = [svc EXCEPT ![s] = r]
<1>p. PICK c, s, e \in Services :
         /\ c = d.cur
         /\ d.pc \in LoopPC => s = Head(d.todo)
         /\ d.pc = "dep_schedule" => e = Head(d.deps)
  BY Subjects
<1>s. ASSUME NEW t \in Services,
             \/ schedule_or_give_up(t) \/ schedule_restart_after_exit(t)
             \/ restore_restart_backoff(t) \/ Ignoring(mark_runtime_unknown(t))
      PROVE  UNCHANGED svc \/ \E r : svc' = [svc EXCEPT ![t] = r]
  BY <1>s DEF schedule_or_give_up, schedule_restart_after_exit, StoreFails,
     schedule_restart, restore_restart_backoff, Ignoring, mark_runtime_unknown,
     write_row, write_refreshed, dbVars
<1>1. CASE TickSchedule
  <2>1. s = Head(d.todo)
    BY <1>p, <1>1 DEF TickSchedule, LoopPC
  <2>2. ~Busy(s)
    BY <1>1, <2>1 DEF TickSchedule, EInv, Position, AbsentInv
  <2> QED BY <1>s, <1>1, <2>1, <2>2 DEF TickSchedule
<1>2. CASE DepSchedule
  <2>1. ~Busy(e) /\ e = Head(d.deps)
    BY <1>p, <1>2 DEF DepSchedule, EInv, Position, AbsentInv
  <2> QED BY <1>s, <1>2, <2>1 DEF DepSchedule
<1>3. CASE Reschedule \/ Restore
  <2>1. ~Busy(c)
    BY <1>p, <1>3 DEF Reschedule, Restore, EInv, Position, AbsentInv
  <2> QED BY <1>p, <1>s, <1>3, <2>1 DEF Reschedule, Restore
<1> QED BY <1>1, <1>2, <1>3 DEF Deadlines

\* The rows go on explaining the trees.
LEMMA JournalStep ==
    ASSUME TrustedEngine, EInv, Next
    PROVE  JournalInv'
<1>g. GoodRows /\ BusyOnly
  BY RowsStep, TreeStep
<1>s. StoreTypeOK /\ WorldTypeOK
  BY DEF EInv, DInv, Inv
<1> SUFFICES ASSUME NEW s \in Services
             PROVE  /\ Busy(s)' => Touched(s)'
                    /\ Untouched(s)' => ~DuePhase(svc'[s])
                    /\ proven_backoff(svc'[s]) => ~orphan'[s]
  BY DEF JournalInv
<1>1. ASSUME Busy(s)' PROVE Touched(s)'
  <2>1. Touched(s)
    BY <1>g, <1>1 DEF BusyOnly, EInv, JournalInv, Position, BirthInv
  <2> QED BY <1>g, <1>1, <2>1 DEF GoodRows, Kept
<1>2. Untouched(s)' => ~DuePhase(svc'[s])
  BY <1>g DEF GoodRows, Calm, EInv, JournalInv
<1>3. ASSUME proven_backoff(svc'[s]) PROVE ~orphan'[s]
  <2>1. CASE Tame
    <3>1. proven_backoff(svc[s])
      BY <1>3, <2>1 DEF Tame, TameRow
    <3>2. ~Busy(s)
      BY <3>1 DEF EInv, DInv, Rows, JournalInv, Busy
    <3>3. ~(d.pc = "spawn" /\ s = d.cur)
      BY <3>1 DEF EInv, DInv, Watched, BirthPC
    <3> QED BY <1>g, <3>2, <3>3 DEF BusyOnly, Busy
  <2>2. CASE Deadlines
    <3>1. \/ ~Busy(s) \/ svc'[s] = svc[s]
      BY <1>s, <2>2, DeadlineAbsent DEF StoreTypeOK
    <3>2. ~orphan[s]
      BY <1>3, <3>1 DEF EInv, JournalInv, Busy
    <3> QED BY <2>2, <3>2, DeadlineAbsent DEF worldVars
  <2> QED BY <2>1, <2>2, OnlyDeadlines DEF EInv, DInv
<1> QED BY <1>1, <1>2, <1>3

-----------------------------------------------------------------------------
(* Before the first `up` *)

\* The transactions that begin an operation, and the steps that use them.
Begins ==
    \/ \E kind, names : begin_start_current(kind, names)
    \/ \E m, reused : begin_candidate(m, reused)
    \/ begin_down
    \/ \E s : begin_restart(s)
BeginStep == Resume \/ BeginCurrent \/ CandBegin \/ DownBegin \/ RestartBegin

\* The other transactions of the journal.
MildTx ==
    \/ UNCHANGED dbVars
    \/ \E s : LocalTx(s)
    \/ \E m : record_noop_up(m)
    \/ finalize_operation_failure \/ finish_start_current \/ commit_up
    \/ finish_down \/ finalize_down_failure
    \/ reconcile_cold_start

\* No transaction deletes the stack.
LEMMA ExistsStays ==
    ASSUME StoreTypeOK, MildTx \/ Begins, stack.exists
    PROVE  stack'.exists
<1>0. stack \in StackRow
  BY DEF StoreTypeOK
<1>1. CASE \E s : LocalTx(s)
  <2>s. PICK s : LocalTx(s)
    BY <1>1
  <2>1. \/ UNCHANGED stack
        \/ \E x : stack' = [stack EXCEPT !.observed = x]
    <3>1. CASE mark_restart_invoked(s) \/ restore_restart_backoff(s)
      BY <3>1 DEF mark_restart_invoked, restore_restart_backoff, write_row,
         write_refreshed
    <3>2. CASE \E n : schedule_restart(s, n)
      BY <3>2 DEF schedule_restart, write_row, write_refreshed
    <3>3. CASE PlainTx(s)
      BY <3>3 DEF PlainTx, set_service_phase, mark_installed,
         mark_rootfs_unknown, mark_starting, mark_running,
         mark_service_failed, mark_restart_stop_invoked,
         mark_restart_stopped, mark_stopped, record_exit,
         mark_runtime_unknown, mark_restart_starting, mark_restart_running,
         record_graceful_stop, record_graceful_backoff_stop, write_row,
         write_refreshed
    <3> QED BY <2>s, <3>1, <3>2, <3>3 DEF LocalTx
  <2> QED BY <1>0, <2>1 DEF StackRow
<1>2. CASE \E m, reused : begin_candidate(m, reused)
  BY <1>0, <1>2 DEF begin_candidate, StackRow
<1>3. CASE \/ \E m : record_noop_up(m)
           \/ \E kind, names : begin_start_current(kind, names)
           \/ finalize_operation_failure \/ \E s : begin_restart(s)
           \/ UNCHANGED dbVars
  BY <1>0, <1>3 DEF record_noop_up, begin_start_current,
     finalize_operation_failure, begin_restart, write_row, dbVars, StackRow
<1>4. CASE finish_start_current \/ commit_up
  BY <1>0, <1>4 DEF finish_start_current, commit_up, StackRow
<1>5. CASE begin_down \/ finish_down \/ finalize_down_failure
  BY <1>0, <1>5 DEF begin_down, finish_down, finalize_down_failure, StackRow
<1>6. CASE reconcile_cold_start
  <2>1. stack' = stack \/ \E x, y : stack' = [stack EXCEPT !.desired = x,
                                                        !.observed = y]
    BY <1>6 DEF reconcile_cold_start
  <2> QED BY <1>0, <2>1 DEF StackRow
<1> QED BY <1>1, <1>2, <1>3, <1>4, <1>5, <1>6 DEF MildTx, Begins

\* Every step is one transaction at most.
LEMMA OneTransaction ==
    ASSUME Next
    PROVE  MildTx \/ (Begins /\ BeginStep)
<1>i. ASSUME NEW s,
             \/ quarantine(s) \/ quarantine_if_owned(s)
             \/ Ignoring(mark_runtime_unknown(s))
             \/ schedule_or_give_up(s) \/ schedule_restart_after_exit(s)
             \/ \E unknown \in BOOLEAN : record_failure(s, unknown)
      PROVE  MildTx
  BY <1>i DEF quarantine, quarantine_if_owned, Ignoring, StoreFails,
     schedule_or_give_up, schedule_restart_after_exit, record_failure, MildTx,
     LocalTx, PlainTx
<1>a. ambiguous(d.err) \in BOOLEAN
  BY DEF ambiguous
<1>1. CASE Supervise
  <2>1. CASE TickChild \/ DueUnknown \/ TickSchedule \/ Reschedule
    BY <2>1, <1>i DEF TickChild, DueUnknown, TickSchedule, Reschedule,
       StoreFails, MildTx, LocalTx, PlainTx
  <2>2. CASE RestartInvoke \/ Restore
    BY <2>2, <1>i DEF RestartInvoke, Restore, StoreFails, MildTx, LocalTx
  <2>3. CASE TickUncertain \/ TickDue \/ Due
    BY <2>3 DEF TickUncertain, TickDue, Due, MildTx
  <2> QED BY <1>1, <2>1, <2>2, <2>3 DEF Supervise
<1>2. CASE Prepare
  <2>1. CASE \/ Up \/ UpCheck \/ CandSvc \/ Install \/ UpConverge
             \/ BeginCurrent \/ CandBegin
    BY <2>1 DEF Up, UpCheck, CandSvc, Install, UpConverge, BeginCurrent,
       CandBegin, begin_candidate_recovery, begin_up, StoreFails, MildTx, Begins,
       BeginStep
  <2>2. CASE \/ MarkLogsPrepared \/ MarkInstallInvoked \/ MarkInstalled
             \/ MarkRootfsUnknown \/ MarkInstallFailed
    BY <2>2 DEF MarkLogsPrepared, MarkInstallInvoked, MarkInstalled,
       MarkRootfsUnknown, MarkInstallFailed, Journal, StoreFails, MildTx,
       LocalTx, PlainTx
  <2> QED BY <1>2, <2>1, <2>2 DEF Prepare
<1>3. CASE Depend
  BY <1>3, <1>i DEF Depend, DepsDone, DepAbsent, DepValid, DepUnqualified,
     DepExitAmbiguous, DepExited, DepSchedule, StoreFails, MildTx, LocalTx,
     PlainTx
<1>4. CASE StartOne
  <2>1. CASE \/ Spawn \/ SpawnRefused \/ Contain \/ Qualify \/ Finish
    BY <2>1 DEF Spawn, SpawnRefused, Contain, Qualify, Finish, StoreFails,
       MildTx
  <2>2. CASE \/ MarkStartInvoked \/ JournalChild \/ QualifyFails
             \/ QualifyExited \/ MarkRunning
    BY <2>2, <1>i DEF MarkStartInvoked, JournalChild, QualifyFails,
       QualifyExited, MarkRunning, StoreFails, MildTx, LocalTx, PlainTx
  <2> QED BY <1>4, <2>1, <2>2 DEF StartOne
<1>5. CASE AbortStart
  BY <1>5, <1>i, <1>a DEF AbortStart, Abort, AbortOthers, Cleanup,
     CleanupExit, CleanupMark, Survivors, Finalize, StoreFails, MildTx,
     LocalTx, PlainTx
<1>6. CASE Stop
  <2>1. CASE \/ DownBegin \/ DownStop \/ DownFinish \/ DownFinal \/ Restart
             \/ RestartBegin \/ RestartStop \/ ShutdownEnd
    BY <2>1 DEF DownBegin, DownStop, DownFinish, DownFinal, Restart,
       RestartBegin, RestartStop, ShutdownEnd, StoreFails, MildTx, Begins,
       BeginStep
  <2>2. CASE \/ DownSvc \/ DownStopped \/ DownQuarantine \/ RestartStopInvoke
             \/ RestartStopped \/ ShutdownAbsent \/ ShutdownStop
             \/ ShutdownRecord
    BY <2>2, <1>i DEF DownSvc, DownStopped, DownQuarantine, RestartStopInvoke,
       Journal, RestartStopped, ShutdownAbsent, ShutdownStop, ShutdownRecord,
       StoreFails, MildTx, LocalTx, PlainTx
  <2> QED BY <1>6, <2>1, <2>2 DEF Stop
<1>7. CASE Reconcile \/ Resume \/ Environment
  BY <1>7 DEF Reconcile, Resume, Environment, Boot, Accept, SigTerm, Crash,
     TracerExits, TreeEnds, StoreFails, MildTx, Begins,
       BeginStep
<1> QED BY <1>1, <1>2, <1>3, <1>4, <1>5, <1>6, <1>7 DEF Next, DaemonStep

\* The initial control state of the daemon's phases.
LEMMA AtFields ==
    ASSUME NEW p
    PROVE  /\ at(p).pc = p /\ at(p).job = "none" /\ at(p).due = {}
           /\ at(p).order = << >> /\ at(p).ret = "start"
BY DEF at

\* Until its first `up` the stack has no service to act on.
LEMMA FirstStep ==
    ASSUME EInv, Next
    PROVE  FirstInv'
<1> SUFFICES ASSUME ~stack'.exists PROVE FirstInv'
  BY DEF FirstInv
<1>s. StoreTypeOK /\ d \in Control
  BY DEF EInv, DInv, Inv, Sound
<1>e. ~stack.exists
  BY <1>s, OneTransaction, ExistsStays
<1>f. /\ stack.def = NoDef /\ op.outcome = "none"
      /\ d.pc \in FirstPC /\ d.due = {} /\ d.job # "down"
      /\ \A s \in Services :
            svc[s].observed = "absent" /\ svc[s].ident = "none" /\ ~Busy(s)
  BY <1>e DEF EInv, FirstInv
<1>h. \A s \in Services : handle[s] = "none"
  BY <1>f DEF Busy
<1>b. \A s \in Services : ~Busy(s)'
  BY <1>f, TreeStep DEF BusyOnly, FirstPC
<1>q. ASSUME UNCHANGED dbVars, d'.pc \in FirstPC, d'.due = {}, d'.job # "down"
      PROVE  FirstInv'
  BY <1>f, <1>b, <1>q DEF dbVars, FirstInv
<1>a. ASSUME NEW p \in FirstPC, d' = at(p), UNCHANGED dbVars
      PROVE  FirstInv'
  <2>1. d'.pc = p /\ d'.due = {} /\ d'.job = "none"
    BY <1>a DEF at
  <2> QED BY <1>q, <1>a, <2>1
<1>r. {"idle", "dead", "tick", "reconcile"} \subseteq FirstPC
  BY DEF FirstPC
<1>n. \/ next_due(d) = at("idle")
      \/ next_due(d) = [d EXCEPT !.pc = "up"]
      \/ next_due(d) = [d EXCEPT !.pc = "restart"]
  BY <1>f DEF next_due, after_tick
<1>1. CASE Supervise
  <2>1. CASE TickUncertain
    <3>1. d'.pc = "tick_child" /\ d'.due = d.due /\ d'.job = d.job
      BY <1>s, <2>1 DEF TickUncertain, Control
    <3> QED BY <1>f, <1>q, <2>1, <3>1 DEF TickUncertain, FirstPC
  <2>2. CASE TickChild
    <3>0. PICK s \in Services : s = Head(d.todo)
      BY <2>2, Subjects DEF TickChild, LoopPC
    <3>1. tick_next /\ UNCHANGED dbVars
      BY <1>h, <2>2, <3>0 DEF TickChild
    <3>2. d'.pc \in {"tick_child", "tick_due"} /\ d'.due = d.due
          /\ d'.job = d.job
      BY <1>s, <3>1 DEF tick_next, Control
    <3> QED BY <1>f, <1>q, <3>1, <3>2 DEF FirstPC
  <2>3. CASE TickDue
    <3>0. {s \in Services : due_restart(svc[s])} = {}
      BY <1>f DEF due_restart, proven_backoff
    <3>1. d' = next_due([d EXCEPT !.due = {}]) \/ d' = at("idle")
      BY <2>3, <3>0 DEF TickDue, return
    <3>2. [d EXCEPT !.due = {}] = d
      BY <1>s, <1>f DEF Control
    <3>3. \/ d' = at("idle") \/ d' = [d EXCEPT !.pc = "up"]
          \/ d' = [d EXCEPT !.pc = "restart"]
      BY <1>n, <3>1, <3>2
    <3>4. \/ d' = at("idle")
          \/ d'.pc \in {"up", "restart"} /\ d'.due = d.due /\ d'.job = d.job
      BY <1>s, <3>3 DEF Control
    <3> QED BY <1>f, <1>q, <1>a, <1>r, <2>3, <3>4 DEF TickDue, FirstPC
  <2> QED BY <1>1, <1>f, <2>1, <2>2, <2>3 DEF Supervise, TickSchedule, Due,
         RestartInvoke, Restore, Reschedule, DueUnknown, FirstPC
<1>2. CASE Prepare
  <2>1. CASE Up
    <3>1. d' = at("idle") \/ d' = [d EXCEPT !.pc = "cand_begin"]
      BY <1>f, <2>1 DEF Up, committed, return, goto
    <3>2. \/ d' = at("idle")
          \/ d'.pc = "cand_begin" /\ d'.due = d.due /\ d'.job = d.job
      BY <1>s, <3>1 DEF Control
    <3> QED BY <1>f, <1>q, <1>a, <1>r, <2>1, <3>2 DEF Up, FirstPC
  <2>2. CASE CandBegin
    <3>1. CASE \E m, reused : begin_candidate(m, reused)
      BY <1>s, <3>1 DEF begin_candidate, StoreTypeOK, StackRow
    <3>2. CASE return /\ UNCHANGED dbVars
      BY <1>a, <1>r, <3>2 DEF return
    <3> QED BY <2>2, <3>1, <3>2 DEF CandBegin, begin_candidate_recovery,
           begin_up, StoreFails
  <2> QED BY <1>2, <1>f, <2>1, <2>2 DEF Prepare, UpCheck, UpConverge,
         BeginCurrent, CandSvc, MarkLogsPrepared, MarkInstallInvoked, Install,
         MarkInstalled, MarkRootfsUnknown, MarkInstallFailed, Journal, FirstPC
<1>3. CASE Depend
  BY <1>3, <1>f DEF Depend, DepsDone, DepAbsent, DepValid, DepUnqualified,
     DepExitAmbiguous, DepExited, DepSchedule, FirstPC
<1>4. CASE StartOne
  BY <1>4, <1>f DEF StartOne, MarkStartInvoked, Spawn, SpawnRefused,
     JournalChild, Contain, Qualify, QualifyFails, QualifyExited, MarkRunning,
     Finish, FirstPC
<1>5. CASE AbortStart
  BY <1>5, <1>f DEF AbortStart, Abort, AbortOthers, Cleanup, CleanupExit,
     CleanupMark, Survivors, Finalize, FirstPC
<1>6. CASE Stop
  <2>1. CASE Restart
    BY <1>f, <1>a, <1>r, <2>1 DEF Restart, committed
  <2> QED BY <1>6, <1>f, <2>1 DEF Stop, DownBegin, DownSvc, DownStop,
         DownStopped, DownFinish, DownQuarantine, DownFinal, RestartBegin,
         RestartStopInvoke, Journal, RestartStop, RestartStopped,
         ShutdownAbsent, ShutdownStop, ShutdownRecord, ShutdownEnd, FirstPC
<1>7. CASE Reconcile
  <2>1. CASE reconcile_cold_start /\ goto("resume")
    <3>1. d'.pc = "resume" /\ d'.due = d.due /\ d'.job = d.job
      BY <1>s, <2>1 DEF goto, Control
    <3>2. stack' = stack /\ op' = op
      BY <1>e, <1>f, <2>1 DEF reconcile_cold_start, unfinished
    <3>3. \A s \in Services : svc'[s] = svc[s]
      BY <1>f, <2>1
         DEF reconcile_cold_start, unfinished, cold_row, active_row
    <3> QED BY <1>f, <1>b, <3>1, <3>2, <3>3 DEF FirstInv, FirstPC
  <2> QED BY <1>7, <1>a, <1>r, <2>1 DEF Reconcile, StoreFails
<1>8. CASE Resume
  BY <1>8, <1>f, <1>a, <1>r DEF Resume, committed, return, StoreFails
<1>9. CASE Environment
  <2>1. CASE Boot \/ Crash
    BY <1>a, <1>r, <2>1 DEF Boot, Crash, process_ends
  <2>2. CASE Accept
    <3>1. \/ d' = at("tick")
          \/ \E m : d' = [at("tick") EXCEPT !.job = "up", !.def = m]
          \/ \E s : d' = [at("tick") EXCEPT !.job = "restart", !.cur = s]
      BY <1>e, <2>2 DEF Accept
    <3>2. at("tick") \in Control /\ at("tick").pc = "tick"
          /\ at("tick").due = {} /\ at("tick").job = "none"
      BY AtControl, AtFields DEF PC
    <3>3. d'.pc = "tick" /\ d'.due = {} /\ d'.job # "down"
      BY <3>1, <3>2 DEF Control
    <3> QED BY <1>q, <1>r, <2>2, <3>3 DEF Accept
  <2>3. CASE SigTerm
    <3>1. ~holding /\ ~\E s \in Services : due_restart(svc[s])
      BY <1>f, <1>h DEF holding, due_restart, proven_backoff
    <3> QED BY <1>a, <1>r, <2>3, <3>1 DEF SigTerm, process_ends
  <2>4. CASE \E s \in Services : TracerExits(s) \/ TreeEnds(s)
    BY <1>f, <1>q, <2>4 DEF TracerExits, TreeEnds
  <2> QED BY <1>9, <2>1, <2>2, <2>3, <2>4 DEF Environment
<1> QED BY <1>1, <1>2, <1>3, <1>4, <1>5, <1>6, <1>7, <1>8, <1>9
        DEF Next, DaemonStep

-----------------------------------------------------------------------------
(* Work lists *)

\* The rest of a work list without duplicates.
LEMMA TailSet ==
    ASSUME NEW q \in Seq(Services), q # << >>
    PROVE  /\ ToSet(q) = {Head(q)} \cup ToSet(Tail(q))
           /\ NoDup(q) => NoDup(Tail(q)) /\ Head(q) \notin ToSet(Tail(q))
<1>1. \A i \in DOMAIN Tail(q) : i + 1 \in DOMAIN q /\ Tail(q)[i] = q[i + 1]
                                /\ i \in Nat \ {0}
  OBVIOUS
<1>2. Head(q) = q[1] /\ 1 \in DOMAIN q
  OBVIOUS
<1>3. {Head(q)} \cup ToSet(Tail(q)) \subseteq ToSet(q)
  BY <1>1, <1>2 DEF ToSet
<1>4. ASSUME NoDup(q) PROVE NoDup(Tail(q)) /\ Head(q) \notin ToSet(Tail(q))
  <2>1. NoDup(Tail(q))
    BY <1>1, <1>4 DEF NoDup
  <2>2. ASSUME NEW i \in DOMAIN Tail(q) PROVE Tail(q)[i] # Head(q)
    BY <1>1, <1>2, <1>4, <2>2 DEF NoDup
  <2> QED BY <2>1, <2>2 DEF ToSet
<1> QED BY <1>3, <1>4, HeadTail

\* One more service in a work list.
LEMMA AppendSet ==
    ASSUME NEW q \in Seq(Services), NEW x \in Services
    PROVE  /\ Append(q, x) \in Seq(Services)
           /\ ToSet(Append(q, x)) = ToSet(q) \cup {x}
           /\ NoDup(q) /\ x \notin ToSet(q) => NoDup(Append(q, x))
<1>1. Append(q, x) \in Seq(Services)
  OBVIOUS
<1>2. /\ DOMAIN Append(q, x) = 1..(Len(q) + 1) /\ DOMAIN q = 1..Len(q)
      /\ \A i \in 1..Len(q) : Append(q, x)[i] = q[i]
      /\ Append(q, x)[Len(q) + 1] = x
      /\ Len(q) \in Nat
  OBVIOUS
<1>3. ToSet(Append(q, x)) \subseteq ToSet(q) \cup {x}
  <2> SUFFICES ASSUME NEW i \in 1..(Len(q) + 1)
               PROVE  Append(q, x)[i] \in ToSet(q) \cup {x}
    BY <1>2 DEF ToSet
  <2>1. i \in 1..Len(q) \/ i = Len(q) + 1
    BY <1>2
  <2> QED BY <1>2, <2>1 DEF ToSet
<1>4. ToSet(q) \cup {x} \subseteq ToSet(Append(q, x))
  <2>1. \A i \in 1..Len(q) : i \in 1..(Len(q) + 1)
    BY <1>2
  <2>2. Len(q) + 1 \in 1..(Len(q) + 1)
    BY <1>2
  <2> QED BY <1>2, <2>1, <2>2 DEF ToSet
<1>5. ASSUME NoDup(q), x \notin ToSet(q) PROVE NoDup(Append(q, x))
  <2> SUFFICES ASSUME NEW i \in 1..(Len(q) + 1), NEW j \in 1..(Len(q) + 1),
                      Append(q, x)[i] = Append(q, x)[j]
               PROVE  i = j
    BY <1>2 DEF NoDup
  <2>1. /\ i \in 1..Len(q) \/ i = Len(q) + 1
        /\ j \in 1..Len(q) \/ j = Len(q) + 1
    BY <1>2
  <2>2. \A k \in 1..Len(q) : q[k] # x
    BY <1>2, <1>5 DEF ToSet
  <2> QED BY <1>2, <1>5, <2>1, <2>2 DEF NoDup
<1> QED BY <1>1, <1>3, <1>4, <1>5

\* No service, one service, and all of them in their start order.
LEMMA SmallSets ==
    /\ ToSet(<< >>) = {} /\ NoDup(<< >>)
    /\ \A x : ToSet(<<x>>) = {x} /\ NoDup(<<x>>)
    /\ ToSet(Order) = Services /\ NoDup(Order)
<1>1. ToSet(<< >>) = {} /\ NoDup(<< >>)
  BY DEF ToSet, NoDup
<1>2. ASSUME NEW x PROVE ToSet(<<x>>) = {x} /\ NoDup(<<x>>)
  BY DEF ToSet, NoDup
<1>3. DOMAIN Order = 1..Len(Order)
  BY OrderAssumption
<1>4. ToSet(Order) = Services /\ NoDup(Order)
  BY <1>3, OrderAssumption DEF NoDup
<1> QED BY <1>1, <1>2, <1>4

-----------------------------------------------------------------------------
(* Where the daemon goes *)

\* Positions that the invariant does not mention.
FreePC == {"dead", "reconcile", "resume", "idle", "cand_begin", "cleanup",
           "survivors", "finalize", "down_begin", "down_svc", "down_stop",
           "down_quarantine", "down_final", "shutdown", "shutdown_end"}

\* Positions where only CollectInv asks for something.
EasyPC == {"tick", "tick_child", "tick_due", "due", "due_unknown", "up",
           "restart", "restart_begin"}

\* The daemon is outside the start and the stop of a service.
LEMMA EasyPosition ==
    ASSUME d'.pc \in FreePC \/ (d'.pc \in EasyPC /\ d'.order = << >>)
    PROVE  Position'
<1>1. d'.pc \notin StartPC \cup {"start_invoke", "finish", "restart_invoke"}
  BY DEF StartPC, BeforePC, PreparePC, BirthPC, FreePC, EasyPC
<1>2. d'.pc \notin PreparePC /\ d'.pc \notin BirthPC /\ d'.pc \notin BeforePC
  BY DEF StartPC, BeforePC, PreparePC, BirthPC, FreePC, EasyPC
<1>3. RetInv' /\ StartingInv'
  BY <1>1, <1>2 DEF RetInv, StartingInv
<1>4. CollectInv'
  BY <1>1 DEF CollectInv, FreshPC, FreePC
<1>5. AbsentInv' /\ BirthInv'
  BY <1>2 DEF AbsentInv, BirthInv, FreePC, EasyPC
<1>6. RestartingInv' /\ FailureInv' /\ ConvergeInv'
  BY DEF RestartingInv, FailureInv, ConvergeInv, FreePC, EasyPC
<1> QED BY <1>3, <1>4, <1>5, <1>6 DEF Position

\* After the tick and between two scheduled restarts.
LEMMA NextDuePosition ==
    ASSUME NEW c \in Control, c.order = << >>, d' = next_due(c)
    PROVE  Position'
<1>1. \/ d' = at("idle") \/ d' = [c EXCEPT !.pc = "up"]
      \/ d' = [c EXCEPT !.pc = "down_begin"]
      \/ d' = [c EXCEPT !.pc = "restart"] \/ d' = [c EXCEPT !.pc = "due"]
  BY DEF next_due, after_tick
<1>2. at("idle").pc = "idle"
  BY AtFields
<1>3. \/ d'.pc \in {"idle", "down_begin"}
      \/ d'.pc \in {"up", "restart", "due"} /\ d'.order = << >>
  BY <1>1, <1>2 DEF Control
<1> QED BY <1>3, EasyPosition DEF FreePC, EasyPC

\* An operation is starting a service.
LEMMA StartPosition ==
    ASSUME d'.pc \in StartPC \ {"restart_invoke", "dep_schedule"},
           d'.ret = "start", StartingInv', BirthInv',
           NEW c, c = d'.cur, d'.pc \in BeforePC => ~Busy(c)'
    PROVE  Position'
<1>1. d'.pc \notin FreshPC \cup {"restart_stopped", "reschedule", "restore",
                     "tick_schedule", "cleanup_exit", "down_stopped",
                     "shutdown_record", "dep_schedule", "abort",
                     "abort_others", "cleanup_mark", "up_check",
                     "begin_current", "restart_stop_invoke", "restart_stop"}
  BY DEF StartPC, BeforePC, PreparePC, BirthPC, FreshPC
<1>2. RetInv' /\ CollectInv' /\ ConvergeInv'
  BY <1>1 DEF RetInv, CollectInv, ConvergeInv
<1>3. AbsentInv'
  BY <1>1 DEF AbsentInv, Busy
<1>4. RestartingInv' /\ FailureInv'
  BY <1>1 DEF RestartingInv, FailureInv
<1> QED BY <1>2, <1>3, <1>4 DEF Position

\* tick is starting a service again.
LEMMA DuePosition ==
    ASSUME d'.pc \in {"deps", "restart_invoke"} \cup BirthPC,
           d'.ret = "due", d'.order = << >>, BirthInv',
           NEW c, c = d'.cur, d'.pc \in BeforePC => ~Busy(c)'
    PROVE  Position'
<1>1. d'.pc \notin PreparePC \cup {"start_invoke", "finish",
                     "restart_stopped", "reschedule", "restore",
                     "tick_schedule", "cleanup_exit", "down_stopped",
                     "shutdown_record", "dep_schedule", "abort",
                     "abort_others", "cleanup_mark", "up_check",
                     "begin_current", "restart_stop_invoke", "restart_stop"}
  BY DEF PreparePC, BirthPC
<1>2. RetInv' /\ CollectInv' /\ ConvergeInv' /\ StartingInv'
  BY <1>1 DEF RetInv, CollectInv, ConvergeInv, StartingInv
<1>3. AbsentInv'
  BY <1>1 DEF AbsentInv, Busy
<1>4. RestartingInv' /\ FailureInv'
  BY <1>1 DEF RestartingInv, FailureInv
<1> QED BY <1>2, <1>3, <1>4 DEF Position

\* An operation is being aborted.
LEMMA AbortPosition ==
    ASSUME NEW c, c = d'.cur,
           \/ d'.pc = "abort" /\ (ambiguous(d'.err) \/ ~Busy(c)')
           \/ d'.pc = "abort_others" /\ ToSet(d'.todo) \subseteq ToSet(d'.order),
           \A s \in ToSet(d'.order) \ (ToSet(d'.started) \cup {c}) : ~Busy(s)'
    PROVE  Position'
<1>1. d'.pc \notin StartPC \cup FreshPC /\ d'.pc \notin BeforePC
      /\ d'.pc \notin PreparePC /\ d'.pc \notin BirthPC
  BY DEF StartPC, BeforePC, PreparePC, BirthPC, FreshPC
<1>2. RetInv' /\ CollectInv' /\ ConvergeInv' /\ StartingInv'
  BY <1>1 DEF RetInv, CollectInv, ConvergeInv, StartingInv
<1>3. AbsentInv' /\ BirthInv' /\ RestartingInv'
  BY <1>1 DEF AbsentInv, BirthInv, RestartingInv
<1>4. FailureInv'
  BY DEF FailureInv, Busy
<1> QED BY <1>2, <1>3, <1>4 DEF Position

\* A start has failed.
LEMMA FailsPosition ==
    ASSUME d \in Control, NEW c \in Services, c = d.cur, NEW e,
           d' = start_fails(d, e), ambiguous(e) \/ ~Busy(c)',
           \A s \in ToSet(d.order) \ (ToSet(d.started) \cup {c}) : ~Busy(s)',
           d.ret = "due" => d.order = << >>
    PROVE  Position'
<1>1. CASE d.ret # "due"
  <2>1. d' = [d EXCEPT !.pc = "abort", !.err = e]
    BY <1>1 DEF start_fails
  <2>2. d'.pc = "abort" /\ d'.err = e /\ d'.cur = c /\ d'.order = d.order
        /\ d'.started = d.started
    BY <2>1 DEF Control
  <2> QED BY <2>2, AbortPosition
<1>2. CASE d.ret = "due" /\ e # "prespawn"
  <2>1. d' = [d EXCEPT !.pc = "due_unknown"]
    BY <1>2 DEF start_fails
  <2>2. d'.pc = "due_unknown" /\ d'.order = << >>
    BY <1>2, <2>1 DEF Control
  <2> QED BY <2>2, EasyPosition DEF EasyPC
<1>3. CASE d.ret = "due" /\ e = "prespawn"
  <2>1. d' = [d EXCEPT !.pc = "restore"]
    BY <1>3 DEF start_fails
  <2>2. d'.pc = "restore" /\ d'.order = << >> /\ d'.cur = c
    BY <1>3, <2>1 DEF Control
  <2>3. ~Busy(c)'
    BY <1>3 DEF ambiguous
  <2>4. d'.pc \notin StartPC /\ d'.pc \notin BeforePC
        /\ d'.pc \notin PreparePC /\ d'.pc \notin BirthPC
    BY <2>2 DEF StartPC, BeforePC, PreparePC, BirthPC
  <2>5. RetInv' /\ CollectInv' /\ ConvergeInv' /\ StartingInv'
    BY <2>2, <2>4 DEF RetInv, CollectInv, ConvergeInv, StartingInv
  <2>6. AbsentInv'
    BY <2>2, <2>3, <2>4 DEF AbsentInv, Busy
  <2>7. BirthInv' /\ RestartingInv' /\ FailureInv'
    BY <2>2, <2>4 DEF BirthInv, RestartingInv, FailureInv
  <2> QED BY <2>5, <2>6, <2>7 DEF Position
<1> QED BY <1>1, <1>2, <1>3

\* An operation goes on to the services q, all of them absent.
LEMMA BeginPosition ==
    ASSUME NEW c \in Control, NEW q \in Seq(Services), NoDup(q),
           d' = start_next(c, q) \/ begin_starting(c, q),
           unfinished',
           \A s \in ToSet(q) : ~Busy(s)',
           \A s \in ToSet(c.order) \cup ToSet(q) : svc'[s].observed # "unknown",
           ToSet(c.order) \subseteq ToSet(c.started) \cup ToSet(q),
           op'.candidate => ToSet(c.order) = Services,
           q = << >> => c.ret = "start" /\ svc'[c.cur].observed # "unknown"
    PROVE  Position'
<1>1. CASE q = << >>
  <2>1. \/ d' = [c EXCEPT !.pc = "finish", !.todo = << >>]
        \/ d' = [[c EXCEPT !.pc = "finish", !.todo = << >>]
                   EXCEPT !.pc = "abort", !.err = "store"]
    BY <1>1 DEF start_next, begin_starting
  <2>2. PICK u \in Services : u = c.cur
    BY DEF Control
  <2>3. /\ d'.cur = u /\ d'.order = c.order /\ d'.started = c.started
        /\ d'.todo = << >> /\ d'.ret = "start"
        /\ \/ d'.pc = "finish"
           \/ d'.pc = "abort" /\ d'.err = "store"
    BY <1>1, <2>1, <2>2 DEF Control
  <2>4. CASE d'.pc = "finish"
    <3>1. StartingInv'
      BY <1>1, <2>2, <2>3, SmallSets DEF StartingInv
    <3>2. BirthInv' /\ d'.pc \notin BeforePC
      BY <2>4 DEF BirthInv, BirthPC, BeforePC, PreparePC
    <3> QED BY <2>3, <2>4, <3>1, <3>2, StartPosition DEF StartPC
  <2>5. CASE d'.pc = "abort" /\ d'.err = "store"
    <3>1. ToSet(d'.order) \ (ToSet(d'.started) \cup {u}) = {}
      BY <1>1, <2>3, SmallSets
    <3> QED BY <2>3, <2>5, <3>1, AbortPosition DEF ambiguous
  <2> QED BY <2>3, <2>4, <2>5
<1>2. CASE q # << >>
  <2>0. PICK u \in Services : u = Head(q)
    BY <1>2, HeadTail
  <2>1. PICK p \in {"cand_svc", "deps"} :
           start_next(c, q) =
             [c EXCEPT !.pc = p, !.cur = Head(q), !.todo = Tail(q),
                       !.deps = DependsOn[Head(q)], !.ret = "start"]
    BY <1>2 DEF start_next
  <2>2. /\ d'.cur = u /\ d'.order = c.order /\ d'.started = c.started
        /\ d'.todo = Tail(q) /\ d'.ret = "start"
        /\ \/ d'.pc = p
           \/ d'.pc = "abort" /\ d'.err = "store"
    <3> DEFINE r == [c EXCEPT !.pc = p, !.cur = u, !.todo = Tail(q),
                              !.deps = DependsOn[Head(q)], !.ret = "start"]
    <3>1. d' = r \/ d' = [r EXCEPT !.pc = "abort", !.err = "store"]
      BY <2>0, <2>1 DEF begin_starting
    <3>2. /\ r.pc = p /\ r.cur = u /\ r.order = c.order
          /\ r.started = c.started /\ r.todo = Tail(q) /\ r.ret = "start"
      BY DEF Control
    <3>3. CASE d' = [r EXCEPT !.pc = "abort", !.err = "store"]
      BY <3>2, <3>3 DEF Control
    <3> QED BY <3>1, <3>2, <3>3
  <2>3. /\ ToSet(q) = {u} \cup ToSet(Tail(q))
        /\ NoDup(Tail(q)) /\ u \notin ToSet(Tail(q))
    BY <1>2, <2>0, TailSet
  <2>4. CASE d'.pc = p
    <3>1. StartingInv'
      BY <2>2, <2>3 DEF StartingInv, Busy
    <3>2. BirthInv'
      BY <2>4 DEF BirthInv, BirthPC
    <3>3. d'.pc \in StartPC \ {"restart_invoke", "dep_schedule"}
      BY <2>4 DEF StartPC, BeforePC, PreparePC
    <3>4. ~Busy(u)'
      BY <2>3
    <3> QED BY <2>2, <3>1, <3>2, <3>3, <3>4, StartPosition
  <2>5. CASE d'.pc = "abort" /\ d'.err = "store"
    <3>1. ToSet(d'.order) \ (ToSet(d'.started) \cup {u}) \subseteq ToSet(q)
      BY <2>2, <2>3
    <3> QED BY <2>2, <2>5, <3>1, AbortPosition DEF ambiguous
  <2> QED BY <2>2, <2>4, <2>5
<1> QED BY <1>1, <1>2

\* The services that an operation has not reached stay absent.
LEMMA OthersAbsent ==
    ASSUME EInv, BusyOnly, d.pc \in StartPC, d.ret \in {"start", "due"}
    PROVE  /\ \A s \in ToSet(d.order) \ (ToSet(d.started) \cup {d.cur}) :
                 ~Busy(s)'
           /\ d.ret = "due" => d.order = << >>
<1>1. d.ret = "due" => d.order = << >>
  BY DEF EInv, Position, CollectInv
<1>2. ASSUME NEW s \in ToSet(d.order) \ (ToSet(d.started) \cup {d.cur}),
             d.ret = "start"
      PROVE  ~Busy(s)'
  <2>1. s \in ToSet(d.todo) /\ ~Busy(s)
    BY <1>2 DEF EInv, Position, StartingInv
  <2>2. s \in Services
    BY <1>2, ToSetType DEF EInv, DInv, Inv, Sound, Control
  <2> QED BY <1>2, <2>1, <2>2 DEF BusyOnly
<1> QED BY <1>1, <1>2, SmallSets

\* No service becomes unknown.
NoNewUnknown ==
    \A s \in Services : svc'[s].observed = "unknown" => svc[s].observed = "unknown"

\* The daemon goes on starting the same service.
LEMMA StayStarting ==
    ASSUME EInv, BusyOnly, NoNewUnknown, UNCHANGED op,
           d.pc \in StartPC, d.ret = "start",
           d'.cur = d.cur, d'.todo = d.todo, d'.order = d.order,
           d'.started = d.started
    PROVE  StartingInv'
<1>0. /\ d.cur \in Services
      /\ ToSet(d.todo) \subseteq Services /\ ToSet(d.order) \subseteq Services
  BY ToSetType DEF EInv, DInv, Inv, Sound, Control
<1>1. /\ unfinished /\ NoDup(d.todo) /\ d.cur \notin ToSet(d.todo)
      /\ \A s \in ToSet(d.todo) : ~Busy(s)
      /\ ToSet(d.order) \subseteq
            ToSet(d.started) \cup {d.cur} \cup ToSet(d.todo)
      /\ \A s \in ToSet(d.order) \cup {d.cur} \cup ToSet(d.todo) :
            svc[s].observed # "unknown"
      /\ op.candidate => ToSet(d.order) = Services
  BY DEF EInv, Position, StartingInv
<1>2. \A s \in ToSet(d.todo) : ~Busy(s)'
  BY <1>0, <1>1 DEF BusyOnly
<1>3. \A s \in ToSet(d.order) \cup {d.cur} \cup ToSet(d.todo) :
         svc'[s].observed # "unknown"
  BY <1>0, <1>1 DEF NoNewUnknown
<1> QED BY <1>1, <1>2, <1>3 DEF StartingInv, unfinished, Busy

-----------------------------------------------------------------------------
(* The positions, step by step *)

\* The rows of a busy service are those of one that was touched.
LEMMA BusyTouched ==
    ASSUME JournalInv, NEW s \in Services, Busy(s)
    PROVE  ~Untouched(s)
BY DEF JournalInv, Touched, Told, Untouched, Early

\* tick: an exit is scheduled once the child was reaped without a tree, and a
\* due restart is one of an absent service.
LEMMA SupervisePosition ==
    ASSUME TrustedEngine, EInv, Supervise, BusyOnly
    PROVE  Position'
<1>s. StoreTypeOK /\ WorldTypeOK /\ TreeInv /\ JournalInv /\ d \in Control
  BY DEF EInv, DInv, Inv, Sound
<1>p. PICK c, s \in Services :
         c = d.cur /\ (d.pc \in LoopPC => s = Head(d.todo))
  BY Subjects
<1>o. d.pc \in FreshPC => d.order = << >>
  BY DEF EInv, Position, CollectInv
<1>n. ASSUME tick_next, d.pc \in FreshPC PROVE Position'
  <2>1. d'.pc \in {"tick_due", "tick_child"} /\ d'.order = << >>
    BY <1>s, <1>o, <1>n DEF tick_next, Control
  <2> QED BY <2>1, EasyPosition DEF EasyPC
<1>d. ASSUME d' = next_due(d), d.pc \in FreshPC PROVE Position'
  BY <1>s, <1>o, <1>d, NextDuePosition
<1>1. CASE TickUncertain
  <2>1. d'.pc = "tick_child" /\ d'.order = << >>
    BY <1>s, <1>o, <1>1 DEF TickUncertain, Control, FreshPC
  <2> QED BY <2>1, EasyPosition DEF EasyPC
<1>2. CASE TickChild
  <2>0. s = Head(d.todo)
    BY <1>p, <1>2 DEF TickChild, LoopPC
  <2>1. CASE /\ handle[s] = "owned" /\ tracer[s] \in {"ok", "fail"}
             /\ "missing" \in registry(s) /\ record_exit(s) /\ let_go(s)
             /\ goto("tick_schedule")
    <3>1. ~Busy(s)'
      BY <1>s, <2>1, Reaped
    <3>2. ~Untouched(s)
      BY <1>s, <2>1, BusyTouched DEF Busy
    <3>3. ~Untouched(s)'
      BY <2>1, <3>2 DEF record_exit, Untouched
    <3>4. d'.pc = "tick_schedule" /\ Head(d'.todo) = s /\ d'.order = << >>
      BY <1>s, <1>o, <1>2, <2>0, <2>1 DEF TickChild, goto, Control, FreshPC
    <3>5. d'.pc \notin StartPC /\ d'.pc \notin BeforePC
          /\ d'.pc \notin PreparePC /\ d'.pc \notin BirthPC
      BY <3>4 DEF StartPC, BeforePC, PreparePC, BirthPC
    <3>6. RetInv' /\ CollectInv' /\ ConvergeInv' /\ StartingInv'
      BY <3>4, <3>5 DEF RetInv, CollectInv, ConvergeInv, StartingInv
    <3>7. AbsentInv'
      BY <3>1, <3>3, <3>4, <3>5 DEF AbsentInv, Busy, Untouched
    <3>8. BirthInv' /\ RestartingInv' /\ FailureInv'
      BY <3>4, <3>5 DEF BirthInv, RestartingInv, FailureInv
    <3> QED BY <3>6, <3>7, <3>8 DEF Position
  <2> QED BY <1>n, <1>2, <2>0, <2>1 DEF TickChild, FreshPC
<1>3. CASE TickSchedule
  BY <1>n, <1>3 DEF TickSchedule, FreshPC
<1>4. CASE TickDue
  <2>1. ASSUME NEW D \in SUBSET Services
        PROVE  /\ [d EXCEPT !.due = D] \in Control
               /\ [d EXCEPT !.due = D].order = d.order
    BY <1>s DEF Control
  <2>2. (\E D \in SUBSET Services : d' = next_due([d EXCEPT !.due = D]))
        \/ d' = at("idle")
    BY <1>4 DEF TickDue, return
  <2>3. d.order = << >>
    BY <1>o, <1>4 DEF TickDue, FreshPC
  <2>4. at("idle").pc = "idle"
    BY AtFields
  <2> QED BY <2>1, <2>2, <2>3, <2>4, NextDuePosition, EasyPosition DEF FreePC
<1>5. CASE Due
  <2>1. PICK u \in d.due :
           \/ /\ due_restart(svc[u])
              /\ d' = [[d EXCEPT !.cur = u, !.due = d.due \ {u}]
                         EXCEPT !.pc = "deps", !.deps = DependsOn[u],
                                !.ret = "due"]
           \/ d' = next_due([d EXCEPT !.cur = u, !.due = d.due \ {u}])
    BY <1>5 DEF Due
  <2>o. d.order = << >>
    BY <1>o, <1>5 DEF Due, FreshPC
  <2>2. u \in Services /\ [d EXCEPT !.cur = u, !.due = d.due \ {u}] \in Control
        /\ [d EXCEPT !.cur = u, !.due = d.due \ {u}].order = << >>
    BY <1>s, <2>o DEF Control
  <2>3. CASE due_restart(svc[u]) /\ d'.pc = "deps" /\ d'.cur = u
             /\ d'.ret = "due" /\ d'.order = << >>
    <3>1. ~Busy(u)
      BY <2>2, <2>3 DEF EInv, DInv, Rows, JournalInv, due_restart, Busy
    <3>2. ~Busy(u)'
      BY <1>5, <3>1 DEF Due, worldVars, Busy
    <3>3. BirthInv'
      BY <2>3 DEF BirthInv, BirthPC
    <3> QED BY <2>3, <3>2, <3>3, DuePosition
  <2>4. \/ due_restart(svc[u]) /\ d'.pc = "deps" /\ d'.cur = u
             /\ d'.ret = "due" /\ d'.order = << >>
        \/ d' = next_due([d EXCEPT !.cur = u, !.due = d.due \ {u}])
    BY <1>s, <2>o, <2>1 DEF Control
  <2> QED BY <2>2, <2>3, <2>4, NextDuePosition
<1>6. CASE RestartInvoke
  <2>0. ~Busy(c) /\ d.ret = "due" /\ d.order = << >>
    BY <1>p, <1>o, <1>6 DEF RestartInvoke, EInv, Position, AbsentInv, RetInv,
       BeforePC, FreshPC
  <2>1. CASE /\ mark_restart_invoked_ok(c) /\ mark_restart_invoked(c)
             /\ goto("spawn")
    <3>1. d'.pc = "spawn" /\ d'.cur = c /\ d'.ret = "due" /\ d'.order = << >>
      BY <1>s, <1>p, <2>0, <2>1 DEF goto, Control
    <3>2. svc'[c].observed = "starting" /\ UNCHANGED <<op, oprow>>
      BY <1>s, <2>1 DEF mark_restart_invoked, write_row, StoreTypeOK, ServiceRow
    <3>3. ~Untouched(c)
      BY <1>s, <2>1 DEF JournalInv, DuePhase, mark_restart_invoked_ok
    <3>4. Touched(c)'
      BY <3>2, <3>3 DEF Touched, Told, Untouched, Early, proven_backoff
    <3>5. BirthInv'
      BY <3>1, <3>2, <3>4 DEF BirthInv, Touched
    <3>6. ~Busy(c)'
      BY <1>6, <2>0 DEF RestartInvoke, worldVars, Busy
    <3> QED BY <3>1, <3>5, <3>6, DuePosition DEF BirthPC
  <2> QED BY <1>d, <1>p, <1>6, <2>1 DEF RestartInvoke, FreshPC
<1>7. CASE Restore \/ Reschedule \/ DueUnknown
  BY <1>d, <1>7 DEF Restore, Reschedule, DueUnknown, FreshPC
<1> QED BY <1>1, <1>2, <1>3, <1>4, <1>5, <1>6, <1>7 DEF Supervise

\* The daemon is back between two pieces of work.
LEMMA AtPosition ==
    ASSUME NEW p \in FreePC, d' = at(p)
    PROVE  Position'
<1>1. d'.pc = p
  BY AtFields
<1> QED BY <1>1, EasyPosition

\* `up` of the committed definition is looking at its services.
LEMMA ConvergePosition ==
    ASSUME \/ d'.pc \in {"up_check", "begin_current"}
           \/ d'.pc = "deps" /\ d'.ret = "up_check",
           ConvergeInv'
    PROVE  Position'
<1>1. d'.pc \notin PreparePC /\ d'.pc \notin BirthPC
      /\ d'.pc \notin FreshPC
  BY DEF PreparePC, BirthPC, FreshPC
<1>2. d'.pc \in StartPC \/ d'.pc \in BeforePC => d'.ret = "up_check"
  BY DEF StartPC, BeforePC, PreparePC, BirthPC
<1>3. RetInv' /\ CollectInv' /\ StartingInv'
  BY <1>1, <1>2 DEF RetInv, CollectInv, StartingInv
<1>4. AbsentInv' /\ BirthInv' /\ RestartingInv' /\ FailureInv'
  BY <1>1, <1>2 DEF AbsentInv, BirthInv, RestartingInv, FailureInv
<1> QED BY <1>3, <1>4 DEF Position

\* Before its spawn, the service being started stays absent.
LEMMA AbsentYet ==
    ASSUME EInv, BusyOnly, d.pc \in BeforePC \ {"spawn"},
           d.ret \in {"start", "due"}, NEW c \in Services, c = d.cur
    PROVE  ~Busy(c)'
<1>1. ~Busy(c)
  BY DEF EInv, Position, AbsentInv
<1> QED BY <1>1 DEF BusyOnly

\* The daemon goes on with the preparation of the same service.
LEMMA StayPosition ==
    ASSUME EInv, BusyOnly, NoNewUnknown, UNCHANGED op,
           d.pc \in BeforePC \ {"spawn"}, d.ret = "start",
           NEW p \in PreparePC \cup {"deps", "start_invoke"},
           d'.pc = p, d'.ret = d.ret, d'.cur = d.cur, d'.todo = d.todo,
           d'.order = d.order, d'.started = d.started
    PROVE  Position'
<1>p. PICK c \in Services : c = d.cur
  BY Subjects
<1>1. d.pc \in StartPC /\ p \in StartPC \ {"restart_invoke", "dep_schedule"}
  BY DEF StartPC, BeforePC, PreparePC
<1>2. StartingInv'
  BY <1>1, StayStarting
<1>3. ~Busy(c)'
  BY <1>p, AbsentYet
<1>4. BirthInv'
  <2>1. d'.pc \notin BirthPC \cup {"spawn", "restart_stop_invoke"}
    BY DEF BirthPC, PreparePC
  <2> QED BY <2>1 DEF BirthInv
<1> QED BY <1>p, <1>1, <1>2, <1>3, <1>4, StartPosition

\* A start has failed: the services that it has not reached are absent.
LEMMA FailingPosition ==
    ASSUME EInv, BusyOnly, d.pc \in StartPC, d.ret \in {"start", "due"},
           NEW c \in Services, c = d.cur, NEW e, d' = start_fails(d, e),
           ambiguous(e) \/ ~Busy(c)'
    PROVE  Position'
<1>1. d \in Control
  BY DEF EInv, DInv, Inv, Sound
<1>2. /\ \A s \in ToSet(d.order) \ (ToSet(d.started) \cup {c}) : ~Busy(s)'
      /\ d.ret = "due" => d.order = << >>
  BY OthersAbsent
<1> QED BY <1>1, <1>2, FailsPosition

\* A journal write of an operation that prepares a service.
LEMMA JournalPosition ==
    ASSUME EInv, BusyOnly, NoNewUnknown, UNCHANGED op,
           NEW p \in PreparePC, NEW next \in PreparePC \cup {"deps"},
           d.pc = p, goto(next) \/ d' = start_fails(d, "store")
    PROVE  Position'
<1>1. d \in Control /\ d.ret = "start"
  BY DEF EInv, DInv, Inv, Sound, Position, RetInv
<1>2. d.pc \in StartPC /\ d.pc \in BeforePC \ {"spawn"}
  BY DEF StartPC, BeforePC, PreparePC
<1>3. CASE goto(next)
  <2>1. d'.pc = next /\ d'.ret = d.ret /\ d'.cur = d.cur /\ d'.todo = d.todo
        /\ d'.order = d.order /\ d'.started = d.started
    BY <1>1, <1>3 DEF goto, Control
  <2> QED BY <1>1, <1>2, <2>1, StayPosition
<1>4. CASE d' = start_fails(d, "store")
  <2>1. PICK c \in Services : c = d.cur
    BY Subjects
  <2>2. ambiguous("store")
    BY DEF ambiguous
  <2> QED BY <1>1, <1>2, <1>4, <2>1, <2>2, FailingPosition
<1> QED BY <1>3, <1>4

\* `up` collects the absent services of the committed definition.
LEMMA UpPosition ==
    ASSUME EInv, Up \/ UpCheck \/ UpConverge, BusyOnly
    PROVE  Position'
<1>s. d \in Control
  BY DEF EInv, DInv, Inv, Sound
<1>i. "idle" \in FreePC
  BY DEF FreePC
<1>1. CASE Up
  <2>0. d.order = << >>
    BY <1>1 DEF Up, EInv, Position, CollectInv, FreshPC
  <2>1. CASE d' = [d EXCEPT !.pc = "up_check", !.todo = Order]
    <3>1. d'.pc = "up_check" /\ d'.todo = Order /\ d'.order = << >>
      BY <1>s, <2>0, <2>1 DEF Control
    <3> QED BY <3>1, SmallSets, ConvergePosition DEF ConvergeInv
  <2>2. CASE goto("cand_begin")
    <3>1. d'.pc = "cand_begin"
      BY <1>s, <2>2 DEF goto, Control
    <3> QED BY <3>1, EasyPosition DEF FreePC
  <2> QED BY <1>1, <1>i, <2>1, <2>2, AtPosition DEF Up, return
<1>2. CASE UpCheck
  <2>s. PICK s \in Services : s = Head(d.todo)
    BY <1>2, Subjects DEF UpCheck
  <2>q. /\ d.todo \in Seq(Services) /\ d.todo # << >>
        /\ d.order \in Seq(Services) /\ UNCHANGED svc
    BY <1>s, <1>2 DEF UpCheck, Control, dbVars
  <2>c. /\ \A t \in ToSet(d.order) : svc[t].observed \in {"stopped", "failed"}
        /\ NoDup(d.order) /\ NoDup(d.todo)
        /\ ToSet(d.order) \cap ToSet(d.todo) = {}
    BY <1>2 DEF UpCheck, EInv, Position, ConvergeInv
  <2>1. CASE d' = [d EXCEPT !.pc = "deps", !.deps = <<s>>, !.ret = "up_check"]
    <3>1. d'.pc = "deps" /\ d'.ret = "up_check" /\ d'.todo = d.todo
          /\ d'.order = d.order
      BY <1>s, <2>1 DEF Control
    <3> QED BY <2>q, <2>c, <3>1, ConvergePosition DEF ConvergeInv
  <2>2. CASE /\ svc[s].observed \in {"stopped", "failed"}
             /\ d' = [d EXCEPT !.order = Append(d.order, s),
                               !.todo = Tail(d.todo)]
    <3>1. d'.pc = "up_check" /\ d'.todo = Tail(d.todo)
          /\ d'.order = Append(d.order, s)
      BY <1>s, <1>2, <2>2 DEF UpCheck, Control
    <3>2. /\ ToSet(d.todo) = {s} \cup ToSet(Tail(d.todo))
          /\ NoDup(Tail(d.todo)) /\ s \notin ToSet(Tail(d.todo))
      BY <2>s, <2>q, <2>c, TailSet
    <3>3. ToSet(d'.order) = ToSet(d.order) \cup {s} /\ NoDup(d'.order)
      BY <2>q, <2>c, <3>1, <3>2, AppendSet
    <3>4. \A t \in ToSet(d'.order) : svc'[t].observed \in {"stopped", "failed"}
      BY <2>q, <2>c, <2>2, <3>3
    <3>5. ToSet(d'.order) \cap ToSet(d'.todo) = {}
      BY <2>c, <3>1, <3>2, <3>3
    <3> QED BY <3>1, <3>2, <3>3, <3>4, <3>5, ConvergePosition DEF ConvergeInv
  <2> QED BY <1>2, <1>i, <2>s, <2>1, <2>2, AtPosition DEF UpCheck, return
<1>3. CASE UpConverge
  <2>1. CASE d.order # << >> /\ goto("begin_current") /\ UNCHANGED dbVars
    <3>1. d'.pc = "begin_current" /\ d'.order = d.order /\ d'.order # << >>
      BY <1>s, <2>1 DEF goto, Control
    <3>2. /\ \A t \in ToSet(d.order) : svc[t].observed \in {"stopped", "failed"}
          /\ NoDup(d.order)
      BY <1>3 DEF UpConverge, EInv, Position, ConvergeInv
    <3> QED BY <2>1, <3>1, <3>2, ConvergePosition DEF ConvergeInv, dbVars
  <2> QED BY <1>3, <1>i, <2>1, AtPosition DEF UpConverge, return
<1> QED BY <1>1, <1>2, <1>3

\* The rows of the services that an operation begins to start.
LEMMA BegunRows ==
    ASSUME StoreTypeOK, NEW kind, NEW names, begin_start_current(kind, names)
    PROVE  /\ unfinished' /\ ~op'.candidate
           /\ \A s \in Services : s \in names => svc'[s].observed = "starting"
BY DEF StoreTypeOK, ServiceRow, begin_start_current, fresh_row, unfinished

\* An operation on committed services begins with those that are absent.
LEMMA BeginCurrentPosition ==
    ASSUME EInv, BeginCurrent, BusyOnly
    PROVE  Position'
<1>s. StoreTypeOK /\ JournalInv /\ d \in Control
  BY DEF EInv, DInv, Inv, Sound
<1>1. CASE /\ begin_start_current_ok
           /\ begin_start_current("up", ToSet(d.order))
           /\ begin_starting(d, d.order)
  <2>1. /\ d.order \in Seq(Services) /\ ToSet(d.order) \subseteq Services
        /\ \A s \in ToSet(d.order) : svc[s].observed \in {"stopped", "failed"}
        /\ NoDup(d.order)
    BY <1>s, ToSetType
       DEF Control, BeginCurrent, EInv, Position, ConvergeInv
  <2>2. /\ unfinished' /\ ~op'.candidate
        /\ \A s \in ToSet(d.order) : svc'[s].observed # "unknown"
    BY <1>s, <1>1, <2>1, BegunRows
  <2>3. ASSUME NEW s \in ToSet(d.order) PROVE ~Busy(s)'
    <3>1. s \in Services /\ ~Busy(s)
      BY <1>s, <1>1, <2>1, <2>3, AbsentRow DEF begin_start_current_ok
    <3> QED BY <3>1 DEF BusyOnly, BeginCurrent
  <2>4. d.order # << >>
    BY DEF BeginCurrent, EInv, Position, ConvergeInv
  <2> QED BY <1>s, <1>1, <2>1, <2>2, <2>3, <2>4, BeginPosition
<1>2. CASE return
  BY <1>2, AtPosition DEF return, FreePC
<1> QED BY <1>1, <1>2 DEF BeginCurrent

\* A candidate begins when no service has a child or a tree.
LEMMA CandBeginPosition ==
    ASSUME EInv, CandBegin, BusyOnly
    PROVE  Position'
<1>s. StoreTypeOK /\ d \in Control
  BY DEF EInv, DInv, Inv, Sound
<1>1. CASE /\ begin_candidate_recovery_ok(d.def) \/ begin_up_ok(d.def)
           /\ \E reused : begin_candidate(d.def, reused)
           /\ d' = start_next([d EXCEPT !.order = Order], Order)
  <2>1. ASSUME NEW s \in Services PROVE ~Busy(s)'
    <3>1. ~Busy(s)
      BY <1>1, CandidateAbsent
    <3> QED BY <3>1 DEF BusyOnly, CandBegin
  <2>2. /\ unfinished' /\ op'.candidate
        /\ \A s \in Services : svc'[s].observed \in {"starting", "preparing"}
    <3>1. unfinished' /\ op'.candidate
      BY <1>1 DEF begin_candidate, unfinished
    <3>2. ASSUME NEW s \in Services
          PROVE  svc'[s].observed \in {"starting", "preparing"}
      <4>1. PICK x \in {"starting", "preparing"}, y \in {"installed", "intent"} :
               svc'[s] = [fresh_row(svc[s], x, y) EXCEPT !.attempts = 0]
        BY <1>1, <3>2 DEF begin_candidate
      <4> DEFINE r == fresh_row(svc[s], x, y)
      <4>2. svc[s] \in ServiceRow
        BY <1>s DEF StoreTypeOK
      <4>3. r.observed = x /\ r \in ServiceRow
        BY <4>2 DEF fresh_row, ServiceRow, Desired, Observed, Phase, Identity
      <4> HIDE DEF r
      <4>4. [r EXCEPT !.attempts = 0].observed = x
        BY <4>3 DEF ServiceRow
      <4> QED BY <4>1, <4>4 DEF r
    <3> QED BY <3>1, <3>2
  <2>3. Order \in Seq(Services) /\ Order # << >>
    BY OrderAssumption
  <2>4. /\ [d EXCEPT !.order = Order] \in Control
        /\ [d EXCEPT !.order = Order].order = Order
    BY <1>s, <2>3 DEF Control
  <2> DEFINE b == [d EXCEPT !.order = Order]
  <2>5. b \in Control /\ b.order = Order /\ d' = start_next(b, Order)
    BY <1>1, <2>4
  <2> HIDE DEF b
  <2> QED BY <2>1, <2>2, <2>3, <2>5, SmallSets, BeginPosition
<1>2. CASE return
  BY <1>2, AtPosition DEF return, FreePC
<1> QED BY <1>1, <1>2 DEF CandBegin, begin_candidate_recovery, begin_up

\* The preparation of a candidate's rootfs.
LEMMA InstallPosition ==
    ASSUME EInv, BusyOnly,
           \/ CandSvc \/ MarkLogsPrepared \/ MarkInstallInvoked \/ Install
           \/ MarkInstalled \/ MarkRootfsUnknown \/ MarkInstallFailed
    PROVE  Position'
<1>s. StoreTypeOK /\ d \in Control
  BY DEF EInv, DInv, Inv, Sound
<1>p. PICK c \in Services : c = d.cur
  BY Subjects
<1>a. d.pc \in PreparePC
  BY DEF CandSvc, MarkLogsPrepared, MarkInstallInvoked, Install,
     MarkInstalled, MarkRootfsUnknown, MarkInstallFailed, Journal, PreparePC
<1>r. d.ret = "start" /\ d.pc \in StartPC /\ d.pc \in BeforePC \ {"spawn"}
  BY <1>a DEF EInv, Position, RetInv, StartPC, BeforePC, PreparePC
<1>b. ~Busy(c)'
  BY <1>p, <1>r, AbsentYet
<1>f. ASSUME NEW e, d' = start_fails(d, e) PROVE Position'
  BY <1>p, <1>r, <1>b, <1>f, FailingPosition
<1>u. UNCHANGED dbVars => NoNewUnknown /\ UNCHANGED op
  BY DEF dbVars, NoNewUnknown
<1>t. ASSUME \/ set_service_phase(c, "logs_prepared")
             \/ set_service_phase(c, "install_invoked")
             \/ mark_installed(c) \/ mark_rootfs_unknown(c)
      PROVE  NoNewUnknown /\ UNCHANGED op
  <2>1. UNCHANGED op /\ (UNCHANGED svc \/
           \E x : svc' = [svc EXCEPT ![c] = [svc[c] EXCEPT !.phase = x]])
    BY <1>t DEF set_service_phase, mark_installed, mark_rootfs_unknown,
       write_row
  <2> QED BY <1>s, <2>1 DEF NoNewUnknown, StoreTypeOK, ServiceRow
<1>1. CASE CandSvc
  BY <1>u, <1>f, <1>a, <1>1, JournalPosition DEF CandSvc, PreparePC
<1>2. CASE Install
  BY <1>u, <1>a, <1>2, JournalPosition DEF Install, PreparePC
<1>3. CASE MarkLogsPrepared \/ MarkInstallInvoked
  BY <1>p, <1>u, <1>t, <1>3, JournalPosition
     DEF MarkLogsPrepared, MarkInstallInvoked, Journal, StoreFails, PreparePC
<1>4. CASE MarkInstalled \/ MarkRootfsUnknown
  BY <1>p, <1>u, <1>t, <1>4, JournalPosition
     DEF MarkInstalled, MarkRootfsUnknown, Journal, StoreFails, PreparePC
<1>5. CASE MarkInstallFailed
  BY <1>f, <1>5 DEF MarkInstallFailed
<1> QED BY <1>1, <1>2, <1>3, <1>4, <1>5

\* up and its candidates.
LEMMA PreparePosition ==
    ASSUME EInv, Prepare, BusyOnly
    PROVE  Position'
BY UpPosition, BeginCurrentPosition, CandBeginPosition, InstallPosition
   DEF Prepare

\* The dependencies of a service to be restarted are being looked at.
LEMMA PreRestartPosition ==
    ASSUME d'.pc = "deps", d'.ret = "pre_restart", d'.order = << >>
    PROVE  Position'
<1>1. d'.pc \notin PreparePC /\ d'.pc \notin BirthPC /\ d'.pc \notin FreshPC
  BY DEF PreparePC, BirthPC, FreshPC
<1>2. RetInv' /\ CollectInv' /\ StartingInv' /\ ConvergeInv'
  BY <1>1 DEF RetInv, CollectInv, StartingInv, ConvergeInv
<1>3. AbsentInv' /\ BirthInv' /\ RestartingInv' /\ FailureInv'
  BY <1>1 DEF AbsentInv, BirthInv, RestartingInv, FailureInv
<1> QED BY <1>2, <1>3 DEF Position

\* The dependencies of a service are being looked at.
LEMMA DepsPosition ==
    ASSUME EInv, BusyOnly, UNCHANGED <<dbVars, worldVars>>,
           d.pc = "deps", d'.pc = "deps", d'.ret = d.ret, d'.cur = d.cur,
           d'.todo = d.todo, d'.order = d.order, d'.started = d.started
    PROVE  Position'
<1>p. PICK c \in Services : c = d.cur
  BY Subjects
<1>s. d.ret \in {"start", "up_check", "pre_restart", "due"}
  BY DEF EInv, DInv, Inv, Sound, Control
<1>a. d.pc \in StartPC /\ d.pc \in BeforePC \ {"spawn"} /\ d.pc \notin BirthPC
  BY DEF StartPC, BeforePC, BirthPC
<1>o. d.ret \in {"due", "pre_restart"} => d.order = << >>
  BY <1>a DEF EInv, Position, CollectInv
<1>n. NoNewUnknown /\ UNCHANGED op
  BY DEF dbVars, NoNewUnknown
<1>b. BirthInv'
  BY <1>a DEF BirthInv
<1>1. CASE d.ret = "start"
  BY <1>1, <1>a, <1>n, StayPosition
<1>2. CASE d.ret = "due"
  <2>1. ~Busy(c)'
    BY <1>p, <1>a, <1>2, AbsentYet
  <2> QED BY <1>p, <1>b, <1>o, <1>2, <2>1, DuePosition
<1>3. CASE d.ret = "pre_restart"
  BY <1>3, <1>o, PreRestartPosition
<1>4. CASE d.ret = "up_check"
  <2>1. ConvergeInv'
    BY <1>4 DEF EInv, Position, ConvergeInv, dbVars
  <2> QED BY <1>4, <2>1, ConvergePosition
<1> QED BY <1>s, <1>1, <1>2, <1>3, <1>4

\* All dependencies are running.
LEMMA DepsDonePosition ==
    ASSUME EInv, BusyOnly, DepsDone
    PROVE  Position'
<1>p. PICK c \in Services : c = d.cur
  BY Subjects
<1>s. d \in Control /\ d.ret \in {"start", "up_check", "pre_restart", "due"}
      /\ (d.ret = "up_check" => d.todo # << >>)
  BY DEF EInv, DInv, Inv, Sound, Control, DepsDone, CheckPC
<1>a. d.pc \in StartPC /\ d.pc \in BeforePC \ {"spawn"}
  BY DEF DepsDone, StartPC, BeforePC
<1>o. d.ret \in {"due", "pre_restart"} => d.order = << >>
  BY <1>a DEF EInv, Position, CollectInv
<1>n. NoNewUnknown /\ UNCHANGED <<op, svc>>
  BY DEF DepsDone, dbVars, NoNewUnknown
<1>1. CASE d.ret = "start"
  <2>1. d' = [d EXCEPT !.pc = "start_invoke"]
    BY <1>1 DEF DepsDone, deps_done
  <2>2. d'.pc = "start_invoke" /\ d'.ret = d.ret /\ d'.cur = d.cur
        /\ d'.todo = d.todo /\ d'.order = d.order /\ d'.started = d.started
    BY <1>s, <2>1 DEF Control
  <2> QED BY <1>1, <1>a, <1>n, <2>2, StayPosition
<1>2. CASE d.ret = "due"
  <2>1. d' = [d EXCEPT !.pc = "restart_invoke"]
    BY <1>2 DEF DepsDone, deps_done
  <2>2. d'.pc = "restart_invoke" /\ d'.ret = "due" /\ d'.cur = c
        /\ d'.order = << >>
    BY <1>s, <1>p, <1>o, <1>2, <2>1 DEF Control
  <2>3. BirthInv'
    BY <2>2 DEF BirthInv, BirthPC
  <2>4. ~Busy(c)'
    BY <1>p, <1>a, <1>2, AbsentYet
  <2> QED BY <2>2, <2>3, <2>4, DuePosition
<1>3. CASE d.ret = "pre_restart"
  <2>1. d' = [d EXCEPT !.pc = "restart_begin"]
    BY <1>3 DEF DepsDone, deps_done
  <2>2. d'.pc = "restart_begin" /\ d'.order = << >>
    BY <1>s, <1>o, <1>3, <2>1 DEF Control
  <2> QED BY <2>2, EasyPosition DEF EasyPC
<1>4. CASE d.ret = "up_check"
  <2>1. d' = [d EXCEPT !.pc = "up_check", !.todo = Tail(d.todo)]
    BY <1>4 DEF DepsDone, deps_done
  <2>2. d'.pc = "up_check" /\ d'.todo = Tail(d.todo) /\ d'.order = d.order
    BY <1>s, <2>1 DEF Control
  <2>3. /\ \A s \in ToSet(d.order) : svc[s].observed \in {"stopped", "failed"}
        /\ NoDup(d.order) /\ NoDup(d.todo)
        /\ ToSet(d.order) \cap ToSet(d.todo) = {}
    BY <1>4 DEF DepsDone, EInv, Position, ConvergeInv
  <2>4. ToSet(Tail(d.todo)) \subseteq ToSet(d.todo) /\ NoDup(Tail(d.todo))
    BY <1>s, <1>4, <2>3, TailSet DEF Control
  <2>5. ConvergeInv'
    BY <1>n, <2>2, <2>3, <2>4 DEF ConvergeInv
  <2> QED BY <2>2, <2>5, ConvergePosition
<1> QED BY <1>s, <1>1, <1>2, <1>3, <1>4

\* A dependency is not running.
LEMMA DepsFailedPosition ==
    ASSUME EInv, BusyOnly, d.pc \in {"deps", "dep_schedule"},
           d' = deps_failed(d)
    PROVE  Position'
<1>p. PICK c \in Services : c = d.cur
  BY Subjects
<1>s. d \in Control
  BY DEF EInv, DInv, Inv, Sound
<1>a. d.pc \in StartPC /\ d.pc \in BeforePC \ {"spawn"}
  BY DEF StartPC, BeforePC
<1>1. CASE d.ret = "start"
  <2>1. d' = [d EXCEPT !.pc = "abort", !.err = "conflict", !.deps = << >>]
    BY <1>1 DEF deps_failed
  <2>2. d'.pc = "abort" /\ d'.cur = c /\ d'.order = d.order
        /\ d'.started = d.started
    BY <1>s, <1>p, <2>1 DEF Control
  <2>3. ~Busy(c)'
    BY <1>p, <1>a, <1>1, AbsentYet
  <2>4. \A s \in ToSet(d.order) \ (ToSet(d.started) \cup {c}) : ~Busy(s)'
    BY <1>p, <1>a, <1>1, OthersAbsent
  <2> QED BY <2>2, <2>3, <2>4, AbortPosition
<1>2. CASE d.ret = "due"
  <2>1. d' = next_due([d EXCEPT !.deps = << >>])
    BY <1>2 DEF deps_failed
  <2>2. d.order = << >>
    BY <1>a, <1>2 DEF EInv, Position, CollectInv
  <2>3. /\ [d EXCEPT !.deps = << >>] \in Control
        /\ [d EXCEPT !.deps = << >>].order = << >>
    BY <1>s, <2>2, EmptyType DEF Control
  <2> QED BY <2>1, <2>3, NextDuePosition
<1>3. CASE d.ret \notin {"start", "due"}
  BY <1>3, AtPosition DEF deps_failed, FreePC
<1> QED BY <1>1, <1>2, <1>3

\* The checks of the dependencies.
LEMMA DependPosition ==
    ASSUME TrustedEngine, EInv, Depend, BusyOnly
    PROVE  Position'
<1>s. StoreTypeOK /\ WorldTypeOK /\ TreeInv /\ JournalInv /\ d \in Control
  BY DEF EInv, DInv, Inv, Sound
<1>1. CASE DepsDone
  BY <1>1, DepsDonePosition
<1>2. CASE DepValid
  <2>1. d' = [d EXCEPT !.deps = Tail(d.deps)]
    BY <1>2 DEF DepValid
  <2>2. d'.pc = "deps" /\ d'.ret = d.ret /\ d'.cur = d.cur
        /\ d'.todo = d.todo /\ d'.order = d.order /\ d'.started = d.started
    BY <1>s, <1>2, <2>1 DEF DepValid, Control
  <2> QED BY <1>2, <2>2, DepsPosition DEF DepValid
<1>3. CASE DepAbsent \/ DepUnqualified \/ DepExitAmbiguous \/ DepSchedule
  BY <1>3, DepsFailedPosition
     DEF DepAbsent, DepUnqualified, DepExitAmbiguous, DepSchedule
<1>4. CASE DepExited
  <2>p. PICK c, e \in Services : c = d.cur /\ e = Head(d.deps)
    BY <1>4, Subjects DEF DepExited
  <2>1. CASE /\ handle[e] = "owned" /\ tracer[e] \in {"ok", "fail"}
             /\ "missing" \in registry(e) /\ let_go(e) /\ record_exit(e)
             /\ goto("dep_schedule")
    <3>1. ~Busy(e)'
      BY <1>s, <2>1, Reaped
    <3>2. ~Untouched(e)
      BY <1>s, <2>1, BusyTouched DEF Busy
    <3>3. ~Untouched(e)'
      BY <2>1, <3>2 DEF record_exit, Untouched
    <3>4. d'.pc = "dep_schedule" /\ Head(d'.deps) = e /\ d'.ret = d.ret
          /\ d'.cur = c /\ d'.todo = d.todo /\ d'.order = d.order
          /\ d'.started = d.started
      BY <1>s, <2>p, <2>1 DEF goto, Control
    <3>5. d'.pc \notin PreparePC /\ d'.pc \notin BirthPC
          /\ d'.pc \notin FreshPC
      BY <3>4 DEF PreparePC, BirthPC, FreshPC
    <3>6. d.pc \in StartPC /\ d.pc \in BeforePC \ {"spawn"}
      BY <1>4 DEF DepExited, StartPC, BeforePC
    <3>7. RetInv' /\ CollectInv' /\ ConvergeInv'
      BY <3>4, <3>5, <3>6
         DEF RetInv, CollectInv, ConvergeInv, EInv, Position
    <3>8. NoNewUnknown /\ UNCHANGED op
      <4>0. PICK x \in {"stopped", "failed"} :
               svc' = [svc EXCEPT ![e] = proven_row(svc[e], x, "exited")]
        BY <2>1 DEF record_exit, write_refreshed
      <4>e. svc[e] \in ServiceRow
        BY <1>s DEF StoreTypeOK
      <4>f. proven_row(svc[e], x, "exited").observed = x
        BY <4>e DEF proven_row, ServiceRow
      <4>1. PICK r : svc' = [svc EXCEPT ![e] = r] /\ r.observed # "unknown"
        BY <4>0, <4>f
      <4> QED BY <1>s, <2>1, <4>1 DEF NoNewUnknown, record_exit, StoreTypeOK
    <3>9. d.ret = "start" => StartingInv'
      BY <2>p, <3>4, <3>6, <3>8, StayStarting
    <3>10. StartingInv'
      BY <3>4, <3>9 DEF StartingInv
    <3>11. d.ret \in {"start", "due"} => ~Busy(c)'
      BY <2>p, <3>6, AbsentYet
    <3>12. AbsentInv'
      BY <3>1, <3>3, <3>4, <3>11 DEF AbsentInv, Busy, Untouched
    <3>13. BirthInv' /\ RestartingInv' /\ FailureInv'
      BY <3>4, <3>5 DEF BirthInv, RestartingInv, FailureInv
    <3> QED BY <3>7, <3>10, <3>12, <3>13 DEF Position
  <2>2. d.pc = "deps"
    BY <1>4 DEF DepExited
  <2> QED BY <1>4, <2>p, <2>1, <2>2, DepsFailedPosition DEF DepExited
<1> QED BY <1>1, <1>2, <1>3, <1>4 DEF Depend

\* The start of a service goes on with a child held.
LEMMA BirthPosition ==
    ASSUME EInv, BusyOnly, NoNewUnknown, UNCHANGED op, d.pc \in BirthPC,
           NEW p \in BirthPC \ {"spawn"}, goto(p),
           NEW c \in Services, c = d.cur, handle'[c] # "none"
    PROVE  Position'
<1>s. d \in Control /\ d.ret \in {"start", "due"} /\ svc[c].observed # "unknown"
  BY DEF EInv, DInv, Inv, Sound, Position, RetInv, BirthInv
<1>1. d'.pc = p /\ d'.ret = d.ret /\ d'.cur = c /\ d'.todo = d.todo
      /\ d'.order = d.order /\ d'.started = d.started
  BY <1>s DEF goto, Control
<1>2. d.pc \in StartPC /\ p \in StartPC \ {"restart_invoke", "dep_schedule"}
      /\ p \notin BeforePC /\ p # "restart_stop_invoke"
  BY DEF StartPC, BeforePC, PreparePC, BirthPC
<1>3. BirthInv'
  BY <1>s, <1>1 DEF BirthInv, NoNewUnknown
<1>4. CASE d.ret = "start"
  <2>1. StartingInv'
    BY <1>1, <1>2, <1>4, StayStarting
  <2> QED BY <1>1, <1>2, <1>3, <1>4, <2>1, StartPosition
<1>5. CASE d.ret = "due"
  <2>1. d.order = << >>
    BY <1>2, <1>5 DEF EInv, Position, CollectInv
  <2> QED BY <1>1, <1>2, <1>3, <1>5, <2>1, DuePosition
<1> QED BY <1>s, <1>4, <1>5

\* The intent of a start is journalled before the spawn.
LEMMA StartInvokedPosition ==
    ASSUME EInv, BusyOnly, MarkStartInvoked
    PROVE  Position'
<1>s. StoreTypeOK /\ d \in Control /\ d.ret = "start" /\ unfinished
  BY DEF EInv, DInv, Inv, Sound, Position, RetInv, StartingInv,
     MarkStartInvoked, StartPC, BeforePC
<1>p. PICK c \in Services : c = d.cur
  BY Subjects
<1>a. d.pc \in StartPC /\ d.pc \in BeforePC \ {"spawn"}
  BY DEF MarkStartInvoked, StartPC, BeforePC
<1>b. ~Busy(c)'
  BY <1>p, <1>s, <1>a, AbsentYet
<1>1. CASE /\ set_service_phase_ok(c) /\ set_service_phase(c, "start_invoked")
           /\ goto("spawn")
  <2>1. d'.pc = "spawn" /\ d'.ret = d.ret /\ d'.cur = c /\ d'.todo = d.todo
        /\ d'.order = d.order /\ d'.started = d.started
    BY <1>s, <1>p, <1>1 DEF goto, Control
  <2>2. svc[c] \in ServiceRow /\ oprow[c] \in OpRow
    BY <1>s DEF StoreTypeOK
  <2>3. /\ UNCHANGED op
        /\ svc' = [svc EXCEPT ![c] = [svc[c] EXCEPT !.phase = "start_invoked"]]
        /\ oprow'[c].outcome = "null" /\ oprow'[c].phase = "start_invoked"
    BY <1>s, <1>1, <2>2 DEF set_service_phase, set_service_phase_ok, write_row,
       StoreTypeOK, OpRow
  <2>4. NoNewUnknown
    BY <1>s, <2>3 DEF NoNewUnknown, StoreTypeOK, ServiceRow
  <2>5. StartingInv'
    BY <1>s, <1>p, <1>a, <2>1, <2>3, <2>4, StayStarting
  <2>6. Touched(c)'
    BY <1>s, <2>3 DEF Touched, Told, unfinished, cold_class
  <2>7. d'.pc \in StartPC
    BY <2>1 DEF StartPC, BeforePC
  <2>8. svc'[c].observed # "unknown"
    BY <1>s, <2>1, <2>5, <2>7 DEF StartingInv
  <2>9. BirthInv'
    BY <2>1, <2>6, <2>8 DEF BirthInv, Touched
  <2> QED BY <1>s, <1>b, <2>1, <2>5, <2>7, <2>9, StartPosition
<1>2. CASE \E e : d' = start_fails(d, e)
  BY <1>s, <1>p, <1>a, <1>b, <1>2, FailingPosition
<1> QED BY <1>p, <1>1, <1>2 DEF MarkStartInvoked

\* The child of a start exits before its session is seen.
LEMMA ExitedPosition ==
    ASSUME TrustedEngine, EInv, BusyOnly, QualifyExited
    PROVE  Position'
<1>s. StoreTypeOK /\ WorldTypeOK /\ TreeInv /\ JournalInv /\ d \in Control
      /\ d.ret \in {"start", "due"}
  BY DEF EInv, DInv, Inv, Sound, Position, RetInv, QualifyExited, BirthPC
<1>p. PICK c \in Services : c = d.cur
  BY Subjects
<1>a. d.pc \in StartPC
  BY DEF QualifyExited, StartPC, BirthPC
<1>h. handle[c] # "none"
  BY <1>p DEF EInv, Position, BirthInv, QualifyExited, BirthPC
<1>f. ASSUME d' = start_fails(d, "uncertain") \/ d' = start_fails(d, "store")
      PROVE  Position'
  <2>1. ambiguous("uncertain") /\ ambiguous("store")
    BY DEF ambiguous
  <2> QED BY <1>s, <1>p, <1>a, <1>f, <2>1, FailingPosition
<1>1. ASSUME tracer[c] \in {"ok", "fail"}, "missing" \in registry(c),
             let_go(c), record_exit(c),
             d' = IF d.ret # "due" THEN start_fails(d, "exited")
                  ELSE IF should_restart(c, tracer[c])
                  THEN [d EXCEPT !.pc = "reschedule"] ELSE next_due(d)
      PROVE  Position'
  <2>1. ~Busy(c)'
    BY <1>s, <1>h, <1>1, Reaped
  <2>2. CASE d.ret # "due"
    BY <1>s, <1>p, <1>a, <1>1, <2>1, <2>2, FailingPosition
  <2>3. CASE d.ret = "due"
    <3>0. d.order = << >>
      BY <1>a, <2>3 DEF EInv, Position, CollectInv
    <3>1. CASE d' = [d EXCEPT !.pc = "reschedule"]
      <4>1. d'.pc = "reschedule" /\ d'.cur = c /\ d'.order = << >>
        BY <1>s, <1>p, <3>0, <3>1 DEF Control
      <4>2. ~Untouched(c)
        BY <1>s, <1>h, BusyTouched DEF Busy
      <4>3. ~Untouched(c)'
        BY <1>1, <4>2 DEF record_exit, Untouched
      <4>4. d'.pc \notin StartPC /\ d'.pc \notin BeforePC
            /\ d'.pc \notin PreparePC /\ d'.pc \notin BirthPC
        BY <4>1 DEF StartPC, BeforePC, PreparePC, BirthPC
      <4>5. RetInv' /\ CollectInv' /\ ConvergeInv' /\ StartingInv'
        BY <4>1, <4>4 DEF RetInv, CollectInv, ConvergeInv, StartingInv
      <4>6. AbsentInv'
        BY <2>1, <4>1, <4>3, <4>4 DEF AbsentInv, Busy, Untouched
      <4>7. BirthInv' /\ RestartingInv' /\ FailureInv'
        BY <4>1, <4>4 DEF BirthInv, RestartingInv, FailureInv
      <4> QED BY <4>5, <4>6, <4>7 DEF Position
    <3>2. CASE d' = next_due(d)
      BY <1>s, <3>0, <3>2, NextDuePosition
    <3> QED BY <1>1, <2>3, <3>1, <3>2
  <2> QED BY <2>2, <2>3
<1> QED BY <1>p, <1>f, <1>1 DEF QualifyExited, Exited

\* A service is running: the operation goes on to the next one.
LEMMA RunningPosition ==
    ASSUME EInv, BusyOnly, MarkRunning
    PROVE  Position'
<1>s. StoreTypeOK /\ d \in Control /\ d.ret \in {"start", "due"}
  BY DEF EInv, DInv, Inv, Sound, Position, RetInv, MarkRunning, BirthPC
<1>p. PICK c \in Services : c = d.cur
  BY Subjects
<1>a. d.pc \in StartPC /\ d.pc # "spawn"
  BY DEF MarkRunning, StartPC, BirthPC
<1>1. CASE d' = start_fails(d, "store")
  <2>1. ambiguous("store")
    BY DEF ambiguous
  <2> QED BY <1>s, <1>p, <1>a, <1>1, <2>1, FailingPosition
<1>2. CASE d.ret = "due" /\ d' = next_due(d)
  <2>1. d.order = << >>
    BY <1>a, <1>2 DEF EInv, Position, CollectInv
  <2> QED BY <1>s, <1>2, <2>1, NextDuePosition
<1>3. CASE /\ d.ret = "start" /\ mark_running(c)
           /\ d' = start_next([d EXCEPT !.started = Append(d.started, c)],
                              d.todo)
  <2>0. /\ d.todo \in Seq(Services) /\ d.started \in Seq(Services)
        /\ ToSet(d.todo) \subseteq Services
        /\ ToSet(d.order) \subseteq Services
    BY <1>s, ToSetType DEF Control
  <2> DEFINE b == [d EXCEPT !.started = Append(d.started, c)]
  <2>1. /\ ToSet(Append(d.started, c)) = ToSet(d.started) \cup {c}
        /\ Append(d.started, c) \in Seq(Services)
    BY <2>0, AppendSet
  <2>2. /\ b \in Control /\ b.order = d.order /\ b.ret = "start"
        /\ b.cur = c /\ ToSet(b.started) = ToSet(d.started) \cup {c}
    BY <1>s, <1>p, <1>3, <2>1 DEF Control
  <2>3. /\ unfinished /\ NoDup(d.todo)
        /\ \A s \in ToSet(d.todo) : ~Busy(s)
        /\ ToSet(d.order) \subseteq ToSet(d.started) \cup {c} \cup ToSet(d.todo)
        /\ \A s \in ToSet(d.order) \cup {c} \cup ToSet(d.todo) :
              svc[s].observed # "unknown"
        /\ op.candidate => ToSet(d.order) = Services
    BY <1>p, <1>a, <1>3 DEF EInv, Position, StartingInv
  <2>4. svc[c] \in ServiceRow
    BY <1>s DEF StoreTypeOK
  <2>5. /\ UNCHANGED op
        /\ \A s \in Services :
              s # c => svc'[s] = svc[s]
        /\ svc'[c].observed = "running"
    BY <1>s, <1>3, <2>4
       DEF mark_running, write_refreshed, StoreTypeOK, ServiceRow
  <2>6. /\ \A s \in ToSet(b.order) \cup ToSet(d.todo) :
              svc'[s].observed # "unknown"
        /\ svc'[b.cur].observed # "unknown"
    BY <2>0, <2>2, <2>3, <2>5
  <2>7. ASSUME NEW s \in ToSet(d.todo) PROVE ~Busy(s)'
    BY <1>a, <2>0, <2>3, <2>7 DEF BusyOnly
  <2>8. unfinished' /\ (op'.candidate => ToSet(b.order) = Services)
    BY <2>2, <2>3, <2>5 DEF unfinished
  <2>9. ToSet(b.order) \subseteq ToSet(b.started) \cup ToSet(d.todo)
    BY <2>2, <2>3
  <2>10. d' = start_next(b, d.todo)
    BY <1>3
  <2> HIDE DEF b
  <2> QED BY <2>0, <2>2, <2>3, <2>6, <2>7, <2>8, <2>9, <2>10, BeginPosition
<1> QED BY <1>s, <1>p, <1>1, <1>2, <1>3 DEF MarkRunning

\* The start of one service.
LEMMA StartOnePosition ==
    ASSUME TrustedEngine, EInv, StartOne, BusyOnly
    PROVE  Position'
<1>s. StoreTypeOK /\ WorldTypeOK /\ d \in Control
  BY DEF EInv, DInv, Inv, Sound
<1>p. PICK c \in Services : c = d.cur
  BY Subjects
<1>r. d.pc \in BirthPC => d.ret \in {"start", "due"} /\ d.pc \in StartPC
  BY DEF EInv, Position, RetInv, StartPC
<1>h. d.pc \in BirthPC \ {"spawn"} => handle[c] # "none"
  BY <1>p DEF EInv, Position, BirthInv
<1>u. UNCHANGED dbVars => NoNewUnknown /\ UNCHANGED op
  BY DEF dbVars, NoNewUnknown
<1>f. ASSUME d.pc \in BirthPC, NEW e \in {"store", "uncertain", "session",
                                         "identity"},
             d' = start_fails(d, e)
      PROVE  Position'
  <2>1. ambiguous(e)
    BY <1>f DEF ambiguous
  <2> QED BY <1>p, <1>r, <1>f, <2>1, FailingPosition
<1>1. CASE MarkStartInvoked
  BY <1>1, StartInvokedPosition
<1>2. CASE Spawn
  <2>1. handle'[c] # "none"
    BY <1>s, <1>p, <1>2 DEF Spawn, WorldTypeOK
  <2> QED BY <1>p, <1>u, <1>2, <2>1, BirthPosition DEF Spawn, BirthPC
<1>3. CASE SpawnRefused
  <2>0. d.pc \in BirthPC
    BY <1>3 DEF SpawnRefused, BirthPC
  <2>1. CASE d' = start_fails(d, "identity")
    BY <1>f, <2>0, <2>1
  <2>2. CASE d' = start_fails(d, "prespawn")
    <3>1. ~Busy(c)
      BY <1>p, <1>r, <1>3, <2>0
         DEF EInv, Position, AbsentInv, SpawnRefused, BeforePC
    <3>2. ~Busy(c)'
      BY <1>3, <3>1 DEF SpawnRefused, worldVars, Busy
    <3> QED BY <1>p, <1>r, <2>0, <2>2, <3>2, FailingPosition
  <2> QED BY <1>3, <2>1, <2>2 DEF SpawnRefused
<1>4. CASE JournalChild
  <2>0. handle[c] # "none" /\ d.pc \in BirthPC
    BY <1>h, <1>4 DEF JournalChild, BirthPC
  <2>1. handle'[c] # "none"
    BY <1>s, <1>p, <1>4, <2>0 DEF JournalChild, WorldTypeOK
  <2>2. NoNewUnknown /\ UNCHANGED op
    <3>1. CASE UNCHANGED dbVars
      BY <1>u, <3>1
    <3>2. CASE mark_starting(c) \/ mark_restart_starting(c)
      <4>0. svc[c] \in ServiceRow
        BY <1>s DEF StoreTypeOK
      <4>1. PICK x : svc' = [svc EXCEPT ![c] =
                       [svc[c] EXCEPT !.observed = "starting", !.phase = x,
                                      !.ident = "pid"]]
        BY <3>2 DEF mark_starting, mark_restart_starting, write_row,
           write_refreshed
      <4>e. [svc[c] EXCEPT !.observed = "starting", !.phase = x,
                           !.ident = "pid"].observed = "starting"
        BY <4>0 DEF ServiceRow
      <4>2. PICK r : svc' = [svc EXCEPT ![c] = r] /\ r.observed = "starting"
        BY <4>1, <4>e
      <4> QED BY <1>s, <3>2, <4>2 DEF NoNewUnknown, mark_starting,
             mark_restart_starting, StoreTypeOK
    <3> QED BY <1>p, <1>4, <3>1, <3>2 DEF JournalChild
  <2>3. goto("qualify") \/ goto("contain")
    BY <1>4 DEF JournalChild
  <2> QED BY <1>p, <2>0, <2>1, <2>2, <2>3, BirthPosition DEF BirthPC
<1>5. CASE Contain
  BY <1>f, <1>5 DEF Contain, BirthPC
<1>6. CASE Qualify
  <2>1. handle'[c] # "none"
    BY <1>h, <1>6 DEF Qualify, worldVars, BirthPC
  <2> QED BY <1>p, <1>u, <1>6, <2>1, BirthPosition DEF Qualify, BirthPC
<1>7. CASE QualifyFails
  BY <1>f, <1>7 DEF QualifyFails, BirthPC
<1>8. CASE QualifyExited
  BY <1>8, ExitedPosition
<1>9. CASE MarkRunning
  BY <1>9, RunningPosition
<1>10. CASE Finish
  <2>1. CASE return
    BY <2>1, AtPosition DEF return, FreePC
  <2>2. CASE d' = start_fails(d, "store")
    <3>1. d.ret = "start" /\ d.pc \in StartPC
      BY <1>10 DEF Finish, EInv, Position, RetInv, StartPC
    <3>2. ambiguous("store")
      BY DEF ambiguous
    <3> QED BY <1>p, <2>2, <3>1, <3>2, FailingPosition
  <2> QED BY <1>10, <2>1, <2>2 DEF Finish
<1> QED BY <1>1, <1>2, <1>3, <1>4, <1>5, <1>6, <1>7, <1>8, <1>9, <1>10
        DEF StartOne

\* A session has been stopped, or could not be.
LEMMA StoppedPosition ==
    ASSUME \/ d'.pc = "cleanup_mark" /\ ambiguous(d'.err)
           \/ /\ d'.pc \in {"cleanup_exit", "down_stopped", "shutdown_record"}
              /\ \E s : s = Head(d'.todo) /\ ~Busy(s)'
    PROVE  Position'
<1>1. d'.pc \notin StartPC /\ d'.pc \notin BeforePC /\ d'.pc \notin PreparePC
      /\ d'.pc \notin BirthPC /\ d'.pc \notin FreshPC
  BY DEF StartPC, BeforePC, PreparePC, BirthPC, FreshPC
<1>2. RetInv' /\ CollectInv' /\ ConvergeInv' /\ StartingInv'
  BY <1>1 DEF RetInv, CollectInv, ConvergeInv, StartingInv
<1>3. AbsentInv'
  BY <1>1 DEF AbsentInv, Busy
<1>4. BirthInv' /\ RestartingInv' /\ FailureInv'
  BY <1>1 DEF BirthInv, RestartingInv, FailureInv
<1> QED BY <1>2, <1>3, <1>4 DEF Position

\* A pass of shutdown begins.
LEMMA ShutdownPosition ==
    ASSUME NEW again, begin_shutdown(again)
    PROVE  Position'
<1>1. at("shutdown") \in Control /\ at("shutdown").pc = "shutdown"
  BY AtControl DEF PC
<1>2. \/ \E q, a : d' = [at("shutdown") EXCEPT !.todo = q, !.again = a]
      \/ \E q, a, e : d' = [at("shutdown") EXCEPT !.todo = q, !.again = a,
                                                  !.err = e]
  BY DEF begin_shutdown
<1>3. d'.pc = "shutdown"
  BY <1>1, <1>2 DEF Control
<1> QED BY <1>3, EasyPosition DEF FreePC

\* The abort of an operation.
LEMMA AbortStartPosition ==
    ASSUME TrustedEngine, EInv, AbortStart, BusyOnly
    PROVE  Position'
<1>s. WorldTypeOK /\ TreeInv /\ d \in Control
  BY DEF EInv, DInv, Inv, Sound
<1>p. PICK c, s \in Services :
         c = d.cur /\ (d.pc \in LoopPC => s = Head(d.todo))
  BY Subjects
<1>q. d.todo \in Seq(Services) /\ (d.pc \in LoopPC => d.todo # << >>)
  BY DEF EInv, DInv, Inv, Sound, Control
<1>c. ASSUME NEW q, d' = cleanup_next(d, q) \/ d' = survivors_next(d, q)
      PROVE  Position'
  <2>1. d'.pc \in {"finalize", "cleanup", "survivors"}
    BY <1>s, <1>c DEF cleanup_next, survivors_next, Control
  <2> QED BY <2>1, EasyPosition DEF FreePC
<1>o. ASSUME d.pc \in {"abort", "abort_others"},
             NEW q, ToSet(q) \subseteq ToSet(d.order),
             d' = abort_others_next(d, q)
      PROVE  Position'
  <2>1. CASE q = << >>
    BY <1>c, <1>o, <2>1 DEF abort_others_next
  <2>2. CASE q # << >>
    <3>1. d' = [d EXCEPT !.pc = "abort_others", !.todo = q]
      BY <1>o, <2>2 DEF abort_others_next
    <3>2. d'.pc = "abort_others" /\ d'.todo = q /\ d'.order = d.order
          /\ d'.started = d.started /\ d'.cur = c
      BY <1>s, <1>p, <3>1 DEF Control
    <3>3. ASSUME NEW t \in ToSet(d.order) \ (ToSet(d.started) \cup {c})
          PROVE  ~Busy(t)'
      <4>1. ~Busy(t)
        BY <1>p, <1>o, <3>3 DEF EInv, Position, FailureInv
      <4>2. t \in Services
        BY <1>s, <3>3, ToSetType DEF Control
      <4> QED BY <1>o, <4>1, <4>2 DEF BusyOnly
    <3> QED BY <1>o, <3>2, <3>3, AbortPosition
  <2> QED BY <2>1, <2>2
<1>1. CASE Abort
  BY <1>1, <1>c, <1>o DEF Abort
<1>2. CASE AbortOthers
  <2>1. ToSet(d.todo) \subseteq ToSet(d.order)
    BY <1>2 DEF AbortOthers, EInv, Position, FailureInv
  <2>2. ToSet(Tail(d.todo)) \subseteq ToSet(d.todo)
    BY <1>2, <1>q, TailSet DEF AbortOthers, LoopPC
  <2> QED BY <1>2, <1>o, <2>1, <2>2 DEF AbortOthers
<1>3. CASE Cleanup
  <2>0. s = Head(d.todo)
    BY <1>p, <1>3 DEF Cleanup, LoopPC
  <2>1. CASE stop_owned_child(s) /\ goto("cleanup_exit")
    <3>1. ~Busy(s)'
      BY <1>s, <2>1, Stopped
    <3>2. d'.pc = "cleanup_exit" /\ d'.todo = d.todo
      BY <1>s, <2>1 DEF goto, Control
    <3> QED BY <2>0, <3>1, <3>2, StoppedPosition
  <2>2. ASSUME NEW e \in stop_errors(s),
               d' = [d EXCEPT !.pc = "cleanup_mark", !.err = e]
        PROVE  Position'
    <3>1. d'.pc = "cleanup_mark" /\ d'.err = e
      BY <1>s, <2>2 DEF Control
    <3>2. ambiguous(e)
      BY <2>2, StopErrors
    <3> QED BY <3>1, <3>2, StoppedPosition
  <2> QED BY <1>3, <2>0, <2>1, <2>2 DEF Cleanup
<1>4. CASE CleanupExit \/ CleanupMark \/ Survivors
  BY <1>4, <1>c DEF CleanupExit, CleanupMark, Survivors
<1>5. CASE Finalize
  BY <1>5, AtPosition, ShutdownPosition DEF Finalize, return, FreePC
<1> QED BY <1>1, <1>2, <1>3, <1>4, <1>5 DEF AbortStart

\* down.
LEMMA DownPosition ==
    ASSUME EInv, BusyOnly,
           \/ DownBegin \/ DownSvc \/ DownStop \/ DownStopped \/ DownFinish
           \/ DownQuarantine \/ DownFinal
    PROVE  Position'
<1>s. WorldTypeOK /\ TreeInv /\ d \in Control
  BY DEF EInv, DInv, Inv, Sound
<1>g. ASSUME NEW p \in FreePC, goto(p) PROVE Position'
  <2>1. d'.pc = p
    BY <1>s, <1>g DEF goto, Control
  <2> QED BY <2>1, EasyPosition
<1>r. return => Position'
  BY AtPosition DEF return, FreePC
<1>v. ASSUME \E q : d' = [d EXCEPT !.pc = "down_svc", !.todo = q]
      PROVE  Position'
  <2>1. d'.pc = "down_svc"
    BY <1>s, <1>v DEF Control
  <2> QED BY <2>1, EasyPosition DEF FreePC
<1>f. {"down_stop", "down_quarantine", "down_final"} \subseteq FreePC
  BY DEF FreePC
<1>1. CASE DownBegin
  BY <1>1, <1>g, <1>r, <1>v, <1>f DEF DownBegin
<1>2. CASE DownSvc
  <2>1. CASE d' = [d EXCEPT !.todo = Tail(d.todo)]
    <3>1. d'.pc = "down_svc"
      BY <1>s, <1>2, <2>1 DEF DownSvc, Control
    <3> QED BY <3>1, EasyPosition DEF FreePC
  <2>2. CASE goto("down_stop") \/ goto("down_quarantine")
    BY <1>g, <1>f, <2>2
  <2> QED BY <1>2, <2>1, <2>2 DEF DownSvc, goto
<1>3. CASE DownStop
  <2>s. PICK s \in Services : s = Head(d.todo)
    BY <1>3, Subjects DEF DownStop, LoopPC
  <2>1. CASE stop_owned_child(s) /\ goto("down_stopped")
    <3>1. ~Busy(s)'
      BY <1>s, <2>1, Stopped
    <3>2. d'.pc = "down_stopped" /\ d'.todo = d.todo
      BY <1>s, <2>1 DEF goto, Control
    <3> QED BY <2>s, <3>1, <3>2, StoppedPosition
  <2> QED BY <1>3, <1>g, <1>f, <2>s, <2>1 DEF DownStop
<1>4. CASE DownStopped
  BY <1>4, <1>g, <1>v, <1>f DEF DownStopped
<1>5. CASE DownFinish \/ DownFinal
  BY <1>5, <1>g, <1>r, <1>f DEF DownFinish, DownFinal
<1>6. CASE DownQuarantine
  <2>1. CASE UNCHANGED d
    <3>1. d'.pc = "down_quarantine"
      BY <1>6, <2>1 DEF DownQuarantine
    <3> QED BY <3>1, EasyPosition DEF FreePC
  <2> QED BY <1>6, <1>g, <1>f, <2>1 DEF DownQuarantine
<1> QED BY <1>1, <1>2, <1>3, <1>4, <1>5, <1>6

\* A restart is stopping its service.
LEMMA RestartingPosition ==
    ASSUME d'.pc \in {"restart_stop_invoke", "restart_stop",
                      "restart_stopped"},
           d'.order = << >>, unfinished', ~op'.candidate,
           NEW c, c = d'.cur,
           d'.pc = "restart_stop_invoke" => svc'[c].observed # "unknown",
           d'.pc = "restart_stopped" => ~Busy(c)'
    PROVE  Position'
<1>1. d'.pc \notin StartPC /\ d'.pc \notin BeforePC /\ d'.pc \notin PreparePC
      /\ d'.pc \notin BirthPC
  BY DEF StartPC, BeforePC, PreparePC, BirthPC
<1>2. RetInv' /\ CollectInv' /\ ConvergeInv' /\ StartingInv'
  BY <1>1 DEF RetInv, CollectInv, ConvergeInv, StartingInv
<1>3. AbsentInv'
  BY <1>1 DEF AbsentInv, Busy
<1>4. BirthInv' /\ RestartingInv' /\ FailureInv'
  BY <1>1 DEF BirthInv, RestartingInv, FailureInv
<1> QED BY <1>2, <1>3, <1>4 DEF Position

\* restart, up to the start of its service.
LEMMA RestartPosition ==
    ASSUME TrustedEngine, EInv, BusyOnly,
           \/ Restart \/ RestartBegin \/ RestartStopInvoke \/ RestartStop
           \/ RestartStopped
    PROVE  Position'
<1>s. StoreTypeOK /\ WorldTypeOK /\ TreeInv /\ d \in Control
  BY DEF EInv, DInv, Inv, Sound
<1>p. PICK c \in Services : c = d.cur
  BY Subjects
<1>o. d.order = << >> /\ d.pc # "spawn"
  BY DEF EInv, Position, CollectInv, FreshPC, Restart, RestartBegin,
     RestartStopInvoke, Journal, RestartStop, RestartStopped
<1>n. RestartStopInvoke \/ RestartStop \/ RestartStopped =>
         unfinished /\ ~op.candidate
  BY DEF EInv, Position, RestartingInv, RestartStopInvoke, Journal,
     RestartStop, RestartStopped
<1>f. ASSUME NEW e, d' = start_fails(d, e), ambiguous(e) PROVE Position'
  BY <1>s, <1>p, <1>o, <1>f, SmallSets, FailsPosition
<1>a. ambiguous("store")
  BY DEF ambiguous
<1>g. ASSUME NEW p \in {"restart_stop_invoke", "restart_stop",
                       "restart_stopped"}, goto(p)
      PROVE  d'.pc = p /\ d'.order = << >> /\ d'.cur = c
  BY <1>s, <1>p, <1>o, <1>g DEF goto, Control
<1>1. CASE Restart
  <2>1. CASE d' = [d EXCEPT !.pc = "deps", !.ret = "pre_restart",
                            !.deps = DependsOn[d.cur]]
    <3>1. d'.pc = "deps" /\ d'.ret = "pre_restart" /\ d'.order = << >>
      BY <1>s, <1>o, <2>1 DEF Control
    <3> QED BY <3>1, PreRestartPosition
  <2> QED BY <1>1, <2>1, AtPosition DEF Restart, FreePC
<1>2. CASE RestartBegin
  <2>1. CASE /\ begin_restart_ok(c) /\ begin_restart(c)
             /\ goto("restart_stop_invoke")
    <3>0. svc[c] \in ServiceRow
      BY <1>s DEF StoreTypeOK
    <3>1. unfinished' /\ ~op'.candidate
      BY <2>1 DEF begin_restart, unfinished
    <3>2. svc'[c].observed # "unknown"
      BY <1>s, <2>1, <3>0 DEF begin_restart, begin_restart_ok, write_row,
         StoreTypeOK, ServiceRow
    <3>3. d'.pc = "restart_stop_invoke" /\ d'.order = << >> /\ d'.cur = c
      BY <1>g, <2>1
    <3> QED BY <3>1, <3>2, <3>3, RestartingPosition
  <2> QED BY <1>2, <1>p, <2>1, AtPosition DEF RestartBegin, return, FreePC
<1>3. CASE RestartStopInvoke
  <2>1. CASE mark_restart_stop_invoked(c) /\ goto("restart_stop")
    <3>1. unfinished' /\ ~op'.candidate
      BY <1>3, <1>n, <2>1 DEF mark_restart_stop_invoked, unfinished
    <3>2. d'.pc = "restart_stop" /\ d'.order = << >> /\ d'.cur = c
      BY <1>g, <2>1
    <3> QED BY <3>1, <3>2, RestartingPosition
  <2> QED BY <1>3, <1>p, <1>f, <1>a, <2>1 DEF RestartStopInvoke, Journal
<1>4. CASE RestartStop
  <2>1. CASE stop_owned_child(c) /\ goto("restart_stopped")
    <3>1. unfinished' /\ ~op'.candidate
      BY <1>4, <1>n DEF RestartStop, dbVars, unfinished
    <3>2. ~Busy(c)'
      BY <1>s, <2>1, Stopped
    <3>3. d'.pc = "restart_stopped" /\ d'.order = << >> /\ d'.cur = c
      BY <1>g, <2>1
    <3> QED BY <3>1, <3>2, <3>3, RestartingPosition
  <2> QED BY <1>4, <1>p, <1>f, <2>1, StopErrors DEF RestartStop
<1>5. CASE RestartStopped
  <2>1. CASE mark_restart_stopped(c) /\ begin_starting(d, <<c>>)
    <3>0. svc[c] \in ServiceRow
      BY <1>s DEF StoreTypeOK
    <3>1. unfinished' /\ ~op'.candidate
      BY <1>5, <1>n, <2>1 DEF mark_restart_stopped, unfinished
    <3>2. svc'[c].observed = "stopped"
      BY <1>s, <2>1, <3>0 DEF mark_restart_stopped, write_refreshed,
         proven_row, StoreTypeOK, ServiceRow
    <3>3. ~Busy(c)
      BY <1>5, <1>p DEF RestartStopped, EInv, Position, AbsentInv
    <3>4. ~Busy(c)'
      BY <1>o, <3>3 DEF BusyOnly
    <3>5. /\ <<c>> \in Seq(Services) /\ <<c>> # << >> /\ NoDup(<<c>>)
          /\ ToSet(<<c>>) = {c} /\ ToSet(d.order) = {}
      BY <1>o, SmallSets
    <3> QED BY <1>s, <2>1, <3>1, <3>2, <3>4, <3>5, BeginPosition
  <2> QED BY <1>5, <1>p, <1>f, <1>a, <2>1 DEF RestartStopped
<1> QED BY <1>1, <1>2, <1>3, <1>4, <1>5

\* down, restart and shutdown.
LEMMA StopPosition ==
    ASSUME TrustedEngine, EInv, Stop, BusyOnly
    PROVE  Position'
<1>s. WorldTypeOK /\ TreeInv /\ d \in Control
  BY DEF EInv, DInv, Inv, Sound
<1>e. goto("shutdown_end") => Position'
  <2>1. goto("shutdown_end") => d'.pc = "shutdown_end"
    BY <1>s DEF goto, Control
  <2> QED BY <2>1, EasyPosition DEF FreePC
<1>n. shutdown_next => Position'
  <2>1. shutdown_next => d'.pc = "shutdown"
    BY <1>s DEF shutdown_next, Control
  <2> QED BY <2>1, EasyPosition DEF FreePC
<1>1. CASE ShutdownAbsent \/ ShutdownRecord
  BY <1>1, <1>e, <1>n DEF ShutdownAbsent, ShutdownRecord
<1>2. CASE ShutdownStop
  <2>s. PICK s \in Services : s = Head(d.todo)
    BY <1>2, Subjects DEF ShutdownStop
  <2>1. CASE stop_owned_child(s) /\ goto("shutdown_record")
    <3>1. ~Busy(s)'
      BY <1>s, <2>1, Stopped
    <3>2. d'.pc = "shutdown_record" /\ d'.todo = d.todo
      BY <1>s, <2>1 DEF goto, Control
    <3> QED BY <2>s, <3>1, <3>2, StoppedPosition
  <2> QED BY <1>2, <1>e, <2>s, <2>1 DEF ShutdownStop
<1>3. CASE ShutdownEnd
  BY <1>3, AtPosition, ShutdownPosition DEF ShutdownEnd, process_ends, FreePC
<1> QED BY <1>1, <1>2, <1>3, DownPosition, RestartPosition DEF Stop

\* A tree or a tracer ends, or nothing happens.
LEMMA QuietPosition ==
    ASSUME EInv, UNCHANGED <<dbVars, handle, d>>,
           \A s \in Services : orphan'[s] => orphan[s]
    PROVE  Position'
<1>p. PICK c, s, e \in Services :
         /\ c = d.cur
         /\ d.pc \in LoopPC => s = Head(d.todo)
         /\ d.pc = "dep_schedule" => e = Head(d.deps)
  BY Subjects
<1>t. ToSet(d.todo) \subseteq Services /\ ToSet(d.order) \subseteq Services
  BY ToSetType DEF EInv, DInv, Inv, Sound, Control
<1>b. \A u \in Services : ~Busy(u) => ~Busy(u)'
  BY DEF Busy
<1>u. \A u : Untouched(u)' <=> Untouched(u)
  BY DEF dbVars, Untouched
<1>i. Position
  BY DEF EInv
<1>1. RetInv' /\ CollectInv' /\ RestartingInv' /\ ConvergeInv'
  BY <1>i DEF dbVars, Position, RetInv, CollectInv, RestartingInv,
     ConvergeInv, unfinished
<1>2. StartingInv'
  BY <1>i, <1>t DEF dbVars, Position, StartingInv, unfinished, Busy
<1>3. AbsentInv'
  <2>1. /\ d.pc \in BeforePC /\ d.ret \in {"start", "due"} => ~Busy(c)'
        /\ d.pc \in {"restart_stopped", "reschedule", "restore"} => ~Busy(c)'
    BY <1>i, <1>p, <1>b DEF Position, AbsentInv
  <2>2. d.pc \in {"tick_schedule", "cleanup_exit", "down_stopped",
                  "shutdown_record"} => ~Busy(s)' /\ s = Head(d.todo)
    BY <1>i, <1>p, <1>b DEF Position, AbsentInv, LoopPC
  <2>3. d.pc = "dep_schedule" => ~Busy(e)' /\ e = Head(d.deps)
    BY <1>i, <1>p, <1>b DEF Position, AbsentInv
  <2>4. /\ d.pc = "reschedule" => ~Untouched(c)'
        /\ d.pc = "tick_schedule" => ~Untouched(s)'
        /\ d.pc = "dep_schedule" => ~Untouched(e)'
    BY <1>i, <1>p, <1>u, <2>2, <2>3 DEF Position, AbsentInv
  <2> QED BY <1>p, <2>1, <2>2, <2>3, <2>4 DEF AbsentInv, Busy, Untouched
<1>4. BirthInv'
  BY <1>i DEF dbVars, Position, BirthInv, Touched
<1>5. FailureInv'
  BY <1>i, <1>p, <1>t DEF dbVars, Position, FailureInv, Busy
<1> QED BY <1>1, <1>2, <1>3, <1>4, <1>5 DEF Position

\* The cold start, the resume and the daemon's environment.
LEMMA LifePosition ==
    ASSUME EInv, Reconcile \/ Resume \/ Environment, BusyOnly
    PROVE  Position'
<1>s. StoreTypeOK /\ JournalInv /\ WorldTypeOK /\ d \in Control
  BY DEF EInv, DInv, Inv, Sound
<1>a. \A p \in {"dead", "reconcile", "idle"} : d' = at(p) => Position'
  BY AtPosition DEF FreePC
<1>1. CASE Reconcile
  <2>1. goto("resume") => d'.pc = "resume"
    BY <1>s DEF goto, Control
  <2> QED BY <1>1, <1>a, <2>1, EasyPosition DEF Reconcile, FreePC
<1>2. CASE Resume
  <2>1. CASE /\ \A s \in Services : resumable(svc[s])
             /\ begin_start_current_ok
             /\ begin_start_current("resume", Services)
             /\ begin_starting([d EXCEPT !.job = "resume", !.order = Order],
                               Order)
    <3>1. ASSUME NEW s \in Services PROVE ~Busy(s)'
      <4>1. ~Busy(s)
        BY <1>s, <2>1, AbsentRow DEF resumable, begin_start_current_ok
      <4> QED BY <1>2, <4>1 DEF BusyOnly, Resume
    <3>2. /\ unfinished' /\ ~op'.candidate
          /\ \A s \in Services : svc'[s].observed # "unknown"
      BY <1>s, <2>1, BegunRows
    <3>3. Order \in Seq(Services) /\ Order # << >>
      BY OrderAssumption
    <3> DEFINE b == [d EXCEPT !.job = "resume", !.order = Order]
    <3>4. b \in Control /\ b.order = Order
      BY <1>s, <3>3 DEF Control, Job
    <3>5. begin_starting(b, Order)
      BY <2>1
    <3> HIDE DEF b
    <3> QED BY <3>1, <3>2, <3>3, <3>4, <3>5, SmallSets, BeginPosition
  <2> QED BY <1>2, <1>a, <2>1 DEF Resume, return
<1>3. CASE Accept
  <2>1. /\ at("tick") \in Control /\ at("tick").pc = "tick"
        /\ at("tick").order = << >>
    BY AtControl, AtFields DEF PC
  <2>2. d'.pc = "tick" /\ d'.order = << >>
    BY <1>3, <2>1 DEF Accept, Control
  <2> QED BY <2>2, EasyPosition DEF EasyPC
<1>4. CASE Boot \/ Crash \/ SigTerm
  BY <1>4, <1>a, ShutdownPosition DEF Boot, Crash, SigTerm, process_ends
<1>5. CASE \E s \in Services : TracerExits(s) \/ TreeEnds(s)
  <2>1. /\ UNCHANGED <<dbVars, handle, d>>
        /\ \A s \in Services : orphan'[s] => orphan[s]
    BY <1>s, <1>5 DEF TracerExits, TreeEnds, WorldTypeOK
  <2> QED BY <2>1, QuietPosition
<1> QED BY <1>1, <1>2, <1>3, <1>4, <1>5 DEF Environment

-----------------------------------------------------------------------------
(* The theorems *)

\* Nothing has been started.
LEMMA InitEInv == Init => EInv
<1> SUFFICES ASSUME Init PROVE EInv
  OBVIOUS
<1>1. DInv
  BY InitDInv
<1>2. d.pc = "dead" /\ d.due = {} /\ d.job = "none"
  BY AtFields DEF Init
<1>3. \A s \in Services : /\ handle[s] = "none" /\ ~guest[s] /\ ~orphan[s]
                          /\ svc[s].observed = "absent"
                          /\ svc[s].ident = "none"
                          /\ ~DuePhase(svc[s]) /\ ~proven_backoff(svc[s])
  BY DEF Init, StoreInit, DuePhase, proven_backoff
<1>4. TreeInv /\ JournalInv
  BY <1>3 DEF TreeInv, JournalInv, Busy
<1>5. FirstInv
  BY <1>2, <1>3 DEF Init, StoreInit, FirstInv, FirstPC, Busy
<1>6. d.pc \notin StartPC /\ d.pc \notin BeforePC /\ d.pc \notin PreparePC
      /\ d.pc \notin BirthPC /\ d.pc \notin FreshPC
  BY <1>2 DEF StartPC, BeforePC, PreparePC, BirthPC, FreshPC
<1>7. RetInv /\ CollectInv /\ StartingInv /\ RestartingInv /\ AbsentInv
      /\ BirthInv /\ FailureInv /\ ConvergeInv
  BY <1>2, <1>6 DEF RetInv, CollectInv, StartingInv, RestartingInv,
     AbsentInv, BirthInv, FailureInv, ConvergeInv
<1> QED BY <1>1, <1>4, <1>5, <1>7 DEF EInv, Position

\* Every step keeps the evidence.
LEMMA NextEInv ==
    ASSUME TrustedEngine, EInv, [Next]_vars
    PROVE  EInv'
<1>1. DInv'
  BY NextDInv DEF EInv
<1>2. CASE Next
  <2>1. TreeInv' /\ BusyOnly
    BY <1>2, TreeStep
  <2>2. JournalInv' /\ FirstInv'
    BY <1>2, JournalStep, FirstStep
  <2>3. Position'
    BY <1>2, <2>1, SupervisePosition, PreparePosition, DependPosition,
       StartOnePosition, AbortStartPosition, StopPosition, LifePosition
       DEF Next, DaemonStep
  <2> QED BY <1>1, <2>1, <2>2, <2>3 DEF EInv
<1>3. CASE UNCHANGED vars
  <2>1. UNCHANGED <<dbVars, worldVars, d>>
    BY <1>3 DEF vars, dbVars, worldVars
  <2>2. TreeInv' /\ JournalInv'
    BY <2>1 DEF EInv, TreeInv, JournalInv, Busy, Touched, Untouched, dbVars,
       worldVars
  <2>3. FirstInv'
    BY <2>1 DEF EInv, FirstInv, Busy, dbVars, worldVars
  <2>4. Position'
    BY <2>1, QuietPosition DEF worldVars
  <2> QED BY <1>1, <2>2, <2>3, <2>4 DEF EInv
<1> QED BY <1>2, <1>3

\* NoSecondSession for every stack, start order, restart policy and set of
\* faults that leaves the view of the engine intact: spawn_and_qualify is
\* reached only when no tree of the service is alive.
THEOREM OneSession ==
    ASSUME TrustedEngine
    PROVE  Spec => []NoSecondSession
<1>1. EInv => NoSecondSession
  BY DEF EInv, TreeInv, NoSecondSession
<1>2. EInv /\ [Next]_vars => EInv'
  BY NextEInv
<1> QED BY <1>1, <1>2, InitEInv, PTL DEF Spec

\* DurableEvidence, likewise: whenever the daemon is killed, what the next
\* cold start makes of a service whose tree is alive is `unknown`.
THEOREM EvidenceIsDurable ==
    ASSUME TrustedEngine
    PROVE  Spec => []DurableEvidence
<1>1. EInv => DurableEvidence
  <2> SUFFICES ASSUME EInv, NEW s \in Services, guest[s] \/ orphan[s]
               PROVE  cold_row(s).observed = "unknown"
    BY DEF DurableEvidence
  <2>1. Busy(s)
    BY DEF EInv, TreeInv, Busy
  <2>2. Touched(s)
    BY <2>1 DEF EInv, JournalInv
  <2>3. svc[s] \in ServiceRow
    BY DEF EInv, DInv, Inv, StoreTypeOK
  <2>4. CASE unfinished /\ oprow[s].outcome = "null"
    <3>1. cold_class(oprow[s]) = "unknown"
      BY <2>2, <2>4 DEF Touched, Told, unfinished
    <3> QED BY <2>3, <2>4, <3>1 DEF cold_row, ServiceRow
  <2>5. CASE ~(unfinished /\ oprow[s].outcome = "null")
    <3>1. /\ svc[s].observed \notin {"stopped", "failed", "absent"}
          /\ ~proven_backoff(svc[s])
      BY <2>2, <2>5 DEF Touched, Told, unfinished
    <3>2. svc[s].observed = "unknown" \/ active_row(svc[s])
      BY <2>3, <3>1 DEF active_row, ServiceRow, Observed
    <3> QED BY <2>3, <2>5, <3>1, <3>2 DEF cold_row, ServiceRow
  <2> QED BY <2>4, <2>5
<1>2. EInv /\ [Next]_vars => EInv'
  BY NextEInv
<1> QED BY <1>1, <1>2, InitEInv, PTL DEF Spec

\* UnknownIsSticky, likewise: no abort, cleanup, down, tick, cold start or
\* later request takes a service out of `unknown` while its tree is alive.
THEOREM UnknownStays ==
    ASSUME TrustedEngine
    PROVE  Spec => UnknownIsSticky
<1> DEFINE Sticky ==
       \A s \in Services :
          svc[s].observed = "unknown" /\ svc'[s].observed # "unknown"
             => ~guest'[s] /\ ~orphan'[s]
<1>1. EInv /\ [Next]_vars => EInv'
  BY NextEInv
<1>2. EInv /\ [Next]_vars => [Sticky]_vars
  <2> SUFFICES ASSUME EInv, Next, NEW s \in Services,
                      svc[s].observed = "unknown",
                      guest'[s] \/ orphan'[s]
               PROVE  svc'[s].observed = "unknown"
    OBVIOUS
  <2>1. TreeInv' /\ BusyOnly /\ GoodRows
    BY TreeStep, RowsStep
  <2>2. Busy(s)'
    BY <2>1 DEF TreeInv, Busy
  <2>3. Touched(s)
    BY <2>1, <2>2 DEF BusyOnly, EInv, JournalInv, Position, BirthInv
  <2> QED BY <2>1, <2>2, <2>3 DEF GoodRows, Kept
<1> QED BY <1>1, <1>2, InitEInv, PTL DEF Spec, UnknownIsSticky

-----------------------------------------------------------------------------
(***************************************************************************)
(* The daemon implements Sessions (ImplementsSessions of module            *)
(* RuntimeSessions), for every stack and every set of faults that leaves   *)
(* its view of the engine intact.                                          *)
(*                                                                         *)
(* The evidence above gives every step of Sessions but one: that an intent *)
(* is only taken for a service whose absence is on record.  An operation   *)
(* knows it from the phases of its rows, a scheduled restart from its      *)
(* deadline; the latter needs that no operation is left open on a service  *)
(* that the daemon owns, or a deadline could be set beside a row that a    *)
(* cold start would call unknown.                                          *)
(***************************************************************************)

\* The unfinished operation has not said what became of the service.
Open(s) == unfinished /\ oprow[s].outcome = "null"
Owing(s) == Open(s) /\ handle[s] = "owned"

BackoffInv == \A s \in Services : proven_backoff(svc[s]) => ~Open(s)

\* Where an operation may be open on a service that the daemon owns: in the
\* operation itself and in its abort.
DownPC == {"down_svc", "down_stop", "down_stopped", "down_quarantine"}
OwingPC == DownPC \cup {"qualify", "mark_running", "restart_stop_invoke",
                        "restart_stop", "abort", "cleanup", "survivors"}

OwingInv ==
    \A s \in Services : Owing(s) =>
        \/ d.pc \in DownPC
        \/ /\ s = d.cur
           /\ \/ d.pc \in {"qualify", "mark_running"} /\ d.ret = "start"
              \/ d.pc \in {"restart_stop_invoke", "restart_stop"}
              \/ d.pc = "abort" /\ d.job = "restart"
              \/ d.pc \in {"cleanup", "survivors"} /\ d.todo = <<s>>

\* A deadline is about to be set for a service without an open operation.
ClosedInv ==
    /\ d.pc \in BirthPC /\ d.ret = "due" => ~Open(d.cur)
    /\ d.pc \in {"reschedule", "restore"} => ~Open(d.cur)
    /\ d.pc = "tick_schedule" => ~Open(Head(d.todo))
    /\ d.pc = "dep_schedule" => ~Open(Head(d.deps))

\* What the daemon goes by when it takes an intent.
Unstarted(s) == cold_class(oprow[s]) # "unknown"
IntentPC == {"cand_svc", "deps", "dep_schedule", "start_invoke"}
IntentInv ==
    /\ d.pc \in StartPC /\ d.ret = "start" =>
          \A s \in ToSet(d.todo) : Unstarted(s)
    /\ d.pc \in IntentPC /\ d.ret = "start" => Unstarted(d.cur)
    /\ d.pc \in {"deps", "restart_invoke"} /\ d.ret = "due" =>
          proven_backoff(svc[d.cur])

RestartPC == {"restart", "restart_begin", "restart_stop_invoke",
              "restart_stop", "restart_stopped"}
JobInv ==
    /\ \/ d.pc \in RestartPC
       \/ d.pc \in {"deps", "dep_schedule"} /\ d.ret = "pre_restart"
       => d.job = "restart"
    /\ d.pc \in RestartPC \ {"restart"} => d.ret = "pre_restart"

Stage == ClosedInv /\ IntentInv /\ JobInv
SInv == EInv /\ BackoffInv /\ OwingInv /\ Stage

-----------------------------------------------------------------------------
(* The transactions *)

NoneOpened == \A s \in Services : Open(s)' => Open(s)

\* Every other transaction on one service gives its row an outcome or leaves
\* the outcome alone.
LEMMA LocalOpen ==
    ASSUME StoreTypeOK, NEW u, LocalTx(u)
    PROVE  /\ UNCHANGED op
           /\ \A s \in Services :
                 /\ s # u => oprow'[s] = oprow[s]
                 /\ \/ oprow'[s].outcome = oprow[s].outcome
                    \/ oprow'[s].outcome \in {"success", "failure"}
<1>0. oprow \in [Services -> OpRow]
  BY DEF StoreTypeOK
<1>1. UNCHANGED op
  BY DEF LocalTx, PlainTx, set_service_phase, mark_installed,
     mark_rootfs_unknown, mark_starting, mark_running, mark_service_failed,
     mark_restart_stop_invoked, mark_restart_stopped, mark_stopped,
     record_exit, mark_runtime_unknown, mark_restart_invoked,
     mark_restart_starting, mark_restart_running, record_graceful_stop,
     record_graceful_backoff_stop, schedule_restart, restore_restart_backoff
<1>2. \/ UNCHANGED oprow
      \/ \E p : oprow' = [oprow EXCEPT ![u].phase = p]
      \/ \E p : \E o \in {"success", "failure"} :
            oprow' = [oprow EXCEPT ![u] = [phase |-> p, outcome |-> o]]
  BY DEF LocalTx, PlainTx, set_service_phase, mark_installed,
     mark_rootfs_unknown, mark_starting, mark_running, mark_service_failed,
     mark_restart_stop_invoked, mark_restart_stopped, mark_stopped,
     record_exit, mark_runtime_unknown, mark_restart_invoked,
     mark_restart_starting, mark_restart_running, record_graceful_stop,
     record_graceful_backoff_stop, schedule_restart, restore_restart_backoff
<1> QED BY <1>0, <1>1, <1>2 DEF OpRow

\* Only a transaction that begins an operation opens it on a service.
LEMMA MildOpen ==
    ASSUME StoreTypeOK, MildTx
    PROVE  NoneOpened
<1>o. op \in Operation /\ oprow \in [Services -> OpRow]
  BY DEF StoreTypeOK
<1>1. CASE \E u : LocalTx(u)
  BY <1>1, LocalOpen DEF NoneOpened, Open, unfinished
<1>2. CASE UNCHANGED dbVars \/ \E m : record_noop_up(m)
  BY <1>2 DEF dbVars, record_noop_up, NoneOpened, Open, unfinished
<1>3. CASE finalize_operation_failure \/ finish_start_current \/ commit_up
           \/ finish_down \/ finalize_down_failure
  <2>1. op'.outcome \in {"success", "failure"}
    BY <1>o, <1>3 DEF finalize_operation_failure, finish_start_current,
       commit_up, finish_down, finalize_down_failure, finish_op, Operation
  <2> QED BY <2>1 DEF NoneOpened, Open, unfinished
<1>4. CASE reconcile_cold_start
  <2>1. CASE unfinished
    <3>1. finish_op("success") \/ finish_op("failure")
      BY <1>4, <2>1 DEF reconcile_cold_start
    <3>2. op'.outcome \in {"success", "failure"}
      BY <1>o, <3>1 DEF finish_op, Operation
    <3> QED BY <3>2 DEF NoneOpened, Open, unfinished
  <2>2. CASE ~unfinished
    BY <1>4, <2>2 DEF reconcile_cold_start, NoneOpened, Open, unfinished
  <2> QED BY <2>1, <2>2
<1> QED BY <1>1, <1>2, <1>3, <1>4 DEF MildTx

\* No operation begins on a service with a restart deadline in its row.
LEMMA BegunBackoff ==
    ASSUME StoreTypeOK, Begins, NEW s \in Services, Open(s)'
    PROVE  ~proven_backoff(svc'[s])
<1>0. svc[s] \in ServiceRow /\ svc \in [Services -> ServiceRow]
  BY DEF StoreTypeOK
<1>1. ASSUME NEW o, NEW p PROVE fresh_row(svc[s], o, p).backoff = FALSE
  BY <1>0 DEF fresh_row, ServiceRow
<1>2. CASE \E kind, names : begin_start_current(kind, names)
  <2>1. \/ \E o, p : svc'[s] = fresh_row(svc[s], o, p)
        \/ oprow'[s] = NoRow
    BY <1>2 DEF begin_start_current
  <2>2. oprow'[s] # NoRow
    BY DEF Open, NoRow
  <2>3. svc'[s].backoff = FALSE
    BY <1>1, <2>1, <2>2
  <2> QED BY <2>3 DEF proven_backoff
<1>3. CASE \E m, reused : begin_candidate(m, reused)
  <2>1. PICK o, p : svc'[s] = [fresh_row(svc[s], o, p) EXCEPT !.attempts = 0]
    BY <1>3 DEF begin_candidate
  <2>2. svc'[s].backoff = FALSE
    BY <1>0, <1>1, <2>1 DEF fresh_row, ServiceRow
  <2> QED BY <2>2 DEF proven_backoff
<1>4. CASE begin_down
  <2>1. svc'[s] = down_row(svc[s])
    BY <1>4 DEF begin_down
  <2>2. svc'[s].backoff = FALSE
    BY <1>0, <2>1 DEF down_row, ServiceRow
  <2> QED BY <2>2 DEF proven_backoff
<1>5. CASE \E u : begin_restart(u)
  <2>1. PICK u : begin_restart(u)
    BY <1>5
  <2>2. s = u
    BY <2>1 DEF begin_restart, Open, NoRow
  <2>3. svc'[s].phase = "restart_stop_intent"
    BY <1>0, <2>1, <2>2 DEF begin_restart, write_row, ServiceRow
  <2> QED BY <2>3 DEF proven_backoff
<1> QED BY <1>2, <1>3, <1>4, <1>5 DEF Begins

\* A deadline is set only for a service without an open operation, and no
\* operation begins on one with a deadline.
LEMMA BackoffStep ==
    ASSUME SInv, Next
    PROVE  BackoffInv'
<1>s. StoreTypeOK /\ Inv /\ d \in Control
  BY DEF SInv, EInv, DInv, Inv, Sound
<1>t. MildTx \/ Begins
  BY OneTransaction
<1> SUFFICES ASSUME NEW s \in Services, proven_backoff(svc'[s]), Open(s)'
             PROVE  FALSE
  BY DEF BackoffInv, Open
<1>1. CASE Tame
  <2>1. ~Open(s)
    BY <1>1 DEF SInv, BackoffInv, Tame, TameRow
  <2> QED BY <1>s, <1>t, <2>1, MildOpen, BegunBackoff DEF NoneOpened
<1>2. CASE Deadlines
  <2>1. UNCHANGED <<op, oprow>>
    BY <1>2 DEF Deadlines, TickSchedule, DepSchedule, Reschedule, Restore,
       schedule_restart_after_exit, schedule_or_give_up, Ignoring, StoreFails,
       schedule_restart, restore_restart_backoff, mark_runtime_unknown, dbVars
  <2>2. Open(s)
    BY <2>1 DEF Open, unfinished
  <2>3. PICK u : ~Open(u) /\ (UNCHANGED svc
                              \/ \E r : svc' = [svc EXCEPT ![u] = r])
    BY <1>2 DEF Deadlines, TickSchedule, DepSchedule, Reschedule, Restore,
       schedule_restart_after_exit, schedule_or_give_up, Ignoring, StoreFails,
       schedule_restart, restore_restart_backoff, mark_runtime_unknown, dbVars,
       write_row, write_refreshed, SInv, Stage, ClosedInv
  <2>4. svc'[s] = svc[s]
    BY <1>s, <2>2, <2>3 DEF StoreTypeOK
  <2> QED BY <2>2, <2>4 DEF SInv, BackoffInv
<1> QED BY <1>s, <1>1, <1>2, OnlyDeadlines

-----------------------------------------------------------------------------
(* The handles *)

NoNewOwner == \A s \in Services : handle'[s] = "owned" => handle[s] = "owned"

\* What the steps do to the handles, other than taking a child over.
LEMMA KeepsOwners ==
    ASSUME WorldTypeOK,
           \/ UNCHANGED handle \/ UNCHANGED worldVars
           \/ \E u : let_go(u) \/ drained(u) \/ stop_owned_child(u)
           \/ \E u : quarantine(u) \/ quarantine_if_owned(u)
           \/ \E u : \E v \in {"fresh", "uncertain"} :
                 handle' = [handle EXCEPT ![u] = v]
           \/ process_ends \/ TickUncertain
    PROVE  NoNewOwner
BY DEF WorldTypeOK, NoNewOwner, worldVars, let_go, drained, stop_owned_child,
   quarantine, quarantine_if_owned, process_ends, TickUncertain

\* A child is taken over only once its start has been journalled.
LEMMA OnlyJournalled ==
    ASSUME Inv, Next
    PROVE  NoNewOwner \/ JournalChild
<1>w. WorldTypeOK
  BY DEF Inv
<1>1. CASE Supervise
  BY <1>1, <1>w, KeepsOwners DEF Supervise, TickChild, TickSchedule,
     TickDue, Due, RestartInvoke, Restore, Reschedule, DueUnknown
<1>2. CASE Prepare
  BY <1>2, <1>w, KeepsOwners DEF Prepare, Up, UpCheck, UpConverge,
     BeginCurrent, CandBegin, CandSvc, MarkLogsPrepared, MarkInstallInvoked,
     Install, MarkInstalled, MarkRootfsUnknown, MarkInstallFailed, Journal
<1>3. CASE Depend
  BY <1>3, <1>w, KeepsOwners DEF Depend, DepsDone, DepAbsent, DepValid,
     DepUnqualified, DepExitAmbiguous, DepExited, DepSchedule
<1>4. CASE StartOne
  BY <1>4, <1>w, KeepsOwners DEF StartOne, MarkStartInvoked, SpawnRefused,
     Qualify, QualifyExited, Finish, Spawn, Contain, QualifyFails, MarkRunning
<1>5. CASE AbortStart
  BY <1>5, <1>w, KeepsOwners DEF AbortStart, Abort, AbortOthers, Cleanup,
     CleanupExit, CleanupMark, Survivors, Finalize
<1>6. CASE Stop
  BY <1>6, <1>w, KeepsOwners DEF Stop, DownBegin, DownSvc, DownStop,
     DownStopped, DownFinish, DownQuarantine, DownFinal, Restart,
     RestartBegin, RestartStopInvoke, Journal, RestartStop, RestartStopped,
     ShutdownAbsent, ShutdownStop, ShutdownRecord, ShutdownEnd
<1>7. CASE Reconcile \/ Resume \/ Environment
  BY <1>7, <1>w, KeepsOwners DEF Reconcile, Resume, Environment, Boot,
     Accept, SigTerm, Crash, TracerExits, TreeEnds
<1> QED BY <1>1, <1>2, <1>3, <1>4, <1>5, <1>6, <1>7 DEF Next, DaemonStep

-----------------------------------------------------------------------------
(* Where the daemon goes *)

\* Positions at which Stage says something.
StagePC == StartPC \cup RestartPC \cup {"reschedule", "restore",
                                        "tick_schedule"}

\* Positions outside them.
LEMMA OffStage ==
    ASSUME d'.pc \notin StagePC
    PROVE  Stage'
<1>1. d'.pc \notin StartPC /\ d'.pc \notin BirthPC /\ d'.pc \notin IntentPC
  BY DEF StagePC, StartPC, BeforePC, PreparePC, IntentPC
<1>2. d'.pc \notin {"reschedule", "restore", "tick_schedule", "dep_schedule",
                    "deps", "restart_invoke"} \cup RestartPC
  BY DEF StagePC, StartPC, BeforePC
<1> QED BY <1>1, <1>2 DEF Stage, ClosedInv, IntentInv, JobInv

\* The positions outside, by name.
LEMMA OffStagePC ==
    {"dead", "reconcile", "resume", "idle", "tick", "tick_child", "tick_due",
     "due", "due_unknown", "up", "up_check", "cand_begin", "begin_current",
     "abort", "abort_others", "cleanup", "cleanup_exit", "cleanup_mark",
     "survivors", "finalize", "down_begin", "down_svc", "down_stop",
     "down_stopped", "down_quarantine", "down_final", "shutdown",
     "shutdown_record", "shutdown_end"} \cap StagePC = {}
BY DEF StagePC, StartPC, BeforePC, PreparePC, BirthPC, RestartPC

\* The daemon begins anew.
LEMMA AtStage ==
    ASSUME NEW p, p \notin StagePC, d' = at(p)
    PROVE  Stage'
BY AtFields, OffStage

\* A pass of shutdown.
LEMMA ShutdownPC ==
    ASSUME NEW again, begin_shutdown(again)
    PROVE  d'.pc = "shutdown"
<1>1. at("shutdown") \in Control /\ at("shutdown").pc = "shutdown"
  BY AtControl DEF PC
<1> QED BY <1>1 DEF begin_shutdown, Control

\* After the tick and between two scheduled restarts.
LEMMA NextDueStage ==
    ASSUME NEW c \in Control, d' = next_due(c)
    PROVE  Stage'
<1>1. \/ d' = at("idle") \/ d' = [c EXCEPT !.pc = "up"]
      \/ d' = [c EXCEPT !.pc = "down_begin"]
      \/ d' = [c EXCEPT !.pc = "restart"] /\ c.job = "restart"
      \/ d' = [c EXCEPT !.pc = "due"]
  BY DEF next_due, after_tick
<1>2. at("idle").pc = "idle"
  BY AtFields
<1>3. \/ d'.pc \in {"idle", "up", "down_begin", "due"}
      \/ d'.pc = "restart" /\ d'.job = "restart"
  BY <1>1, <1>2 DEF Control
<1>4. CASE d'.pc = "restart" /\ d'.job = "restart"
  BY <1>4 DEF Stage, ClosedInv, IntentInv, JobInv, StartPC, BeforePC,
     PreparePC, BirthPC, IntentPC
<1> QED BY <1>3, <1>4, OffStage, OffStagePC

\* A start fails.
LEMMA FailsStage ==
    ASSUME d \in Control, NEW c, c = d.cur, NEW e, d' = start_fails(d, e),
           d.ret = "due" /\ e = "prespawn" => ~Open(c)'
    PROVE  Stage'
<1>1. \/ d'.pc \in {"abort", "due_unknown"}
      \/ d.ret = "due" /\ e = "prespawn" /\ d'.pc = "restore" /\ d'.cur = c
  BY DEF start_fails, Control
<1>2. CASE d'.pc = "restore" /\ d'.cur = c /\ ~Open(c)'
  BY <1>2 DEF Stage, ClosedInv, IntentInv, JobInv, StartPC, BeforePC,
     PreparePC, BirthPC, IntentPC, RestartPC, Open
<1> QED BY <1>1, <1>2, OffStage, OffStagePC

\* A dependency check fails.
LEMMA DepsFailedStage ==
    ASSUME d \in Control, d' = deps_failed(d)
    PROVE  Stage'
<1>1. [d EXCEPT !.deps = << >>] \in Control
  BY EmptyType DEF Control
<1>2. \/ d'.pc = "abort" \/ d' = at("idle")
      \/ d' = next_due([d EXCEPT !.deps = << >>])
  BY DEF deps_failed, Control
<1> QED BY <1>1, <1>2, OffStage, OffStagePC, AtStage, NextDueStage

\* An operation takes up its next service.
LEMMA BeginStage ==
    ASSUME NEW c \in Control, NEW q \in Seq(Services),
           d' = start_next(c, q) \/ begin_starting(c, q),
           \A s \in ToSet(q) : Unstarted(s)'
    PROVE  Stage'
<1>1. CASE d'.pc = "abort"
  BY <1>1, OffStage, OffStagePC
<1>2. CASE q = << >> /\ d' = start_next(c, q)
  <2>1. d'.pc = "finish" /\ d'.todo = << >>
    BY <1>2 DEF start_next, Control
  <2> QED BY <2>1, SmallSets DEF Stage, ClosedInv, IntentInv, JobInv,
        BirthPC, IntentPC, RestartPC
<1>3. CASE q # << >> /\ d' = start_next(c, q)
  <2>1. d'.pc \in {"cand_svc", "deps"} /\ d'.cur = Head(q)
        /\ d'.todo = Tail(q) /\ d'.ret = "start"
    BY <1>3 DEF start_next, Control
  <2>2. Head(q) \in ToSet(q) /\ ToSet(Tail(q)) \subseteq ToSet(q)
    BY <1>3, TailSet
  <2>3. IntentInv'
    BY <2>1, <2>2 DEF IntentInv, Unstarted
  <2> QED BY <2>1, <2>3 DEF Stage, ClosedInv, JobInv, BirthPC, RestartPC
<1>4. d' = start_next(c, q) \/ d'.pc = "abort"
  <2>1. [start_next(c, q) EXCEPT !.pc = "abort", !.err = "store"].pc = "abort"
    BY DEF start_next, Control
  <2> QED BY <2>1 DEF begin_starting
<1> QED BY <1>1, <1>2, <1>3, <1>4

-----------------------------------------------------------------------------
(* The stages, step by step *)

\* tick: the owned child that exited is in no open operation, and a due
\* restart is invoked while its deadline is pending.
LEMMA SuperviseStage ==
    ASSUME SInv, Supervise
    PROVE  Stage'
<1>s. StoreTypeOK /\ WorldTypeOK /\ d \in Control /\ EInv
  BY DEF SInv, EInv, DInv, Inv, Sound
<1>p. PICK c, s \in Services :
         c = d.cur /\ (d.pc \in LoopPC => s = Head(d.todo))
  BY <1>s, Subjects
<1>n. ASSUME tick_next PROVE Stage'
  <2>1. d'.pc \in {"tick_due", "tick_child"}
    BY <1>s, <1>n DEF tick_next, Control
  <2> QED BY <2>1, OffStage, OffStagePC
<1>d. ASSUME d' = next_due(d) PROVE Stage'
  BY <1>s, <1>d, NextDueStage
<1>1. CASE TickUncertain
  <2>1. d'.pc = "tick_child"
    BY <1>s, <1>1 DEF TickUncertain, Control
  <2> QED BY <2>1, OffStage, OffStagePC
<1>2. CASE TickChild
  <2>0. s = Head(d.todo) /\ d.pc = "tick_child"
    BY <1>p, <1>2 DEF TickChild, LoopPC
  <2>1. CASE handle[s] = "owned" /\ record_exit(s) /\ goto("tick_schedule")
    <3>1. ~Open(s)
      BY <2>0, <2>1 DEF SInv, OwingInv, Owing, DownPC
    <3>2. ~Open(s)'
      BY <2>1, <3>1 DEF record_exit, Open, unfinished
    <3>3. d'.pc = "tick_schedule" /\ Head(d'.todo) = s
      BY <1>s, <2>0, <2>1 DEF goto, Control
    <3> QED BY <3>2, <3>3 DEF Stage, ClosedInv, IntentInv, JobInv, StartPC,
          BeforePC, PreparePC, BirthPC, IntentPC, RestartPC, Open
  <2> QED BY <1>n, <1>2, <2>0, <2>1 DEF TickChild
<1>3. CASE TickSchedule
  BY <1>n, <1>3 DEF TickSchedule
<1>4. CASE TickDue
  <2>1. ASSUME NEW D \in SUBSET Services
        PROVE  [d EXCEPT !.due = D] \in Control
    BY <1>s DEF Control
  <2>2. (\E D \in SUBSET Services : d' = next_due([d EXCEPT !.due = D]))
        \/ d' = at("idle")
    BY <1>4 DEF TickDue, return
  <2> QED BY <2>1, <2>2, NextDueStage, AtStage, OffStagePC
<1>5. CASE Due
  <2>1. PICK u \in d.due :
           \/ /\ due_restart(svc[u])
              /\ d' = [[d EXCEPT !.cur = u, !.due = d.due \ {u}]
                         EXCEPT !.pc = "deps", !.deps = DependsOn[u],
                                !.ret = "due"]
           \/ d' = next_due([d EXCEPT !.cur = u, !.due = d.due \ {u}])
    BY <1>5 DEF Due
  <2>2. u \in Services /\ [d EXCEPT !.cur = u, !.due = d.due \ {u}] \in Control
    BY <1>s DEF Control
  <2>3. CASE due_restart(svc[u]) /\ d'.pc = "deps" /\ d'.cur = u
             /\ d'.ret = "due"
    <3>1. proven_backoff(svc'[u])
      BY <1>5, <2>3 DEF Due, dbVars, due_restart
    <3> QED BY <2>3, <3>1 DEF Stage, ClosedInv, IntentInv, JobInv, BirthPC,
          RestartPC
  <2>4. \/ due_restart(svc[u]) /\ d'.pc = "deps" /\ d'.cur = u
             /\ d'.ret = "due"
        \/ d' = next_due([d EXCEPT !.cur = u, !.due = d.due \ {u}])
    BY <1>s, <2>1 DEF Control
  <2> QED BY <2>2, <2>3, <2>4, NextDueStage
<1>6. CASE RestartInvoke
  <2>0. d.ret = "due" /\ proven_backoff(svc[c])
    BY <1>p, <1>6 DEF RestartInvoke, SInv, EInv, Position, RetInv, Stage,
       IntentInv
  <2>1. CASE mark_restart_invoked(c) /\ goto("spawn")
    <3>1. d'.pc = "spawn" /\ d'.cur = c /\ d'.ret = "due"
      BY <1>s, <1>p, <2>0, <2>1 DEF goto, Control
    <3>2. ~Open(c)
      BY <2>0 DEF SInv, BackoffInv
    <3>3. ~Open(c)'
      BY <2>1, <3>2 DEF mark_restart_invoked, Open, unfinished
    <3> QED BY <3>1, <3>3 DEF Stage, ClosedInv, IntentInv, JobInv, IntentPC,
          RestartPC, Open
  <2> QED BY <1>d, <1>p, <1>6, <2>1 DEF RestartInvoke
<1>7. CASE Restore \/ Reschedule \/ DueUnknown
  BY <1>d, <1>7 DEF Restore, Reschedule, DueUnknown
<1> QED BY <1>1, <1>2, <1>3, <1>4, <1>5, <1>6, <1>7 DEF Supervise

\* The rows of the services to come are not changed by a step on another one.
LEMMA TodoUnstarted ==
    ASSUME SInv, d.pc \in StartPC, d.ret = "start",
           NEW c, c = d.cur,
           UNCHANGED oprow \/ \E o : oprow' = [oprow EXCEPT ![c] = o]
    PROVE  \A s \in ToSet(d.todo) : Unstarted(s)'
<1>1. c \notin ToSet(d.todo)
  BY DEF SInv, EInv, Position, StartingInv
<1>2. \A s \in ToSet(d.todo) : Unstarted(s) /\ s \in Services
  BY ToSetType DEF SInv, Stage, IntentInv, EInv, DInv, Inv, Sound, Control
<1>3. oprow \in [Services -> OpRow]
  BY DEF SInv, EInv, DInv, Inv, StoreTypeOK
<1>4. \A s \in ToSet(d.todo) : oprow'[s] = oprow[s]
  BY <1>1, <1>2, <1>3
<1> QED BY <1>2, <1>4 DEF Unstarted

\* The daemon goes on starting the same service.
LEMMA StayStage ==
    ASSUME SInv, d.pc \in StartPC, d.ret = "start",
           NEW c, c = d.cur,
           UNCHANGED oprow \/ \E o : oprow' = [oprow EXCEPT ![c] = o],
           d'.pc \in StartPC \ {"dep_schedule"}, d'.ret = "start",
           d'.cur = c, d'.todo = d.todo,
           d'.pc \in IntentPC => Unstarted(c)'
    PROVE  Stage'
<1>1. \A s \in ToSet(d'.todo) : Unstarted(s)'
  BY TodoUnstarted
<1>2. IntentInv'
  BY <1>1 DEF IntentInv, Unstarted
<1>3. ClosedInv' /\ JobInv'
  BY DEF ClosedInv, JobInv, StartPC, BeforePC, PreparePC, BirthPC, RestartPC
<1> QED BY <1>2, <1>3 DEF Stage

\* `up`: an operation begins with rows that say nothing was started, and
\* prepares its rootfs before it looks at the dependencies.
LEMMA PrepareStage ==
    ASSUME SInv, Prepare
    PROVE  Stage'
<1>s. StoreTypeOK /\ d \in Control /\ EInv
  BY DEF SInv, EInv, DInv, Inv, Sound
<1>c. PICK c \in Services : c = d.cur
  BY <1>s DEF Control
<1>r. oprow \in [Services -> OpRow] /\ oprow[c] \in OpRow
  BY <1>s DEF StoreTypeOK
<1>i. ASSUME return PROVE Stage'
  BY <1>i, AtStage, OffStagePC DEF return
<1>1. CASE Up
  <2>1. return \/ d'.pc \in {"up_check", "cand_begin"}
    BY <1>s, <1>1 DEF Up, goto, Control
  <2> QED BY <1>i, <2>1, OffStage, OffStagePC
<1>2. CASE UpCheck \/ UpConverge
  <2>1. \/ return \/ d'.pc \in {"up_check", "begin_current"}
        \/ d'.pc = "deps" /\ d'.ret = "up_check"
    BY <1>s, <1>2 DEF UpCheck, UpConverge, goto, Control
  <2>2. CASE d'.pc = "deps" /\ d'.ret = "up_check"
    BY <2>2 DEF Stage, ClosedInv, IntentInv, JobInv, BirthPC, RestartPC
  <2> QED BY <1>i, <2>1, <2>2, OffStage, OffStagePC
<1>3. CASE BeginCurrent
  <2>1. CASE /\ begin_start_current("up", ToSet(d.order))
             /\ begin_starting(d, d.order)
    <3>1. d.order \in Seq(Services)
      BY <1>s DEF Control
    <3>2. \A s \in ToSet(d.order) : oprow'[s].phase = "start_intent"
      BY <2>1, <3>1, ToSetType DEF begin_start_current
    <3>3. \A s \in ToSet(d.order) : Unstarted(s)'
      BY <3>2 DEF Unstarted, cold_class
    <3> QED BY <1>s, <2>1, <3>1, <3>3, BeginStage
  <2> QED BY <1>i, <1>3, <2>1 DEF BeginCurrent
<1>4. CASE CandBegin
  <2>1. CASE /\ \E m, reused : begin_candidate(m, reused)
             /\ d' = start_next([d EXCEPT !.order = Order], Order)
    <3>1. Order \in Seq(Services) /\ [d EXCEPT !.order = Order] \in Control
      BY <1>s, OrderAssumption DEF Control
    <3>2. \A s \in Services : oprow'[s].phase \in {"installed", "intent"}
      BY <2>1 DEF begin_candidate
    <3>3. \A s \in ToSet(Order) : Unstarted(s)'
      BY <3>1, <3>2, ToSetType DEF Unstarted, cold_class
    <3> QED BY <2>1, <3>1, <3>3, BeginStage
  <2> QED BY <1>i, <1>4, <2>1 DEF CandBegin, begin_candidate_recovery, begin_up
<1>5. CASE d.pc \in PreparePC
  <2>0. d.ret = "start" /\ d.pc \in StartPC
    BY <1>s, <1>5 DEF EInv, Position, RetInv, StartPC, BeforePC
  <2>f. ASSUME NEW e, d' = start_fails(d, e) PROVE Stage'
    BY <1>s, <1>c, <2>0, <2>f, FailsStage
  <2>g. ASSUME NEW p \in StartPC \ {"dep_schedule"}, goto(p),
               UNCHANGED oprow \/ \E o : oprow' = [oprow EXCEPT ![c] = o],
               p \in IntentPC => Unstarted(c)'
        PROVE  Stage'
    <3>1. d'.pc = p /\ d'.ret = "start" /\ d'.cur = c /\ d'.todo = d.todo
      BY <1>s, <1>c, <2>0, <2>g DEF goto, Control
    <3> QED BY <1>c, <2>0, <2>g, <3>1, StayStage
  <2>1. CASE CandSvc
    <3>1. Unstarted(c)
      BY <1>c, <2>0, <2>1 DEF CandSvc, SInv, Stage, IntentInv, IntentPC
    <3>2. Unstarted(c)' /\ UNCHANGED oprow
      BY <2>1, <3>1 DEF CandSvc, dbVars, Unstarted
    <3>3. {"deps", "logs"} \subseteq StartPC \ {"dep_schedule"}
      BY DEF StartPC, BeforePC, PreparePC
    <3> QED BY <2>1, <2>f, <2>g, <3>2, <3>3 DEF CandSvc
  <2>2. CASE MarkLogsPrepared \/ MarkInstallInvoked
    <3>1. {"install_invoke", "install"} \subseteq StartPC \ {"dep_schedule"}
          /\ {"install_invoke", "install"} \cap IntentPC = {}
      BY DEF StartPC, BeforePC, PreparePC, IntentPC
    <3>2. ASSUME NEW p, set_service_phase(c, p)
          PROVE  \E o : oprow' = [oprow EXCEPT ![c] = o]
      BY <3>2 DEF set_service_phase
    <3> QED BY <1>c, <2>2, <2>f, <2>g, <3>1, <3>2 DEF MarkLogsPrepared,
          MarkInstallInvoked, Journal
  <2>3. CASE Install
    <3>1. {"installed", "install_unknown"} \subseteq StartPC \ {"dep_schedule"}
          /\ {"installed", "install_unknown"} \cap IntentPC = {}
      BY DEF StartPC, BeforePC, PreparePC, IntentPC
    <3> QED BY <2>3, <2>g, <3>1 DEF Install, dbVars
  <2>4. CASE MarkInstalled
    <3>1. CASE mark_installed(c) /\ goto("deps")
      <4>1. \E o : oprow' = [oprow EXCEPT ![c] = o]
        BY <3>1 DEF mark_installed
      <4>2. oprow'[c].phase = "installed"
        BY <1>r, <3>1 DEF mark_installed, OpRow
      <4>3. Unstarted(c)'
        BY <4>2 DEF Unstarted, cold_class
      <4>4. "deps" \in StartPC \ {"dep_schedule"}
        BY DEF StartPC, BeforePC
      <4> QED BY <3>1, <2>g, <4>1, <4>3, <4>4
    <3> QED BY <1>c, <2>4, <2>f, <3>1 DEF MarkInstalled, Journal
  <2>5. CASE MarkRootfsUnknown
    <3>1. "install_failed" \in StartPC \ {"dep_schedule"}
          /\ "install_failed" \notin IntentPC
      BY DEF StartPC, BeforePC, PreparePC, IntentPC
    <3> QED BY <2>5, <2>f, <2>g, <3>1 DEF MarkRootfsUnknown, Journal,
          mark_rootfs_unknown
  <2>6. CASE MarkInstallFailed
    BY <2>6, <2>f DEF MarkInstallFailed
  <2>7. ~(Up \/ UpCheck \/ UpConverge \/ BeginCurrent \/ CandBegin)
    BY <1>5 DEF Up, UpCheck, UpConverge, BeginCurrent, CandBegin, PreparePC
  <2> QED BY <2>1, <2>2, <2>3, <2>4, <2>5, <2>6, <2>7 DEF Prepare
<1>6. \/ d.pc \in PreparePC \/ Up \/ UpCheck \/ UpConverge \/ BeginCurrent
      \/ CandBegin
  BY DEF Prepare, CandSvc, MarkLogsPrepared, MarkInstallInvoked, Install,
     MarkInstalled, MarkRootfsUnknown, MarkInstallFailed, Journal, PreparePC
<1> QED BY <1>1, <1>2, <1>3, <1>4, <1>5, <1>6

\* The dependency check: the dependency that exited is in no open operation.
LEMMA DependStage ==
    ASSUME SInv, Depend
    PROVE  Stage'
<1>s. StoreTypeOK /\ d \in Control /\ EInv
  BY DEF SInv, EInv, DInv, Inv, Sound
<1>c. PICK c, t \in Services :
         /\ c = d.cur
         /\ d.deps # << >> \/ d.pc = "dep_schedule" => t = Head(d.deps)
  BY <1>s, Subjects
<1>f. ASSUME d' = deps_failed(d) PROVE Stage'
  BY <1>s, <1>f, DepsFailedStage
<1>p. d.pc \in {"deps", "dep_schedule"} /\ d.pc \in StartPC
  BY DEF Depend, DepsDone, DepAbsent, DepValid, DepUnqualified,
     DepExitAmbiguous, DepExited, DepSchedule, StartPC, BeforePC
<1>u. d.ret = "start" => Unstarted(c)
  BY <1>c, <1>p DEF SInv, Stage, IntentInv, IntentPC
<1>j. d.ret = "pre_restart" => d.job = "restart"
  BY <1>p DEF SInv, Stage, JobInv
<1>b. d.pc = "deps" /\ d.ret = "due" => proven_backoff(svc[c])
  BY <1>c DEF SInv, Stage, IntentInv
<1>r. d.ret \in {"start", "up_check", "pre_restart", "due"}
  BY <1>s DEF Control
<1>t. UNCHANGED oprow /\ d.ret = "start" =>
         \A s \in ToSet(d.todo) : Unstarted(s)'
  BY <1>p, TodoUnstarted
<1>1. CASE DepsDone
  <2>1. UNCHANGED <<oprow, svc>> /\ d' = deps_done(d) /\ d.pc = "deps"
    BY <1>1 DEF DepsDone, dbVars
  <2>2. CASE d.ret = "start"
    <3>1. d'.pc = "start_invoke" /\ d'.ret = "start" /\ d'.cur = c
          /\ d'.todo = d.todo
      BY <1>s, <1>c, <2>1, <2>2 DEF deps_done, Control
    <3>2. Unstarted(c)'
      BY <1>u, <2>1, <2>2 DEF Unstarted
    <3>3. "start_invoke" \in StartPC \ {"dep_schedule"}
      BY DEF StartPC, BeforePC
    <3> QED BY <1>c, <1>p, <2>1, <2>2, <3>1, <3>2, <3>3, StayStage
  <2>3. CASE d.ret = "due"
    <3>1. d'.pc = "restart_invoke" /\ d'.ret = "due" /\ d'.cur = c
      BY <1>s, <1>c, <2>1, <2>3 DEF deps_done, Control
    <3>2. proven_backoff(svc'[c])
      BY <1>b, <2>1, <2>3
    <3> QED BY <3>1, <3>2 DEF Stage, ClosedInv, IntentInv, JobInv, BirthPC,
          IntentPC, RestartPC
  <2>4. CASE d.ret = "pre_restart"
    <3>1. d'.pc = "restart_begin" /\ d'.job = "restart"
          /\ d'.ret = "pre_restart"
      BY <1>s, <1>j, <2>1, <2>4 DEF deps_done, Control
    <3> QED BY <3>1 DEF Stage, ClosedInv, IntentInv, JobInv, StartPC,
          BeforePC, PreparePC, BirthPC, IntentPC
  <2>5. CASE d.ret = "up_check"
    <3>1. d'.pc = "up_check"
      BY <1>s, <2>1, <2>5 DEF deps_done, Control
    <3> QED BY <3>1, OffStage, OffStagePC
  <2> QED BY <1>r, <2>2, <2>3, <2>4, <2>5
<1>2. CASE DepValid
  <2>1. d'.pc = "deps" /\ d'.ret = d.ret /\ d'.cur = c /\ d'.todo = d.todo
        /\ d'.job = d.job /\ d.pc = "deps"
    BY <1>s, <1>c, <1>2 DEF DepValid, Control
  <2>2. UNCHANGED <<oprow, svc>>
    BY <1>2 DEF DepValid, dbVars
  <2>3. IntentInv'
    BY <1>u, <1>b, <1>t, <2>1, <2>2 DEF IntentInv, Unstarted
  <2> QED BY <1>j, <2>1, <2>3 DEF Stage, ClosedInv, JobInv, BirthPC, RestartPC
<1>3. CASE DepExited
  <2>0. t = Head(d.deps) /\ handle[t] = "owned" /\ d.pc = "deps"
    BY <1>c, <1>3 DEF DepExited
  <2>1. CASE record_exit(t) /\ goto("dep_schedule")
    <3>1. ~Open(t)
      BY <2>0 DEF SInv, OwingInv, Owing, DownPC
    <3>2. ~Open(t)' /\ UNCHANGED oprow
      BY <2>1, <3>1 DEF record_exit, Open, unfinished
    <3>3. d'.pc = "dep_schedule" /\ d'.ret = d.ret /\ d'.cur = c
          /\ d'.todo = d.todo /\ d'.job = d.job /\ Head(d'.deps) = t
      BY <1>s, <1>c, <2>0, <2>1 DEF goto, Control
    <3>4. IntentInv'
      BY <1>u, <1>t, <3>2, <3>3 DEF IntentInv, Unstarted
    <3>5. ClosedInv'
      BY <3>2, <3>3 DEF ClosedInv, BirthPC, Open
    <3> QED BY <1>j, <3>3, <3>4, <3>5 DEF Stage, JobInv, RestartPC
  <2> QED BY <1>f, <1>3, <2>0, <2>1 DEF DepExited
<1>4. CASE DepAbsent \/ DepUnqualified \/ DepExitAmbiguous \/ DepSchedule
  BY <1>f, <1>4 DEF DepAbsent, DepUnqualified, DepExitAmbiguous, DepSchedule
<1> QED BY <1>1, <1>2, <1>3, <1>4 DEF Depend

\* The start of one service: a scheduled restart keeps clear of operations
\* from its intent to its result.
LEMMA StartOneStage ==
    ASSUME SInv, StartOne
    PROVE  Stage'
<1>s. StoreTypeOK /\ d \in Control /\ EInv
  BY DEF SInv, EInv, DInv, Inv, Sound
<1>c. PICK c \in Services : c = d.cur
  BY <1>s DEF Control
<1>o. d.pc \in BirthPC /\ d.ret = "due" => ~Open(c)
  BY <1>c DEF SInv, Stage, ClosedInv
<1>b. d.pc \in BirthPC => d.ret \in {"start", "due"} /\ d.pc \in StartPC
  BY <1>s DEF EInv, Position, RetInv, StartPC
<1>f. ASSUME NEW e, d' = start_fails(d, e), e # "prespawn" PROVE Stage'
  BY <1>s, <1>c, <1>f, FailsStage
<1>g. ASSUME NEW p \in BirthPC, goto(p), d.pc \in BirthPC,
             \/ UNCHANGED <<op, oprow>>
             \/ d.ret = "start" /\ \E o : oprow' = [oprow EXCEPT ![c] = o]
      PROVE  Stage'
  <2>1. d'.pc = p /\ d'.ret = d.ret /\ d'.cur = c /\ d'.todo = d.todo
    BY <1>s, <1>c, <1>g DEF goto, Control
  <2>2. CASE d.ret = "start"
    <3>1. p \in StartPC \ {"dep_schedule"} /\ p \notin IntentPC
      BY <1>g DEF StartPC, BirthPC, IntentPC
    <3> QED BY <1>b, <1>c, <1>g, <2>1, <2>2, <3>1, StayStage
  <2>3. CASE d.ret = "due"
    <3>1. ~Open(c)'
      BY <1>o, <1>g, <2>3 DEF Open, unfinished
    <3>2. p \notin {"reschedule", "restore", "tick_schedule", "dep_schedule",
                    "deps", "restart_invoke"} \cup RestartPC \cup IntentPC
      BY <1>g DEF BirthPC, RestartPC, IntentPC
    <3> QED BY <2>1, <2>3, <3>1, <3>2 DEF Stage, ClosedInv, IntentInv, JobInv,
          Open
  <2> QED BY <1>b, <1>g, <2>2, <2>3
<1>1. CASE MarkStartInvoked
  <2>0. d.ret = "start" /\ d.pc \in StartPC
    BY <1>s, <1>1 DEF MarkStartInvoked, EInv, Position, RetInv, StartPC,
       BeforePC
  <2>1. CASE set_service_phase(c, "start_invoked") /\ goto("spawn")
    <3>1. d'.pc = "spawn" /\ d'.ret = "start" /\ d'.cur = c
          /\ d'.todo = d.todo
      BY <1>s, <1>c, <2>0, <2>1 DEF goto, Control
    <3>2. "spawn" \in StartPC \ {"dep_schedule"} /\ "spawn" \notin IntentPC
      BY DEF StartPC, BeforePC, IntentPC
    <3>3. \E o : oprow' = [oprow EXCEPT ![c] = o]
      BY <2>1 DEF set_service_phase
    <3> QED BY <1>c, <2>0, <3>1, <3>2, <3>3, StayStage
  <2> QED BY <1>c, <1>f, <1>1, <2>1 DEF MarkStartInvoked
<1>2. CASE Spawn
  BY <1>2, <1>g DEF Spawn, dbVars, BirthPC
<1>3. CASE SpawnRefused
  <2>1. ~Open(c)' \/ d.ret # "due"
    BY <1>3, <1>o DEF SpawnRefused, BirthPC, dbVars, Open, unfinished
  <2>2. \E e : d' = start_fails(d, e)
    BY <1>3 DEF SpawnRefused
  <2> QED BY <1>s, <1>c, <2>1, <2>2, FailsStage
<1>4. CASE JournalChild
  <2>1. {"qualify", "contain"} \subseteq BirthPC /\ d.pc \in BirthPC
    BY <1>4 DEF BirthPC, JournalChild
  <2>2. \/ UNCHANGED <<op, oprow>>
        \/ d.ret # "due" /\ \E o : oprow' = [oprow EXCEPT ![c] = o]
    BY <1>c, <1>4 DEF JournalChild, mark_restart_starting, mark_starting, dbVars
  <2> QED BY <1>4, <1>b, <1>g, <2>1, <2>2 DEF JournalChild
<1>5. CASE Contain \/ QualifyFails
  BY <1>5, <1>f DEF Contain, QualifyFails
<1>6. CASE Qualify
  BY <1>6, <1>g DEF Qualify, dbVars, BirthPC
<1>7. CASE QualifyExited
  <2>1. CASE /\ d.ret = "due" /\ record_exit(c)
             /\ d' = [d EXCEPT !.pc = "reschedule"]
    <3>1. ~Open(c)'
      BY <1>o, <1>7, <2>1 DEF QualifyExited, BirthPC, record_exit, Open,
         unfinished
    <3>2. d'.pc = "reschedule" /\ d'.cur = c
      BY <1>s, <1>c, <2>1 DEF Control
    <3> QED BY <3>1, <3>2 DEF Stage, ClosedInv, IntentInv, JobInv, StartPC,
          BeforePC, PreparePC, BirthPC, IntentPC, RestartPC, Open
  <2>2. CASE d' = next_due(d)
    BY <1>s, <2>2, NextDueStage
  <2> QED BY <1>c, <1>f, <1>7, <2>1, <2>2 DEF QualifyExited
<1>8. CASE MarkRunning
  <2>1. CASE d' = next_due(d)
    BY <1>s, <2>1, NextDueStage
  <2>2. CASE /\ d.ret # "due" /\ mark_running(c)
             /\ d' = start_next([d EXCEPT !.started = Append(d.started, c)],
                                d.todo)
    <3>1. d.ret = "start" /\ d.pc \in StartPC
      BY <1>b, <1>8, <2>2 DEF MarkRunning, BirthPC
    <3>2. \E o : oprow' = [oprow EXCEPT ![c] = o]
      BY <2>2 DEF mark_running
    <3>3. \A s \in ToSet(d.todo) : Unstarted(s)'
      BY <1>c, <3>1, <3>2, TodoUnstarted
    <3>4. [d EXCEPT !.started = Append(d.started, c)] \in Control
          /\ d.todo \in Seq(Services)
      BY <1>s, AppendSet DEF Control
    <3> QED BY <2>2, <3>3, <3>4, BeginStage
  <2> QED BY <1>c, <1>f, <1>8, <2>1, <2>2 DEF MarkRunning
<1>9. CASE Finish
  BY <1>9, <1>f, AtStage, OffStagePC DEF Finish, return
<1> QED BY <1>1, <1>2, <1>3, <1>4, <1>5, <1>6, <1>7, <1>8, <1>9 DEF StartOne

\* An abort leads back to the serve loop or to the end.
LEMMA AbortStage ==
    ASSUME SInv, AbortStart
    PROVE  Stage'
<1>s. d \in Control
  BY DEF SInv, EInv, DInv, Inv, Sound
<1>1. ASSUME NEW q PROVE /\ d' = cleanup_next(d, q) => Stage'
                         /\ d' = survivors_next(d, q) => Stage'
                         /\ d' = abort_others_next(d, q) => Stage'
  <2>1. /\ cleanup_next(d, q).pc \in {"finalize", "cleanup"}
        /\ cleanup_next(d, Reverse(d.started)).pc \in {"finalize", "cleanup"}
        /\ survivors_next(d, q).pc \in {"finalize", "survivors"}
    BY <1>s DEF cleanup_next, survivors_next, Control
  <2>2. abort_others_next(d, q).pc \in {"finalize", "cleanup", "abort_others"}
    BY <1>s, <2>1 DEF abort_others_next, Control
  <2> QED BY <2>1, <2>2, OffStage, OffStagePC
<1>2. ASSUME NEW p \in {"cleanup_exit", "cleanup_mark"}, d'.pc = p PROVE Stage'
  BY <1>2, OffStage, OffStagePC
<1>3. CASE Abort \/ AbortOthers \/ CleanupExit \/ CleanupMark \/ Survivors
  BY <1>1, <1>3 DEF Abort, AbortOthers, CleanupExit, CleanupMark, Survivors
<1>4. CASE Cleanup
  <2>1. d'.pc \in {"cleanup_exit", "cleanup_mark"}
    BY <1>s, <1>4 DEF Cleanup, goto, Control
  <2> QED BY <1>2, <2>1
<1>5. CASE Finalize
  <2>1. (\E again : begin_shutdown(again)) => d'.pc = "shutdown"
    BY ShutdownPC
  <2>2. d' = at("idle") \/ d' = at("dead") \/ \E again : begin_shutdown(again)
    BY <1>5 DEF Finalize, return
  <2> QED BY <2>1, <2>2, AtStage, OffStage, OffStagePC
<1> QED BY <1>3, <1>4, <1>5 DEF AbortStart

\* down, restart and shutdown: a restart that stopped its service starts it
\* again from a row that says so.
LEMMA StopStage ==
    ASSUME TrustedEngine, SInv, Stop
    PROVE  Stage'
<1>s. StoreTypeOK /\ d \in Control /\ EInv
  BY DEF SInv, EInv, DInv, Inv, Sound
<1>c. PICK c \in Services : c = d.cur
  BY <1>s DEF Control
<1>i. ASSUME return PROVE Stage'
  BY <1>i, AtStage, OffStagePC DEF return
<1>f. ASSUME NEW e, d' = start_fails(d, e), e # "prespawn" PROVE Stage'
  BY <1>s, <1>c, <1>f, FailsStage
<1>g. ASSUME NEW p \in {"restart_stop_invoke", "restart_stop",
                        "restart_stopped"}, goto(p),
             d.pc \in RestartPC \ {"restart"}
      PROVE  Stage'
  <2>1. d'.pc = p /\ d'.job = "restart" /\ d'.ret = "pre_restart"
    BY <1>s, <1>g DEF goto, Control, SInv, Stage, JobInv
  <2> QED BY <2>1 DEF Stage, ClosedInv, IntentInv, JobInv, StartPC, BeforePC,
        PreparePC, BirthPC, IntentPC
<1>1. CASE \/ DownBegin \/ DownSvc \/ DownStop \/ DownStopped \/ DownFinish
           \/ DownFinal
  <2>1. return \/ d'.pc \in DownPC
    BY <1>s, <1>1 DEF DownBegin, DownSvc, DownStop, DownStopped, DownFinish,
       DownFinal, goto, Control, DownPC
  <2> QED BY <1>i, <2>1, OffStage, OffStagePC DEF DownPC
<1>2. CASE DownQuarantine
  <2>1. d'.pc \in {"down_quarantine", "down_final"}
    BY <1>s, <1>2 DEF DownQuarantine, goto, Control
  <2> QED BY <2>1, OffStage, OffStagePC
<1>3. CASE Restart
  <2>1. d.job = "restart"
    BY <1>3 DEF Restart, SInv, Stage, JobInv, RestartPC
  <2>2. \/ d' = at("idle")
        \/ d'.pc = "deps" /\ d'.ret = "pre_restart" /\ d'.job = "restart"
    BY <1>s, <1>3, <2>1 DEF Restart, Control
  <2>3. CASE d'.pc = "deps" /\ d'.ret = "pre_restart" /\ d'.job = "restart"
    BY <2>3 DEF Stage, ClosedInv, IntentInv, JobInv, BirthPC, RestartPC
  <2> QED BY <2>2, <2>3, AtStage, OffStagePC
<1>4. CASE RestartBegin \/ RestartStopInvoke
  BY <1>i, <1>f, <1>g, <1>4 DEF RestartBegin, RestartStopInvoke, Journal,
     RestartPC
<1>5. CASE RestartStop
  <2>1. \A e \in stop_errors(c) : e # "prespawn"
    BY StopErrors DEF ambiguous
  <2> QED BY <1>c, <1>f, <1>g, <1>5, <2>1 DEF RestartStop, RestartPC
<1>6. CASE RestartStopped
  <2>1. CASE mark_restart_stopped(c) /\ begin_starting(d, <<c>>)
    <3>1. oprow \in [Services -> OpRow] /\ oprow[c] \in OpRow
      BY <1>s DEF StoreTypeOK
    <3>2. oprow'[c].phase = "shutdown_proven"
      BY <2>1, <3>1 DEF mark_restart_stopped, OpRow
    <3>3. Unstarted(c)'
      BY <3>2 DEF Unstarted, cold_class
    <3>4. \A s \in ToSet(<<c>>) : Unstarted(s)'
      BY <3>3, SmallSets DEF Unstarted
    <3>5. <<c>> \in Seq(Services)
      OBVIOUS
    <3> QED BY <1>s, <2>1, <3>4, <3>5, BeginStage
  <2> QED BY <1>c, <1>f, <1>6, <2>1 DEF RestartStopped
<1>7. CASE ShutdownAbsent \/ ShutdownStop \/ ShutdownRecord
  <2>1. d'.pc \in {"shutdown", "shutdown_record", "shutdown_end"}
    BY <1>s, <1>7 DEF ShutdownAbsent, ShutdownStop, ShutdownRecord,
       shutdown_next, goto, Control
  <2> QED BY <2>1, OffStage, OffStagePC
<1>8. CASE ShutdownEnd
  BY <1>8, ShutdownPC, AtStage, OffStage, OffStagePC DEF ShutdownEnd,
     process_ends
<1> QED BY <1>1, <1>2, <1>3, <1>4, <1>5, <1>6, <1>7, <1>8 DEF Stop

\* The life of the daemon, and the world outside.
LEMMA LifeStage ==
    ASSUME SInv, Reconcile \/ Resume \/ Environment
    PROVE  Stage'
<1>s. StoreTypeOK /\ d \in Control
  BY DEF SInv, EInv, DInv, Inv, Sound
<1>1. CASE Reconcile
  <2>1. d'.pc = "resume" \/ d' = at("dead")
    BY <1>s, <1>1 DEF Reconcile, goto, Control
  <2> QED BY <2>1, OffStage, OffStagePC, AtStage
<1>2. CASE Resume
  <2>1. CASE /\ begin_start_current("resume", Services)
             /\ begin_starting([d EXCEPT !.job = "resume", !.order = Order],
                               Order)
    <3>1. [d EXCEPT !.job = "resume", !.order = Order] \in Control
          /\ Order \in Seq(Services)
      BY <1>s, OrderAssumption DEF Control, Job
    <3>2. \A s \in Services : oprow'[s].phase = "start_intent"
      BY <2>1 DEF begin_start_current
    <3>3. \A s \in ToSet(Order) : Unstarted(s)'
      BY <3>1, <3>2, ToSetType DEF Unstarted, cold_class
    <3> QED BY <2>1, <3>1, <3>3, BeginStage
  <2> QED BY <1>2, <2>1, AtStage, OffStagePC DEF Resume, return
<1>3. CASE Boot \/ Crash
  BY <1>3, AtStage, OffStagePC DEF Boot, Crash, process_ends
<1>4. CASE Accept
  <2>1. at("tick") \in Control /\ at("tick").pc = "tick"
    BY AtControl DEF PC
  <2>2. d'.pc = "tick"
    BY <1>4, <2>1 DEF Accept, Control
  <2> QED BY <2>2, OffStage, OffStagePC
<1>5. CASE SigTerm
  BY <1>5, ShutdownPC, AtStage, OffStage, OffStagePC DEF SigTerm, process_ends
<1>6. CASE \E s \in Services : TracerExits(s) \/ TreeEnds(s)
  <2>1. UNCHANGED <<svc, op, oprow, d>>
    BY <1>6 DEF TracerExits, TreeEnds, dbVars
  <2>2. ClosedInv' /\ IntentInv' /\ JobInv'
    BY <2>1 DEF SInv, Stage, ClosedInv, IntentInv, JobInv, Open, Unstarted,
       unfinished
  <2> QED BY <2>2 DEF Stage
<1> QED BY <1>1, <1>2, <1>3, <1>4, <1>5, <1>6 DEF Environment

-----------------------------------------------------------------------------
(* No operation is left open on an owned service *)

\* A service comes to owe an outcome only when an operation begins or a
\* child is taken over.
LEMMA StillOwing ==
    ASSUME NoneOpened, NoNewOwner, NEW s \in Services, Owing(s)'
    PROVE  Owing(s)
BY DEF NoneOpened, NoNewOwner, Owing, Open

\* Elsewhere there is nothing to keep.
LEMMA QuietOwing ==
    ASSUME SInv, NoneOpened, NoNewOwner, d.pc \notin OwingPC
    PROVE  OwingInv'
<1> SUFFICES ASSUME NEW s \in Services, Owing(s)' PROVE FALSE
  BY DEF OwingInv, Owing, Open
<1>1. Owing(s)
  BY StillOwing
<1> QED BY <1>1 DEF SInv, OwingInv, OwingPC

\* An operation begins: with services that have no child, with the service
\* that a restart is about to stop, or with all services of a down.
LEMMA BeginOwing ==
    ASSUME SInv, BeginStep, Begins
    PROVE  OwingInv'
<1>s. StoreTypeOK /\ WorldTypeOK /\ d \in Control /\ EInv /\ JournalInv
  BY DEF SInv, EInv, DInv, Inv, Sound
<1>h. UNCHANGED handle
  BY DEF BeginStep, Resume, BeginCurrent, CandBegin, DownBegin, RestartBegin,
     worldVars
<1>q. ASSUME UNCHANGED dbVars PROVE OwingInv'
  <2>1. NoneOpened
    BY <1>q DEF NoneOpened, Open, unfinished, dbVars
  <2>2. NoNewOwner
    BY <1>h DEF NoNewOwner
  <2>3. d.pc \notin OwingPC
    BY DEF BeginStep, Resume, BeginCurrent, CandBegin, DownBegin,
       RestartBegin, OwingPC, DownPC
  <2> QED BY <2>1, <2>2, <2>3, QuietOwing
<1>a. ASSUME \A s \in Services : Open(s)' => ~Busy(s) PROVE OwingInv'
  <2>1. \A s \in Services : ~Owing(s)'
    BY <1>h, <1>a DEF Owing, Open, Busy
  <2> QED BY <2>1 DEF OwingInv, Owing, Open
<1>n. ASSUME NEW kind, NEW names, begin_start_current(kind, names),
             begin_start_current_ok,
             \A s \in names : svc[s].observed \in {"stopped", "failed"}
      PROVE  OwingInv'
  <2>1. \A s \in Services : Open(s)' => s \in names
    BY <1>n DEF begin_start_current, Open, NoRow
  <2>2. \A s \in Services : s \in names => ~Busy(s)
    BY <1>s, <1>n, AbsentRow DEF begin_start_current_ok
  <2> QED BY <1>a, <2>1, <2>2
<1>1. CASE Resume
  <2>1. CASE /\ \A s \in Services : resumable(svc[s])
             /\ begin_start_current_ok
             /\ begin_start_current("resume", Services)
    BY <1>n, <2>1 DEF resumable
  <2> QED BY <1>q, <1>1, <2>1 DEF Resume, StoreFails
<1>2. CASE BeginCurrent
  <2>1. CASE begin_start_current_ok /\ begin_start_current("up", ToSet(d.order))
    <3>1. \A s \in ToSet(d.order) : svc[s].observed \in {"stopped", "failed"}
      BY <1>s, <1>2 DEF BeginCurrent, EInv, Position, ConvergeInv
    <3> QED BY <1>n, <2>1, <3>1
  <2> QED BY <1>q, <1>2, <2>1 DEF BeginCurrent, StoreFails
<1>3. CASE CandBegin
  <2>1. CASE begin_candidate_recovery_ok(d.def) \/ begin_up_ok(d.def)
    BY <1>s, <1>a, <2>1, CandidateAbsent
  <2> QED BY <1>q, <1>3, <2>1 DEF CandBegin, StoreFails
<1>4. CASE DownBegin
  <2>1. CASE d'.pc \in DownPC
    BY <2>1 DEF OwingInv
  <2>2. d'.pc \in DownPC \/ UNCHANGED dbVars
    BY <1>s, <1>4 DEF DownBegin, StoreFails, goto, Control, DownPC
  <2> QED BY <1>q, <2>1, <2>2
<1>5. CASE RestartBegin
  <2>1. CASE begin_restart(d.cur) /\ goto("restart_stop_invoke")
    <3>1. \A s \in Services : Open(s)' => s = d.cur
      BY <2>1 DEF begin_restart, Open, NoRow
    <3>2. d'.pc = "restart_stop_invoke" /\ d'.cur = d.cur
      BY <1>s, <2>1 DEF goto, Control
    <3>3. \A s \in Services : Owing(s)' => s = d'.cur
      BY <3>1, <3>2 DEF Owing, Open
    <3> QED BY <3>2, <3>3 DEF OwingInv
  <2> QED BY <1>q, <1>5, <2>1 DEF RestartBegin, StoreFails
<1> QED BY <1>1, <1>2, <1>3, <1>4, <1>5 DEF BeginStep

\* The steps from the positions where an outcome may be owed.
LEMMA OwingSteps ==
    ASSUME Next, d.pc \in OwingPC
    PROVE  \/ Qualify \/ QualifyFails \/ QualifyExited \/ MarkRunning
           \/ RestartStopInvoke \/ RestartStop \/ Abort \/ Cleanup
           \/ Survivors
           \/ DownSvc \/ DownStop \/ DownStopped \/ DownFinish
           \/ DownQuarantine
           \/ Crash \/ \E s \in Services : TracerExits(s) \/ TreeEnds(s)
<1> USE DEF OwingPC, DownPC
<1>1. ~Supervise
  BY DEF Supervise, TickUncertain, TickChild, TickSchedule, TickDue, Due,
     RestartInvoke, Restore, Reschedule, DueUnknown
<1>2. ~Prepare
  BY DEF Prepare, Up, UpCheck, UpConverge, BeginCurrent, CandBegin, CandSvc,
     MarkLogsPrepared, MarkInstallInvoked, Install, MarkInstalled,
     MarkRootfsUnknown, MarkInstallFailed, Journal
<1>3. ~Depend
  BY DEF Depend, DepsDone, DepAbsent, DepValid, DepUnqualified,
     DepExitAmbiguous, DepExited, DepSchedule
<1>4. ~(MarkStartInvoked \/ Spawn \/ SpawnRefused \/ JournalChild \/ Contain
        \/ Finish)
  BY DEF MarkStartInvoked, Spawn, SpawnRefused, JournalChild, Contain, Finish
<1>5. ~(AbortOthers \/ CleanupExit \/ CleanupMark \/ Finalize)
  BY DEF AbortOthers, CleanupExit, CleanupMark, Finalize
<1>6. ~(DownBegin \/ DownFinal \/ Restart \/ RestartBegin \/ RestartStopped
        \/ ShutdownAbsent \/ ShutdownStop \/ ShutdownRecord \/ ShutdownEnd)
  BY DEF DownBegin, DownFinal, Restart, RestartBegin, RestartStopped,
     ShutdownAbsent, ShutdownStop, ShutdownRecord, ShutdownEnd
<1>7. ~(Reconcile \/ Resume \/ Boot \/ Accept \/ SigTerm)
  BY DEF Reconcile, Resume, Boot, Accept, SigTerm
<1> QED BY <1>1, <1>2, <1>3, <1>4, <1>5, <1>6, <1>7 DEF Next, DaemonStep,
      StartOne, AbortStart, Stop, Environment

\* An owed outcome stays with the operation until it is given, until the
\* child is let go of, or until the operation ends.
LEMMA KeepsOwing ==
    ASSUME SInv, Next, d.pc \in OwingPC, NoneOpened, NoNewOwner
    PROVE  OwingInv'
<1>s. StoreTypeOK /\ WorldTypeOK /\ d \in Control
  BY DEF SInv, EInv, DInv, Inv, Sound
<1>w. handle \in [Services -> Handle]
  BY <1>s DEF WorldTypeOK
<1>c. PICK c \in Services : c = d.cur
  BY <1>s DEF Control
<1> SUFFICES ASSUME NEW s \in Services, Owing(s)'
             PROVE  \/ d'.pc \in DownPC
                    \/ /\ s = d'.cur
                       /\ \/ d'.pc \in {"qualify", "mark_running"}
                             /\ d'.ret = "start"
                          \/ d'.pc \in {"restart_stop_invoke", "restart_stop"}
                          \/ d'.pc = "abort" /\ d'.job = "restart"
                          \/ d'.pc \in {"cleanup", "survivors"}
                             /\ d'.todo = <<s>>
  BY DEF OwingInv, Owing, Open
<1>o. Owing(s)
  BY StillOwing
<1>h. handle'[s] = "owned"
  BY DEF Owing
<1>i. \/ d.pc \in DownPC
      \/ /\ s = c
         /\ \/ d.pc \in {"qualify", "mark_running"} /\ d.ret = "start"
            \/ d.pc \in {"restart_stop_invoke", "restart_stop"}
            \/ d.pc = "abort" /\ d.job = "restart"
            \/ d.pc \in {"cleanup", "survivors"} /\ d.todo = <<s>>
  BY <1>o, <1>c DEF SInv, OwingInv
<1>1. CASE Qualify
  BY <1>s, <1>c, <1>i, <1>1 DEF Qualify, goto, Control, DownPC
<1>2. CASE QualifyFails \/ QualifyExited
  <2>1. s = c
    BY <1>2, <1>i DEF QualifyFails, QualifyExited, DownPC
  <2>2. handle'[c] # "owned"
    BY <1>w, <1>c, <1>2 DEF QualifyFails, QualifyExited, quarantine, let_go
  <2> QED BY <1>h, <2>1, <2>2
<1>3. CASE MarkRunning
  <2>1. s = c /\ d.ret = "start"
    BY <1>3, <1>i DEF MarkRunning, DownPC
  <2>2. CASE mark_running(c)
    <3>1. oprow'[c].outcome = "success"
      BY <1>s, <2>2 DEF mark_running, StoreTypeOK, OpRow
    <3> QED BY <2>1, <3>1 DEF Owing, Open
  <2>3. CASE quarantine(c)
    BY <1>w, <1>h, <2>1, <2>3 DEF quarantine
  <2> QED BY <1>3, <1>c, <2>1, <2>2, <2>3 DEF MarkRunning
<1>4. CASE RestartStopInvoke \/ RestartStop
  <2>1. s = c /\ d.pc \in {"restart_stop_invoke", "restart_stop"}
    BY <1>4, <1>i DEF RestartStopInvoke, RestartStop, Journal, DownPC
  <2>2. d.job = "restart" /\ d.ret = "pre_restart"
    BY <2>1 DEF SInv, Stage, JobInv, RestartPC
  <2>3. CASE \E e : d' = start_fails(d, e)
    <3>1. d'.pc = "abort" /\ d'.job = "restart" /\ d'.cur = c
      BY <1>s, <1>c, <2>2, <2>3 DEF start_fails, Control
    <3> QED BY <2>1, <3>1
  <2>4. CASE goto("restart_stop")
    BY <1>s, <1>c, <2>1, <2>4 DEF goto, Control
  <2>5. CASE stop_owned_child(c)
    BY <1>w, <1>h, <2>1, <2>5 DEF stop_owned_child, drained
  <2> QED BY <1>c, <1>4, <2>3, <2>4, <2>5 DEF RestartStopInvoke, RestartStop,
        Journal
<1>5. CASE Abort
  <2>1. s = c /\ d.job = "restart" /\ handle[c] = "owned"
    BY <1>5, <1>i, <1>o DEF Abort, DownPC, Owing
  <2>2. d' = cleanup_next(d, <<c>>) \/ d' = survivors_next(d, <<c>>)
    BY <1>5, <1>c, <2>1 DEF Abort
  <2>3. d'.pc \in {"cleanup", "survivors"} /\ d'.todo = <<c>> /\ d'.cur = c
    BY <1>s, <1>c, <2>2 DEF cleanup_next, survivors_next, Control
  <2> QED BY <2>1, <2>3
<1>6. CASE Cleanup \/ Survivors
  <2>0. s = c /\ d.todo = <<s>> /\ handle[s] = "owned"
    BY <1>6, <1>i, <1>o DEF Cleanup, Survivors, DownPC, Owing
  <2>h. Head(<<s>>) = s
    OBVIOUS
  <2>1. s = c /\ Head(d.todo) = c /\ handle[c] = "owned"
    BY <2>0, <2>h
  <2>2. handle'[c] # "owned"
    BY <1>w, <1>6, <2>1 DEF Cleanup, Survivors, stop_owned_child, drained,
       quarantine_if_owned, quarantine
  <2> QED BY <1>h, <2>1, <2>2
<1>7. CASE DownSvc \/ DownStop \/ DownStopped
  BY <1>s, <1>7 DEF DownSvc, DownStop, DownStopped, goto, Control, DownPC
<1>8. CASE DownFinish
  <2>1. CASE finish_down
    <3>1. op'.outcome \in {"success", "failure"}
      BY <1>s, <2>1 DEF finish_down, finish_op, Operation, StoreTypeOK
    <3> QED BY <3>1 DEF Owing, Open, unfinished
  <2> QED BY <1>s, <1>8, <2>1 DEF DownFinish, goto, Control, DownPC
<1>9. CASE DownQuarantine
  BY <1>s, <1>h, <1>9 DEF DownQuarantine, worldVars, DownPC
<1>10. CASE Crash
  BY <1>h, <1>10 DEF Crash, process_ends
<1>11. CASE \E t \in Services : TracerExits(t) \/ TreeEnds(t)
  <2>1. d' = d
    BY <1>11 DEF TracerExits, TreeEnds
  <2> QED BY <1>c, <1>i, <2>1
<1> QED BY <1>1, <1>2, <1>3, <1>4, <1>5, <1>6, <1>7, <1>8, <1>9, <1>10,
      <1>11, OwingSteps

\* A child that is taken over owes the outcome of the operation that
\* started it, and of no other.
LEMMA JournalOwing ==
    ASSUME SInv, NoneOpened, JournalChild
    PROVE  OwingInv'
<1>s. StoreTypeOK /\ WorldTypeOK /\ d \in Control /\ EInv
  BY DEF SInv, EInv, DInv, Inv, Sound
<1>w. handle \in [Services -> Handle]
  BY <1>s DEF WorldTypeOK
<1>c. PICK c \in Services : c = d.cur
  BY <1>s DEF Control
<1>b. d.pc = "journal"
  BY DEF JournalChild
<1>n. \A s \in Services : ~Owing(s)
  BY <1>b DEF SInv, OwingInv, DownPC
<1>1. CASE UNCHANGED handle
  <2>1. NoNewOwner
    BY <1>1 DEF NoNewOwner
  <2> QED BY <1>b, <2>1, QuietOwing DEF OwingPC, DownPC
<1>2. CASE handle' = [handle EXCEPT ![c] = "owned"] /\ goto("qualify")
  <2>1. d'.pc = "qualify" /\ d'.cur = c /\ d'.ret = d.ret
    BY <1>s, <1>c, <1>2 DEF goto, Control
  <2>2. d.ret \in {"start", "due"}
    BY <1>b, <1>s DEF EInv, Position, RetInv, BirthPC
  <2>3. d.ret = "due" => ~Open(c)
    BY <1>b, <1>c DEF SInv, Stage, ClosedInv, BirthPC
  <2>4. \A s \in Services : Owing(s)' => s = c /\ d'.ret = "start"
    <3> SUFFICES ASSUME NEW s \in Services, Owing(s)'
                 PROVE  s = c /\ d'.ret = "start"
      BY DEF Owing, Open
    <3>1. Open(s)
      BY DEF Owing, NoneOpened, Open
    <3>2. s = c
      BY <1>w, <1>n, <1>2, <3>1 DEF Owing
    <3> QED BY <2>1, <2>2, <2>3, <3>1, <3>2
  <2> QED BY <2>1, <2>4 DEF OwingInv
<1> QED BY <1>c, <1>1, <1>2 DEF JournalChild

\* An outcome is owed for an owned service only where the operation can
\* still give it.
LEMMA OwingStep ==
    ASSUME SInv, Next
    PROVE  OwingInv'
<1>s. StoreTypeOK /\ Inv
  BY DEF SInv, EInv, DInv, Inv, Sound
<1>1. CASE Begins /\ BeginStep
  BY <1>1, BeginOwing
<1>2. CASE MildTx
  <2>1. NoneOpened
    BY <1>s, <1>2, MildOpen
  <2>2. CASE JournalChild
    BY <2>1, <2>2, JournalOwing
  <2> QED BY <1>s, <2>1, <2>2, OnlyJournalled, KeepsOwing, QuietOwing
<1> QED BY <1>1, <1>2, OneTransaction

-----------------------------------------------------------------------------
(* The invariant *)

\* Nothing has been started, so nothing is owed.
LEMMA InitSInv == Init => SInv
<1> SUFFICES ASSUME Init PROVE SInv
  OBVIOUS
<1>1. EInv
  BY InitEInv
<1>2. d.pc = "dead"
  BY AtFields DEF Init
<1>3. \A s \in Services : ~Open(s)
  BY DEF Init, StoreInit, Open, unfinished
<1>4. BackoffInv /\ OwingInv
  BY <1>3 DEF BackoffInv, OwingInv, Owing
<1>5. d.pc \notin StartPC /\ d.pc \notin BirthPC /\ d.pc \notin IntentPC
      /\ d.pc \notin RestartPC
  BY <1>2 DEF StartPC, BeforePC, PreparePC, BirthPC, IntentPC, RestartPC
<1>6. Stage
  BY <1>2, <1>5 DEF Stage, ClosedInv, IntentInv, JobInv
<1> QED BY <1>1, <1>4, <1>6 DEF SInv

\* Every step keeps it.
LEMMA NextSInv ==
    ASSUME TrustedEngine, SInv, [Next]_vars
    PROVE  SInv'
<1>1. EInv'
  BY NextEInv DEF SInv
<1>2. CASE Next
  <2>1. BackoffInv' /\ OwingInv'
    BY <1>2, BackoffStep, OwingStep
  <2>2. Stage'
    BY <1>2, SuperviseStage, PrepareStage, DependStage, StartOneStage,
       AbortStage, StopStage, LifeStage DEF Next, DaemonStep
  <2> QED BY <1>1, <2>1, <2>2 DEF SInv
<1>3. CASE UNCHANGED vars
  <2>1. UNCHANGED <<svc, op, oprow, handle, d>>
    BY <1>3 DEF vars
  <2>2. BackoffInv' /\ OwingInv'
    BY <2>1 DEF SInv, BackoffInv, OwingInv, Owing, Open, unfinished
  <2>3. ClosedInv' /\ IntentInv' /\ JobInv'
    BY <2>1 DEF SInv, Stage, ClosedInv, IntentInv, JobInv, Open, Unstarted,
       unfinished
  <2> QED BY <1>1, <2>2, <2>3 DEF SInv, Stage
<1> QED BY <1>2, <1>3

-----------------------------------------------------------------------------
(* Where intents are taken *)

\* The control helpers never lead to a spawn by themselves.
LEMMA NotToSpawn ==
    ASSUME NEW c \in Control
    PROVE  /\ next_due(c).pc # "spawn"
           /\ deps_done(c).pc # "spawn"
           /\ deps_failed(c).pc # "spawn"
           /\ \A e : start_fails(c, e).pc # "spawn"
           /\ \A q : start_next(c, q).pc # "spawn"
           /\ \A q : cleanup_next(c, q).pc # "spawn"
           /\ \A q : survivors_next(c, q).pc # "spawn"
           /\ \A q : abort_others_next(c, q).pc # "spawn"
<1>1. at("idle").pc = "idle"
  BY AtFields
<1>2. ASSUME NEW b \in Control PROVE next_due(b).pc # "spawn"
  BY <1>1, <1>2 DEF next_due, after_tick, Control
<1>3. deps_done(c).pc # "spawn"
  BY DEF deps_done, Control
<1>4. deps_failed(c).pc # "spawn"
  <2>1. [c EXCEPT !.deps = << >>] \in Control
    BY EmptyType DEF Control
  <2> QED BY <1>1, <1>2, <2>1 DEF deps_failed, Control
<1>5. /\ \A e : start_fails(c, e).pc # "spawn"
      /\ \A q : start_next(c, q).pc # "spawn"
      /\ \A q : cleanup_next(c, q).pc # "spawn"
      /\ \A q : survivors_next(c, q).pc # "spawn"
  BY DEF start_fails, start_next, cleanup_next, survivors_next, Control
<1>6. \A q : abort_others_next(c, q).pc # "spawn"
  BY <1>5 DEF abort_others_next, Control
<1> QED BY <1>2, <1>3, <1>4, <1>5, <1>6

\* The daemon turns to a spawn when it has made its intent durable.
LEMMA OnlyIntents ==
    ASSUME d \in Control, Next, d'.pc = "spawn"
    PROVE  \/ UNCHANGED d
           \/ /\ d.pc = "start_invoke" /\ d'.cur = d.cur
              /\ set_service_phase_ok(d.cur)
           \/ d.pc = "restart_invoke" /\ d'.cur = d.cur
<1>a. \A p : d' = at(p) => p = "spawn"
  BY AtFields
<1>g. \A p : goto(p) => p = "spawn"
  BY DEF goto, Control
<1>r. ~return
  BY <1>a DEF return
<1>n. ASSUME NEW c \in Control
      PROVE  /\ d' # next_due(c) /\ d' # deps_done(c) /\ d' # deps_failed(c)
             /\ \A e : d' # start_fails(c, e)
             /\ \A q : /\ d' # start_next(c, q) /\ ~begin_starting(c, q)
                       /\ d' # cleanup_next(c, q)
                       /\ d' # survivors_next(c, q)
                       /\ d' # abort_others_next(c, q)
  <2>1. ASSUME NEW q
        PROVE  [start_next(c, q) EXCEPT !.pc = "abort", !.err = "store"].pc
                  = "abort"
    <3>1. CASE q = << >>
      BY <3>1 DEF start_next, Control
    <3>2. CASE q # << >>
      BY <3>2 DEF start_next, Control
    <3> QED BY <3>1, <3>2
  <2>2. \A q : ~begin_starting(c, q)
    BY <2>1, NotToSpawn DEF begin_starting
  <2> QED BY <2>2, NotToSpawn
<1>t. ~tick_next /\ ~shutdown_next
  BY DEF tick_next, shutdown_next, Control
<1>s. \A again : ~begin_shutdown(again)
  BY ShutdownPC
<1>1. CASE Supervise
  <2>1. CASE TickUncertain
    BY <2>1 DEF TickUncertain, Control
  <2>2. CASE TickDue
    <3>1. \A D \in SUBSET Services : [d EXCEPT !.due = D] \in Control
      BY DEF Control
    <3> QED BY <1>n, <1>r, <2>2, <3>1 DEF TickDue
  <2>3. CASE Due
    <3>1. PICK s \in d.due :
             \/ d' = next_due([d EXCEPT !.cur = s, !.due = d.due \ {s}])
             \/ d' = [[d EXCEPT !.cur = s, !.due = d.due \ {s}]
                        EXCEPT !.pc = "deps", !.deps = DependsOn[s],
                               !.ret = "due"]
      BY <2>3 DEF Due
    <3>2. [d EXCEPT !.cur = s, !.due = d.due \ {s}] \in Control
      BY DEF Control
    <3> QED BY <1>n, <3>1, <3>2 DEF Control
  <2>4. CASE RestartInvoke
    BY <1>n, <2>4 DEF RestartInvoke, goto, Control
  <2> QED BY <1>1, <1>n, <1>g, <1>t, <2>1, <2>2, <2>3, <2>4 DEF Supervise,
        TickChild, TickSchedule, Restore, Reschedule, DueUnknown
<1>2. CASE Prepare
  <2>1. CASE Up \/ UpCheck \/ UpConverge
    BY <1>r, <1>g, <2>1 DEF Up, UpCheck, UpConverge, Control
  <2>2. CASE BeginCurrent
    BY <1>r, <1>n, <2>2 DEF BeginCurrent
  <2>3. CASE CandBegin
    <3>1. [d EXCEPT !.order = Order] \in Control
      BY OrderAssumption DEF Control
    <3> QED BY <1>r, <1>n, <2>3, <3>1 DEF CandBegin
  <2> QED BY <1>2, <1>g, <1>n, <2>1, <2>2, <2>3 DEF Prepare, CandSvc,
        MarkLogsPrepared, MarkInstallInvoked, Install, MarkInstalled,
        MarkRootfsUnknown, MarkInstallFailed, Journal
<1>3. CASE Depend
  <2>1. CASE DepValid
    BY <2>1 DEF DepValid, Control
  <2> QED BY <1>3, <1>g, <1>n, <2>1 DEF Depend, DepsDone, DepAbsent,
        DepUnqualified, DepExitAmbiguous, DepExited, DepSchedule
<1>4. CASE StartOne
  <2>1. CASE MarkStartInvoked
    BY <1>n, <2>1 DEF MarkStartInvoked, goto, Control
  <2>2. CASE QualifyExited
    BY <1>n, <2>2 DEF QualifyExited, Control
  <2>3. CASE MarkRunning
    <3>1. Append(d.started, d.cur) \in Seq(Services)
      BY DEF Control
    <3>2. [d EXCEPT !.started = Append(d.started, d.cur)] \in Control
      BY <3>1 DEF Control
    <3> QED BY <1>n, <2>3, <3>2 DEF MarkRunning
  <2> QED BY <1>4, <1>g, <1>r, <1>n, <2>1, <2>2, <2>3 DEF StartOne, Spawn,
        SpawnRefused, JournalChild, Contain, Qualify, QualifyFails, Finish
<1>5. CASE AbortStart
  <2>1. CASE Cleanup
    BY <1>g, <2>1 DEF Cleanup, Control
  <2> QED BY <1>5, <1>a, <1>r, <1>s, <1>n, <2>1 DEF AbortStart, Abort,
        AbortOthers, CleanupExit, CleanupMark, Survivors, Finalize
<1>6. CASE Stop
  <2>1. CASE DownBegin \/ DownSvc \/ DownStop \/ DownStopped \/ DownFinish
             \/ DownQuarantine \/ DownFinal
    BY <1>g, <1>r, <2>1 DEF DownBegin, DownSvc, DownStop, DownStopped,
       DownFinish, DownQuarantine, DownFinal, Control
  <2>2. CASE Restart
    BY <1>a, <2>2 DEF Restart, Control
  <2> QED BY <1>6, <1>a, <1>g, <1>r, <1>n, <1>s, <1>t, <2>1, <2>2 DEF Stop,
        RestartBegin, RestartStopInvoke, Journal, RestartStop, RestartStopped,
        ShutdownAbsent, ShutdownStop, ShutdownRecord, ShutdownEnd,
        process_ends
<1>7. CASE Reconcile \/ Resume
  <2>1. [d EXCEPT !.job = "resume", !.order = Order] \in Control
    BY OrderAssumption DEF Control, Job
  <2> QED BY <1>7, <1>a, <1>g, <1>r, <1>n, <2>1 DEF Reconcile, Resume
<1>8. CASE Environment
  <2>1. CASE Accept
    <3>1. at("tick") \in Control /\ at("tick").pc = "tick"
      BY AtControl DEF PC
    <3> QED BY <2>1, <3>1 DEF Accept, Control
  <2> QED BY <1>8, <1>a, <1>s, <2>1 DEF Environment, Boot, SigTerm, Crash,
        process_ends, TracerExits, TreeEnds
<1> QED BY <1>1, <1>2, <1>3, <1>4, <1>5, <1>6, <1>7, <1>8 DEF Next, DaemonStep

-----------------------------------------------------------------------------
(* Where trees begin and end *)

Alive(s) == guest[s] \/ orphan[s]
SameTrees == \A s \in Services : Alive(s)' <=> Alive(s)

\* A tree ends, and nothing is written.
Fades ==
    /\ \A s \in Services : Alive(s)' => Alive(s)
    /\ UNCHANGED dbVars
    /\ UNCHANGED d \/ (d.pc # "spawn" /\ d'.pc # "spawn")

\* A child that is let go of, quarantined or left behind keeps its tree.
LEMMA KeepsTrees ==
    ASSUME WorldTypeOK,
           \/ UNCHANGED worldVars \/ UNCHANGED <<guest, orphan>>
           \/ \E u \in Services : let_go(u)
           \/ \E u : quarantine(u) \/ quarantine_if_owned(u)
           \/ process_ends \/ TickUncertain
    PROVE  SameTrees
<1> USE DEF WorldTypeOK, SameTrees, Alive
<1>1. CASE \/ UNCHANGED worldVars \/ UNCHANGED <<guest, orphan>>
           \/ \E u : quarantine(u) \/ quarantine_if_owned(u)
  BY <1>1 DEF worldVars, quarantine, quarantine_if_owned
<1>2. CASE \E u \in Services : let_go(u)
  BY <1>2 DEF let_go
<1>3. CASE process_ends
  BY <1>3 DEF process_ends
<1>4. CASE TickUncertain
  BY <1>4 DEF TickUncertain
<1> QED BY <1>1, <1>2, <1>3, <1>4

\* A kill that succeeded.
LEMMA DrainedFades ==
    ASSUME WorldTypeOK, NEW u \in Services, drained(u), UNCHANGED dbVars,
           d.pc # "spawn", d'.pc # "spawn"
    PROVE  Fades
BY DEF WorldTypeOK, drained, Fades, Alive

\* Only Spawn begins a tree; the steps that end one write nothing.
LEMMA TreesStep ==
    ASSUME SInv, Next
    PROVE  SameTrees \/ Fades \/ Spawn
<1>s. WorldTypeOK /\ d \in Control /\ d.cur \in Services
  BY DEF SInv, EInv, DInv, Inv, Sound, Control
<1>h. d.pc \in LoopPC => Head(d.todo) \in Services
  BY HeadTail DEF SInv, EInv, DInv, Inv, Sound, Control
<1>g. /\ d.deps # << >> => Head(d.deps) \in Services
      /\ d.todo # << >> => Head(d.todo) \in Services
  BY <1>s, HeadTail DEF Control
<1>p. \A p : goto(p) => d'.pc = p
  BY <1>s DEF goto, Control
<1>n. \A e : d' = start_fails(d, e) => d'.pc # "spawn"
  BY <1>s, NotToSpawn
<1>1. CASE Supervise
  BY <1>1, <1>s, <1>h, KeepsTrees DEF Supervise, TickChild, LoopPC,
     TickSchedule, TickDue, Due, RestartInvoke, Restore, Reschedule,
     DueUnknown
<1>2. CASE Prepare
  BY <1>2, <1>s, KeepsTrees DEF Prepare, Up, UpCheck, UpConverge,
     BeginCurrent, CandBegin, CandSvc, MarkLogsPrepared, MarkInstallInvoked,
     Install, MarkInstalled, MarkRootfsUnknown, MarkInstallFailed, Journal
<1>3. CASE Depend
  BY <1>3, <1>s, <1>g, KeepsTrees DEF Depend, DepsDone, DepAbsent, DepValid,
     DepUnqualified, DepExitAmbiguous, DepExited, DepSchedule
<1>4. CASE StartOne
  <2>1. CASE Contain
    <3>1. CASE drained(d.cur)
      BY <1>s, <1>n, <2>1, <3>1, DrainedFades DEF Contain
    <3> QED BY <1>s, <2>1, <3>1, KeepsTrees DEF Contain
  <2> QED BY <1>4, <1>s, <2>1, KeepsTrees DEF StartOne, MarkStartInvoked,
        SpawnRefused, JournalChild, Qualify, QualifyFails, QualifyExited,
        MarkRunning, Finish
<1>5. CASE AbortStart
  <2>1. CASE Cleanup
    <3>1. CASE drained(Head(d.todo)) /\ goto("cleanup_exit")
               /\ UNCHANGED dbVars
      BY <1>s, <1>h, <1>p, <2>1, <3>1, DrainedFades DEF Cleanup, LoopPC
    <3> QED BY <1>s, <2>1, <3>1, KeepsTrees DEF Cleanup, stop_owned_child
  <2> QED BY <1>5, <1>s, <2>1, KeepsTrees DEF AbortStart, Abort, AbortOthers,
        CleanupExit, CleanupMark, Survivors, Finalize
<1>6. CASE Stop
  <2>1. CASE DownStop
    <3>1. CASE drained(Head(d.todo)) /\ goto("down_stopped")
      BY <1>s, <1>h, <1>p, <2>1, <3>1, DrainedFades DEF DownStop, LoopPC
    <3> QED BY <1>s, <2>1, <3>1, KeepsTrees DEF DownStop, stop_owned_child
  <2>2. CASE RestartStop
    <3>1. CASE drained(d.cur) /\ goto("restart_stopped")
      BY <1>s, <1>p, <2>2, <3>1, DrainedFades DEF RestartStop
    <3> QED BY <1>s, <2>2, <3>1, KeepsTrees DEF RestartStop, stop_owned_child
  <2>3. CASE ShutdownStop
    <3>1. CASE drained(Head(d.todo)) /\ goto("shutdown_record")
               /\ UNCHANGED dbVars
      BY <1>s, <1>g, <1>p, <2>3, <3>1, DrainedFades DEF ShutdownStop
    <3> QED BY <1>s, <2>3, <3>1, KeepsTrees DEF ShutdownStop, stop_owned_child
  <2> QED BY <1>6, <1>s, <2>1, <2>2, <2>3, KeepsTrees DEF Stop, DownBegin,
        DownSvc, DownStopped, DownFinish, DownQuarantine, DownFinal, Restart,
        RestartBegin, RestartStopInvoke, Journal, RestartStopped,
        ShutdownAbsent, ShutdownRecord, ShutdownEnd
<1>7. CASE Reconcile \/ Resume \/ Boot \/ Accept \/ SigTerm \/ Crash
  BY <1>7, <1>s, KeepsTrees DEF Reconcile, Resume, Boot, Accept, SigTerm,
     Crash
<1>8. ASSUME NEW u \in Services, TracerExits(u) \/ TreeEnds(u) PROVE Fades
  <2>1. UNCHANGED <<dbVars, d>>
    BY <1>8 DEF TracerExits, TreeEnds
  <2>2. /\ UNCHANGED guest \/ guest' = [guest EXCEPT ![u] = FALSE]
        /\ UNCHANGED orphan \/ orphan' = [orphan EXCEPT ![u] = FALSE]
    BY <1>8 DEF TracerExits, TreeEnds
  <2>3. \A s \in Services : Alive(s)' => Alive(s)
    BY <1>s, <2>2 DEF Alive, WorldTypeOK
  <2> QED BY <2>1, <2>3 DEF Fades
<1> QED BY <1>1, <1>2, <1>3, <1>4, <1>5, <1>6, <1>7, <1>8 DEF Next,
      DaemonStep, Environment

-----------------------------------------------------------------------------
(* The steps of Sessions *)

\* What the database alone would tell of s is `unknown`.
Doubtful(s) == cold_row(s).observed = "unknown"

\* A live tree is on record, and no service has one while an intent for it
\* is pending.
LEMMA OnRecord ==
    ASSUME SInv, NEW s \in Services
    PROVE  /\ Touched(s) => Doubtful(s)
           /\ Alive(s) => Doubtful(s) /\ ~(d.pc = "spawn" /\ d.cur = s)
<1>r. svc[s] \in ServiceRow
  BY DEF SInv, EInv, DInv, Inv, StoreTypeOK
<1>1. Touched(s) => Doubtful(s)
  <2>1. CASE unfinished /\ oprow[s].outcome = "null"
    BY <1>r, <2>1 DEF Touched, Told, unfinished, Doubtful, cold_row,
       ServiceRow
  <2>2. CASE ~(unfinished /\ oprow[s].outcome = "null") /\ Touched(s)
    <3>1. /\ svc[s].observed \notin {"stopped", "failed", "absent"}
          /\ ~proven_backoff(svc[s])
      BY <2>2 DEF Touched, Told, unfinished
    <3>2. svc[s].observed = "unknown" \/ active_row(svc[s])
      BY <1>r, <3>1 DEF active_row, ServiceRow, Observed
    <3> QED BY <1>r, <2>2, <3>1, <3>2 DEF Doubtful, cold_row, ServiceRow
  <2> QED BY <2>1, <2>2
<1>2. ASSUME Alive(s) PROVE Touched(s) /\ ~(d.pc = "spawn" /\ d.cur = s)
  <2>1. Busy(s)
    BY <1>2 DEF Alive, SInv, EInv, TreeInv, Busy
  <2>2. d.pc = "spawn" => ~Busy(d.cur)
    BY DEF SInv, EInv, Position, AbsentInv, RetInv, BeforePC, BirthPC
  <2> QED BY <2>1, <2>2 DEF SInv, EInv, JournalInv
<1> QED BY <1>1, <1>2

RecordedTrees ==
    \A s \in Services :
        Alive(s) => Doubtful(s) /\ ~(d.pc = "spawn" /\ d.cur = s)

\* The same of all services, and of the next state.
LEMMA RecordedNow == SInv => RecordedTrees
BY OnRecord DEF RecordedTrees

\* An intent is taken only for a service whose absence is on record.
LEMMA IntentOfAbsent ==
    ASSUME SInv, Next, NEW s \in Services, Doubtful(s),
           d'.pc = "spawn", d'.cur = s
    PROVE  d.pc = "spawn" /\ d.cur = s
<1>d. d \in Control /\ svc[s] \in ServiceRow
  BY DEF SInv, EInv, DInv, Inv, Sound, StoreTypeOK
<1>1. CASE UNCHANGED d
  BY <1>1
<1>2. CASE d.pc = "start_invoke" /\ d.cur = s /\ set_service_phase_ok(s)
  <2>1. d.pc \in StartPC /\ d.ret = "start"
    BY <1>2 DEF SInv, EInv, Position, RetInv, StartPC, BeforePC
  <2>2. unfinished /\ Unstarted(s)
    BY <1>2, <2>1 DEF SInv, EInv, Position, StartingInv, Stage, IntentInv,
       IntentPC
  <2>3. cold_row(s).observed = cold_class(oprow[s])
    BY <1>d, <1>2, <2>2 DEF cold_row, set_service_phase_ok, ServiceRow
  <2> QED BY <2>2, <2>3 DEF Doubtful, Unstarted
<1>3. CASE d.pc = "restart_invoke" /\ d.cur = s
  <2>1. proven_backoff(svc[s])
    BY <1>3 DEF SInv, EInv, Position, RetInv, Stage, IntentInv
  <2>2. ~(unfinished /\ oprow[s].outcome = "null")
    BY <2>1 DEF SInv, BackoffInv, Open
  <2>3. cold_row(s) = svc[s]
    BY <2>1, <2>2 DEF cold_row
  <2> QED BY <2>1, <2>3 DEF Doubtful, proven_backoff
<1> QED BY <1>d, <1>1, <1>2, <1>3, OnlyIntents

\* The journal's word on a service, and where it may not go.
LEMMA WordStep ==
    ASSUME TrustedEngine, SInv, Next, NEW s \in Services
    PROVE  \/ /\ Alive(s)' <=> Alive(s)
              /\ journalled(s)' = journalled(s)
           \/ /\ ~Alive(s) /\ ~Alive(s)'
              /\ ~(journalled(s) = "open" /\ journalled(s)' = "invoked")
           \/ /\ Alive(s) /\ ~Alive(s)'
              /\ journalled(s)' = journalled(s)
           \/ /\ ~Alive(s) /\ Alive(s)'
              /\ journalled(s) = "invoked" /\ journalled(s)' = "open"
<1>i. SInv'
  BY NextSInv
<1>s. WorldTypeOK /\ d \in Control
  BY DEF SInv, EInv, DInv, Inv, Sound
<1>r. Alive(s) => journalled(s) = "open"
  BY OnRecord DEF journalled, Doubtful
<1>t. RecordedTrees'
  BY <1>i, RecordedNow, PTL
<1>q. Alive(s)' => Doubtful(s)' /\ ~(d'.pc = "spawn" /\ d'.cur = s)
  BY <1>t DEF RecordedTrees
<1>p. Alive(s)' => journalled(s)' = "open"
  BY <1>q DEF journalled, Doubtful
<1>n. ~(journalled(s) = "open" /\ journalled(s)' = "invoked")
  BY IntentOfAbsent DEF journalled, Doubtful
<1>1. CASE SameTrees
  BY <1>1, <1>r, <1>p, <1>n DEF SameTrees
<1>2. CASE Fades
  <2>1. UNCHANGED <<svc, op, oprow>>
    BY <1>2 DEF Fades, dbVars
  <2>2. Doubtful(s)' <=> Doubtful(s)
    BY <2>1 DEF Doubtful, cold_row, unfinished
  <2>3. journalled(s)' = journalled(s)
    BY <1>2, <2>2 DEF Fades, journalled, Doubtful
  <2> QED BY <1>2, <2>3 DEF Fades
<1>3. CASE Spawn
  <2>1. UNCHANGED <<svc, op, oprow>> /\ d.pc = "spawn" /\ d'.pc = "journal"
    BY <1>s, <1>3 DEF Spawn, goto, dbVars, Control
  <2>2. Doubtful(s)' <=> Doubtful(s)
    BY <2>1 DEF Doubtful, cold_row, unfinished
  <2>3. CASE s # d.cur
    <3>1. journalled(s)' = journalled(s)
      BY <2>1, <2>2, <2>3 DEF journalled, Doubtful
    <3>2. Alive(s)' <=> Alive(s)
      BY <1>s, <1>3, <2>3 DEF Spawn, Alive, WorldTypeOK
    <3> QED BY <3>1, <3>2
  <2>4. CASE s = d.cur
    <3>1. Touched(s)
      BY <2>1, <2>4 DEF SInv, EInv, Position, BirthInv
    <3>2. Doubtful(s) /\ ~Alive(s)
      BY <2>1, <2>4, <3>1, OnRecord
    <3>3. Alive(s)'
      BY <1>s, <1>3, <2>4 DEF Spawn, Alive, WorldTypeOK
    <3>4. journalled(s) = "invoked" /\ journalled(s)' = "open"
      BY <2>1, <2>2, <2>4, <3>2 DEF journalled, Doubtful
    <3> QED BY <3>2, <3>3, <3>4
  <2> QED BY <2>3, <2>4
<1> QED BY <1>1, <1>2, <1>3, TreesStep

\* Every step of the daemon is, for each service, a step of Sessions.
LEMMA StepImplements ==
    ASSUME TrustedEngine, SInv, [Next]_vars
    PROVE  [Abstract!Next]_Abstract!vars
<1>1. CASE UNCHANGED vars
  <2>1. UNCHANGED <<svc, op, oprow, guest, orphan, d>>
    BY <1>1 DEF vars
  <2>2. \A s \in Services : journalled(s)' = journalled(s)
    BY <2>1 DEF journalled, cold_row, unfinished
  <2> QED BY <2>1, <2>2 DEF Abstract!vars
<1>2. CASE Next
  <2> DEFINE A == {s \in Services : Alive(s)}
             J == [s \in Services |-> journalled(s)]
  <2>t. \A s \in Services : journalled(s) \in {"absent", "invoked", "open"}
                         /\ journalled(s)' \in {"absent", "invoked", "open"}
    BY DEF journalled
  <2>a. A = {s \in Services : guest[s] \/ orphan[s]}
    BY DEF Alive
  <2>1. J' \in [Services -> {"absent", "invoked", "open"}] /\ A' \subseteq Services
    BY <2>t
  <2>2. ASSUME NEW s \in Services
        PROVE  \/ Abstract!Invoke(s) \/ Abstract!Begin(s) \/ Abstract!Lose(s)
               \/ Abstract!End(s) \/ Abstract!Prove(s) \/ Abstract!Idle(s)
    <3>1. /\ J[s] = journalled(s) /\ J'[s] = journalled(s)'
          /\ (s \in A <=> Alive(s)) /\ (s \in A' <=> Alive(s)')
      OBVIOUS
    <3> QED BY <1>2, <2>t, <3>1, WordStep DEF Alive, Abstract!Invoke,
          Abstract!Begin, Abstract!Lose, Abstract!End, Abstract!Prove,
          Abstract!Idle
  <2>3. Abstract!Next
    BY <2>1, <2>2 DEF Abstract!Next, Alive
  <2> QED BY <2>3
<1> QED BY <1>1, <1>2

\* ImplementsSessions for every stack, start order, restart policy and set of
\* faults that leaves the view of the engine intact: whatever crashes, fails
\* or is retried, a session of a service follows a durable intent of
\* set_service_phase or mark_restart_invoked, and an intent the durable proof
\* that no earlier session is left.
THEOREM SessionsImplemented ==
    ASSUME TrustedEngine
    PROVE  Spec => ImplementsSessions
<1>1. Init => Abstract!Init
  <2> SUFFICES ASSUME Init PROVE Abstract!Init
    OBVIOUS
  <2>1. \A s \in Services : ~guest[s] /\ ~orphan[s]
    BY DEF Init
  <2>2. \A s \in Services : cold_row(s).observed = "absent"
    BY DEF Init, StoreInit, cold_row, unfinished, active_row, proven_backoff
  <2> QED BY <2>1, <2>2 DEF Abstract!Init, journalled
<1>2. SInv /\ [Next]_vars => SInv'
  BY NextSInv
<1>3. SInv /\ [Next]_vars => [Abstract!Next]_Abstract!vars
  BY StepImplements
<1> QED BY <1>1, <1>2, <1>3, InitSInv, PTL DEF Spec, ImplementsSessions,
      Abstract!Spec
=============================================================================
