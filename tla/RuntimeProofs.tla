--------------------------- MODULE RuntimeProofs ---------------------------
(***************************************************************************)
(* Three theorems about the daemon, for every stack, dependency graph,     *)
(* restart limit and set of faults: its state stays well typed, it spawns  *)
(* a service only while it owns every service that one depends on, and a   *)
(* pending restart belongs to a service without handle.                    *)
(*                                                                         *)
(* None is inductive alone.  Inv adds which loops hold a non-empty work    *)
(* list (Head and Tail are then defined), and, from the dependency check   *)
(* to the spawn, which dependencies have been seen to be owned.  DInv adds *)
(* what is owed to a deadline from the exit it answers to its record.      *)
(***************************************************************************)
EXTENDS Runtime, TLAPS

WorldTypeOK ==
    /\ handle \in [Services -> Handle]
    /\ tracer \in [Services -> Tracer]
    /\ guest \in [Services -> BOOLEAN]
    /\ orphan \in [Services -> BOOLEAN]

\* Inside a loop over todo.
LoopPC == {"tick_child", "tick_schedule", "abort_others", "cleanup",
           "cleanup_exit", "cleanup_mark", "survivors", "down_stop",
           "down_stopped", "shutdown_record"}

\* From the choice of a service to the end of its dependency check.
CheckPC == {"cand_svc", "logs", "install_invoke", "install", "installed",
            "deps"}

\* From the end of the dependency check to the spawn.
SpawnPC == {"start_invoke", "restart_invoke", "spawn"}

PlainPC == PC \ (LoopPC \cup CheckPC \cup SpawnPC \cup {"dep_schedule"})

\* The control state c is sound when the daemon holds the handles h.
Sound(c, h) ==
    /\ c \in Control
    /\ c.pc \in LoopPC => c.todo # << >>
    /\ c.pc = "dep_schedule" => c.deps # << >>
    /\ c.pc \in CheckPC /\ c.ret = "up_check" => c.todo # << >>
    /\ c.pc \in CheckPC /\ c.ret \in {"start", "due"} =>
          \A t \in ToSet(DependsOn[c.cur]) :
             h[t] = "owned" \/ t \in ToSet(c.deps)
    /\ c.pc \in SpawnPC =>
          \A t \in ToSet(DependsOn[c.cur]) : h[t] = "owned"

Inv == StoreTypeOK /\ WorldTypeOK /\ Sound(d, handle)

-----------------------------------------------------------------------------
(* The transactions: the state and phase columns stay within their CHECK   *)
(* lists, restart_attempts within MAX_RESTART_ATTEMPTS, and rows exist for *)
(* exactly the services of the stack.                                      *)

\* refresh_stack_state writes an observed state the schema allows.
LEMMA DerivedType ==
    ASSUME NEW desired, NEW rows
    PROVE  derived_state(desired, rows) \in Observed
BY DEF derived_state, Observed

\* The counter may be reset.
LEMMA ZeroAttempts == 0 \in 0..MAX_RESTART_ATTEMPTS
BY AttemptsAssumption

\* A transaction that changes one services row keeps both tables typed.
LEMMA WriteType ==
    ASSUME StoreTypeOK, NEW s \in Services, NEW r \in ServiceRow,
           write_row(s, r) \/ write_refreshed(s, r)
    PROVE  stack' \in StackRow /\ svc' \in [Services -> ServiceRow]
<1>1. svc' = [svc EXCEPT ![s] = r]
  BY DEF write_row, write_refreshed
<1>2. svc' \in [Services -> ServiceRow]
  BY <1>1 DEF StoreTypeOK
<1>3. CASE write_row(s, r)
  BY <1>2, <1>3 DEF write_row, StoreTypeOK
<1>4. CASE write_refreshed(s, r)
  <2>1. PICK o \in Observed : stack' = [stack EXCEPT !.observed = o]
    BY <1>4, DerivedType DEF write_refreshed
  <2>2. stack' \in StackRow
    BY <2>1 DEF StoreTypeOK, StackRow
  <2> QED BY <1>2, <2>2
<1> QED BY <1>3, <1>4

\* The start of a service, from set_service_phase to mark_running.
LEMMA StartType ==
    ASSUME StoreTypeOK, NEW s \in Services,
           \/ \E p \in Phase : set_service_phase(s, p)
           \/ mark_installed(s)
           \/ mark_rootfs_unknown(s)
           \/ mark_starting(s)
           \/ mark_running(s)
    PROVE  StoreTypeOK'
<1> USE DEF StoreTypeOK
<1>r. svc[s] \in ServiceRow /\ oprow[s] \in OpRow /\ gen[s] \in Generation
  OBVIOUS
<1>1. ASSUME NEW p \in Phase, set_service_phase(s, p) PROVE StoreTypeOK'
  <2>1. [svc[s] EXCEPT !.phase = p] \in ServiceRow
    BY <1>r DEF ServiceRow
  <2>2. stack' \in StackRow /\ svc' \in [Services -> ServiceRow]
    BY <1>1, <2>1, WriteType DEF set_service_phase
  <2>3. oprow' \in [Services -> OpRow]
    BY <1>1, <1>r DEF set_service_phase, OpRow
  <2> QED BY <1>1, <2>2, <2>3 DEF set_service_phase
<1>2. CASE mark_installed(s)
  <2>1. [svc[s] EXCEPT !.phase = "installed"] \in ServiceRow
    BY <1>r DEF ServiceRow, Phase
  <2>2. stack' \in StackRow /\ svc' \in [Services -> ServiceRow]
    BY <1>2, <2>1, WriteType DEF mark_installed
  <2>3. oprow' \in [Services -> OpRow]
    BY <1>2, <1>r DEF mark_installed, OpRow, Phase
  <2>4. gen' \in [Services -> Generation]
    BY <1>2, <1>r DEF mark_installed, Generation
  <2> QED BY <1>2, <2>2, <2>3, <2>4 DEF mark_installed
<1>3. CASE mark_rootfs_unknown(s)
  <2>1. gen' \in [Services -> Generation]
    BY <1>3, <1>r DEF mark_rootfs_unknown, Generation
  <2> QED BY <1>3, <2>1 DEF mark_rootfs_unknown
<1>4. CASE mark_starting(s)
  <2>1. [svc[s] EXCEPT !.observed = "starting", !.phase = "starting",
                       !.ident = "pid"] \in ServiceRow
    BY <1>r DEF ServiceRow, Phase, Observed, Identity
  <2>2. stack' \in StackRow /\ svc' \in [Services -> ServiceRow]
    BY <1>4, <2>1, WriteType DEF mark_starting
  <2>3. oprow' \in [Services -> OpRow]
    BY <1>4, <1>r DEF mark_starting, OpRow, Phase
  <2> QED BY <1>4, <2>2, <2>3 DEF mark_starting
<1>5. CASE mark_running(s)
  <2>1. [svc[s] EXCEPT !.observed = "running", !.phase = "running",
                       !.ident = "session", !.attempts = 0,
                       !.backoff = FALSE] \in ServiceRow
    BY <1>r, ZeroAttempts DEF ServiceRow, Phase, Observed, Identity
  <2>2. stack' \in StackRow /\ svc' \in [Services -> ServiceRow]
    BY <1>5, <2>1, WriteType DEF mark_running
  <2>3. oprow' \in [Services -> OpRow]
    BY <1>5, <1>r DEF mark_running, OpRow, Phase, Outcome
  <2> QED BY <1>5, <2>2, <2>3 DEF mark_running
<1> QED BY <1>1, <1>2, <1>3, <1>4, <1>5

\* The end of an operation keeps the newest failed candidate typed.
LEMMA FinishOpType ==
    ASSUME StoreTypeOK, NEW outcome \in Outcome, finish_op(outcome)
    PROVE  op' \in Operation /\ cand' \in MaybeDef
<1>1. op' \in Operation
  BY DEF finish_op, StoreTypeOK, Operation
<1>2. op.def \in MaybeDef
  BY DEF StoreTypeOK, Operation
<1>3. cand' \in MaybeDef
  BY <1>2 DEF finish_op, StoreTypeOK
<1> QED BY <1>1, <1>3

\* The failure of a service and of the operation.
LEMMA FailureType ==
    ASSUME StoreTypeOK, NEW s \in Services,
           \/ \E unknown \in BOOLEAN : mark_service_failed(s, unknown)
           \/ finalize_operation_failure
    PROVE  StoreTypeOK'
<1> USE DEF StoreTypeOK
<1>r. svc[s] \in ServiceRow /\ oprow[s] \in OpRow /\ gen[s] \in Generation
  OBVIOUS
<1>1. ASSUME NEW unknown \in BOOLEAN, mark_service_failed(s, unknown)
      PROVE  StoreTypeOK'
  <2> DEFINE state == IF unknown THEN "unknown" ELSE "failed"
             pre == ~unknown /\ oprow[s].phase \in {"intent", "logs_prepared"}
  <2>1. [svc[s] EXCEPT !.observed = state, !.phase = state] \in ServiceRow
    BY <1>r DEF ServiceRow, Phase, Observed
  <2>2. stack' \in StackRow /\ svc' \in [Services -> ServiceRow]
    BY <1>1, <2>1, WriteType DEF mark_service_failed
  <2>3. [phase |-> IF pre THEN "failed_pre_effect" ELSE state,
         outcome |-> "failure"] \in OpRow
    BY DEF OpRow, Phase, Outcome
  <2>4. oprow' \in [Services -> OpRow]
    BY <1>1, <2>3 DEF mark_service_failed
  <2>5. [gen[s] EXCEPT !.pre = pre] \in Generation
    BY <1>r DEF Generation
  <2>6. gen' \in [Services -> Generation]
    BY <1>1, <2>5 DEF mark_service_failed
  <2> QED BY <1>1, <2>2, <2>4, <2>6 DEF mark_service_failed
<1>2. CASE finalize_operation_failure
  <2>1. op' \in Operation /\ cand' \in MaybeDef
    BY <1>2, FinishOpType DEF finalize_operation_failure, Outcome
  <2> QED BY <1>2, <2>1 DEF finalize_operation_failure
<1> QED BY <1>1, <1>2

\* A new candidate, reused or not, and the commit of one.
LEMMA CandidateType ==
    ASSUME StoreTypeOK,
           \/ \E m \in MaybeDef : begin_candidate_recovery(m) \/ begin_up(m)
           \/ commit_up
    PROVE  StoreTypeOK'
<1> USE DEF StoreTypeOK
<1>1. ASSUME NEW m \in MaybeDef, NEW reused \in SUBSET Services,
             begin_candidate(m, reused)
      PROVE  StoreTypeOK'
  <2>1. stack' \in StackRow
    BY <1>1 DEF begin_candidate, StackRow, Desired, Observed
  <2>2. ASSUME NEW s \in Services, NEW o \in Observed, NEW p \in Phase
        PROVE  [fresh_row(svc[s], o, p) EXCEPT !.attempts = 0] \in ServiceRow
    <3>1. svc[s] \in ServiceRow
      OBVIOUS
    <3>2. fresh_row(svc[s], o, p) \in ServiceRow
      BY <3>1 DEF fresh_row, ServiceRow, Desired, Identity
    <3> HIDE DEF StoreTypeOK
    <3> QED BY <3>2, ZeroAttempts DEF ServiceRow
  <2> DEFINE row(s) == [fresh_row(svc[s],
                           IF s \in reused THEN "starting" ELSE "preparing",
                           IF s \in reused THEN "installed" ELSE "intent")
                          EXCEPT !.attempts = 0]
  <2>r. \A s \in Services : row(s) \in ServiceRow
    <3> HIDE DEF StoreTypeOK
    <3> QED BY <2>2, Zenon DEF Observed, Phase
  <2>s. svc' = [s \in Services |-> row(s)]
    BY <1>1 DEF begin_candidate
  <2>3. svc' \in [Services -> ServiceRow]
    <3> HIDE DEF row, StoreTypeOK
    <3> QED BY <2>r, <2>s
  <2>4. gen' \in [Services -> Generation]
    BY <1>1 DEF begin_candidate, Generation
  <2>5. op' \in Operation
    BY <1>1 DEF begin_candidate, Operation, OpKind, Outcome
  <2>6. oprow' \in [Services -> OpRow]
    BY <1>1 DEF begin_candidate, OpRow, Phase, Outcome
  <2> QED BY <1>1, <2>1, <2>3, <2>4, <2>5, <2>6 DEF begin_candidate
<1>2. ASSUME commit_up PROVE StoreTypeOK'
  <2>1. op.def \in MaybeDef /\ op' \in Operation
    BY <1>2 DEF commit_up, Operation, Outcome
  <2>2. stack' \in StackRow
    BY <1>2, <2>1 DEF commit_up, StackRow, Desired, Observed
  <2>3. svc' \in [Services -> ServiceRow]
    <3> DEFINE row(s) == [svc[s] EXCEPT !.desired = "running",
                            !.observed = "running", !.phase = "committed"]
    <3>1. ASSUME NEW s \in Services PROVE row(s) \in ServiceRow
      <4>1. svc[s] \in ServiceRow
        OBVIOUS
      <4> HIDE DEF StoreTypeOK
      <4> QED BY <4>1 DEF ServiceRow, Desired, Observed, Phase
    <3>2. svc' = [s \in Services |-> row(s)]
      BY <1>2 DEF commit_up
    <3> HIDE DEF row, StoreTypeOK
    <3> QED BY <3>1, <3>2
  <2>4. gen' \in [Services -> Generation]
    <3> DEFINE g(s) == [gen[s] EXCEPT !.role = "current"]
    <3>1. ASSUME NEW s \in Services PROVE g(s) \in Generation
      <4>1. gen[s] \in Generation
        OBVIOUS
      <4> HIDE DEF StoreTypeOK
      <4> QED BY <4>1 DEF Generation
    <3>2. gen' = [s \in Services |-> g(s)]
      BY <1>2 DEF commit_up
    <3> HIDE DEF g, StoreTypeOK
    <3> QED BY <3>1, <3>2
  <2>5. cand' \in MaybeDef
    BY <1>2 DEF commit_up, MaybeDef
  <2> QED BY <1>2, <2>1, <2>2, <2>3, <2>4, <2>5 DEF commit_up
<1> QED BY <1>1, <1>2 DEF begin_candidate_recovery, begin_up

\* up and resume on the committed generations.
LEMMA CurrentType ==
    ASSUME StoreTypeOK,
           \/ \E m \in MaybeDef : record_noop_up(m)
           \/ \E kind \in OpKind, names \in SUBSET Services :
                 begin_start_current(kind, names)
           \/ finish_start_current
    PROVE  StoreTypeOK'
<1> USE DEF StoreTypeOK
<1>1. ASSUME NEW m \in MaybeDef, record_noop_up(m) PROVE StoreTypeOK'
  <2>1. op' \in Operation
    <3>1. [kind |-> "up", candidate |-> FALSE, def |-> m,
           outcome |-> "success"] \in Operation
      BY DEF Operation, OpKind, Outcome
    <3> QED BY <1>1, <3>1 DEF record_noop_up, unfinished
  <2>2. oprow' \in [Services -> OpRow]
    BY <1>1 DEF record_noop_up, unfinished, NoRow, OpRow, Phase, Outcome
  <2> QED BY <1>1, <2>1, <2>2 DEF record_noop_up
<1>2. ASSUME NEW kind \in OpKind, NEW names \in SUBSET Services,
             begin_start_current(kind, names)
      PROVE  StoreTypeOK'
  <2>1. ASSUME NEW s \in Services
        PROVE  fresh_row(svc[s], "starting", "start_intent") \in ServiceRow
    <3>1. svc[s] \in ServiceRow
      OBVIOUS
    <3> QED
      BY <3>1 DEF fresh_row, ServiceRow, Desired, Identity, Observed, Phase
  <2>2. svc' \in [Services -> ServiceRow]
    BY <1>2, <2>1 DEF begin_start_current
  <2>3. stack' \in StackRow /\ stack.def \in MaybeDef
    BY <1>2 DEF begin_start_current, StackRow, Desired, Observed
  <2>4. op' \in Operation
    BY <1>2, <2>3 DEF begin_start_current, Operation, Outcome
  <2>5. oprow' \in [Services -> OpRow]
    BY <1>2 DEF begin_start_current, NoRow, OpRow, Phase, Outcome
  <2> QED BY <1>2, <2>2, <2>3, <2>4, <2>5 DEF begin_start_current
<1>3. CASE finish_start_current
  <2>1. svc' \in [Services -> ServiceRow]
    <3> DEFINE row(s) == IF oprow[s].outcome = "success"
                         THEN [svc[s] EXCEPT !.phase = "committed"] ELSE svc[s]
    <3>1. ASSUME NEW s \in Services PROVE row(s) \in ServiceRow
      <4>1. svc[s] \in ServiceRow
        OBVIOUS
      <4> HIDE DEF StoreTypeOK
      <4> QED BY <4>1 DEF ServiceRow, Phase
    <3>2. svc' = [s \in Services |-> row(s)]
      BY <1>3 DEF finish_start_current
    <3> HIDE DEF row, StoreTypeOK
    <3> QED BY <3>1, <3>2
  <2>2. PICK o \in Observed : stack' = [stack EXCEPT !.observed = o]
    BY <1>3, DerivedType DEF finish_start_current
  <2>3. stack' \in StackRow
    BY <2>2 DEF StackRow
  <2>4. op' \in Operation
    BY <1>3 DEF finish_start_current, Operation, Outcome
  <2> QED BY <1>3, <2>1, <2>3, <2>4 DEF finish_start_current
<1> QED BY <1>1, <1>2, <1>3

\* restart, up to the proof that the old session is gone.
LEMMA RestartType ==
    ASSUME StoreTypeOK, NEW s \in Services,
           \/ begin_restart(s)
           \/ mark_restart_stop_invoked(s)
           \/ mark_restart_stopped(s)
    PROVE  StoreTypeOK'
<1> USE DEF StoreTypeOK
<1>r. svc[s] \in ServiceRow /\ oprow[s] \in OpRow
  OBVIOUS
<1>1. CASE begin_restart(s)
  <2>1. [svc[s] EXCEPT !.phase = "restart_stop_intent"] \in ServiceRow
    BY <1>r DEF ServiceRow, Phase
  <2>2. stack' \in StackRow /\ svc' \in [Services -> ServiceRow]
    BY <1>1, <2>1, WriteType DEF begin_restart
  <2>3. oprow' \in [Services -> OpRow]
    BY <1>1 DEF begin_restart, NoRow, OpRow, Phase, Outcome
  <2>4. op' \in Operation
    BY <1>1 DEF begin_restart, Operation, OpKind, MaybeDef, Outcome
  <2> QED BY <1>1, <2>2, <2>3, <2>4 DEF begin_restart
<1>2. CASE mark_restart_stop_invoked(s)
  <2>1. [svc[s] EXCEPT !.observed = "stopping",
                       !.phase = "restart_stop_invoked"] \in ServiceRow
    BY <1>r DEF ServiceRow, Phase, Observed
  <2>2. stack' \in StackRow /\ svc' \in [Services -> ServiceRow]
    BY <1>2, <2>1, WriteType DEF mark_restart_stop_invoked
  <2>3. oprow' \in [Services -> OpRow]
    BY <1>2, <1>r DEF mark_restart_stop_invoked, OpRow, Phase
  <2> QED BY <1>2, <2>2, <2>3 DEF mark_restart_stop_invoked
<1>3. CASE mark_restart_stopped(s)
  <2>1. proven_row(svc[s], "stopped", "shutdown_proven") \in ServiceRow
    BY <1>r DEF proven_row, ServiceRow, Phase, Observed, Identity
  <2>2. stack' \in StackRow /\ svc' \in [Services -> ServiceRow]
    BY <1>3, <2>1, WriteType DEF mark_restart_stopped
  <2>3. oprow' \in [Services -> OpRow]
    BY <1>3, <1>r DEF mark_restart_stopped, OpRow, Phase
  <2> QED BY <1>3, <2>2, <2>3 DEF mark_restart_stopped
<1> QED BY <1>1, <1>2, <1>3

\* down.
LEMMA DownType ==
    ASSUME StoreTypeOK,
           \/ begin_down
           \/ \E s \in Services : mark_stopped(s)
           \/ finish_down
           \/ finalize_down_failure
    PROVE  StoreTypeOK'
<1> USE DEF StoreTypeOK
<1>1. CASE begin_down
  <2>1. ASSUME NEW r \in ServiceRow
        PROVE  down_row(r) \in ServiceRow /\ down_oprow(r) \in OpRow
    <3>1. PICK c \in {"stopped", "unknown", "stopping"} : c = down_class(r)
      BY DEF down_class
    <3> DEFINE p == IF c = "stopping" THEN "stop_intent" ELSE c
    <3>2. c \in Observed /\ p \in Phase
      BY DEF Observed, Phase
    <3>3. down_row(r) = [r EXCEPT !.desired = "stopped", !.observed = c,
                                  !.backoff = FALSE, !.phase = p]
      BY <3>1 DEF down_row
    <3>4. down_row(r) \in ServiceRow
      <4> HIDE DEF p, StoreTypeOK
      <4> QED BY <3>2, <3>3 DEF ServiceRow, Desired
    <3>5. down_oprow(r) \in OpRow
      BY <3>1, <3>2 DEF down_oprow, OpRow, Outcome
    <3> QED BY <3>4, <3>5
  <2>2. svc' \in [Services -> ServiceRow] /\ oprow' \in [Services -> OpRow]
    BY <1>1, <2>1 DEF begin_down
  <2>3. PICK o \in Observed :
           stack' = [stack EXCEPT !.desired = "stopped", !.observed = o]
    BY <1>1, DerivedType DEF begin_down
  <2>4. stack' \in StackRow
    BY <2>3 DEF StackRow, Desired
  <2>5. op' \in Operation
    BY <1>1 DEF begin_down, Operation, OpKind, MaybeDef, Outcome
  <2> QED BY <1>1, <2>2, <2>4, <2>5 DEF begin_down
<1>2. ASSUME NEW s \in Services, mark_stopped(s) PROVE StoreTypeOK'
  <2>r. svc[s] \in ServiceRow
    OBVIOUS
  <2>1. proven_row(svc[s], "stopped", "stopped") \in ServiceRow
    BY <2>r DEF proven_row, ServiceRow, Phase, Observed, Identity
  <2>2. [proven_row(svc[s], "stopped", "stopped") EXCEPT !.desired = "stopped"]
           \in ServiceRow
    BY <2>1 DEF ServiceRow, Desired
  <2>3. stack' \in StackRow /\ svc' \in [Services -> ServiceRow]
    BY <1>2, <2>2, WriteType DEF mark_stopped
  <2>4. oprow' \in [Services -> OpRow]
    BY <1>2 DEF mark_stopped, OpRow, Phase, Outcome
  <2> QED BY <1>2, <2>3, <2>4 DEF mark_stopped
<1>3. CASE finish_down
  <2>1. stack' \in StackRow
    BY <1>3 DEF finish_down, StackRow, Desired, Observed
  <2>2. op' \in Operation
    BY <1>3 DEF finish_down, Operation, Outcome
  <2> QED BY <1>3, <2>1, <2>2 DEF finish_down
<1>4. CASE finalize_down_failure
  <2>1. ASSUME NEW r \in ServiceRow
        PROVE  [r EXCEPT !.desired = "stopped", !.observed = "unknown",
                         !.phase = "unknown"] \in ServiceRow
    BY DEF ServiceRow, Desired, Observed, Phase
  <2>2. svc' \in [Services -> ServiceRow]
    BY <1>4, <2>1 DEF finalize_down_failure
  <2>3. oprow' \in [Services -> OpRow]
    BY <1>4 DEF finalize_down_failure, OpRow, Phase, Outcome
  <2>4. stack' \in StackRow
    BY <1>4 DEF finalize_down_failure, StackRow, Desired, Observed
  <2>5. op' \in Operation
    BY <1>4 DEF finalize_down_failure, Operation, Outcome
  <2> QED BY <1>4, <2>2, <2>3, <2>4, <2>5 DEF finalize_down_failure
<1> QED BY <1>1, <1>2, <1>3, <1>4

\* Supervision: exits, ambiguity, scheduled restarts, graceful stops.
LEMMA SuperviseType ==
    ASSUME StoreTypeOK, NEW s \in Services,
           \/ record_exit(s) \/ mark_runtime_unknown(s)
           \/ \E n \in 0..MAX_RESTART_ATTEMPTS : schedule_restart(s, n)
           \/ mark_restart_invoked(s) \/ restore_restart_backoff(s)
           \/ mark_restart_starting(s) \/ mark_restart_running(s)
           \/ record_graceful_stop(s) \/ record_graceful_backoff_stop(s)
    PROVE  StoreTypeOK'
<1> DEFINE Row(r) == /\ write_row(s, r) \/ write_refreshed(s, r)
                     /\ UNCHANGED <<gen, cand, op, oprow>>
<1>r. svc[s] \in ServiceRow
  BY DEF StoreTypeOK
<1>w. ASSUME NEW r \in ServiceRow, Row(r) PROVE StoreTypeOK'
  BY <1>w, WriteType DEF StoreTypeOK
<1> USE DEF ServiceRow, Phase, Observed, Identity
<1>1. CASE record_exit(s)
  <2>1. PICK o \in {"stopped", "failed"} : Row(proven_row(svc[s], o, "exited"))
    BY <1>1 DEF record_exit
  <2>2. proven_row(svc[s], o, "exited") \in ServiceRow
    BY <1>r DEF proven_row
  <2> QED BY <2>1, <2>2, <1>w
<1>2. CASE mark_runtime_unknown(s)
  BY <1>2, <1>r, <1>w DEF mark_runtime_unknown
<1>3. ASSUME NEW n \in 0..MAX_RESTART_ATTEMPTS, schedule_restart(s, n)
      PROVE  StoreTypeOK'
  BY <1>3, <1>r, <1>w DEF schedule_restart
<1>4. CASE mark_restart_invoked(s)
  BY <1>4, <1>r, <1>w DEF mark_restart_invoked
<1>5. CASE restore_restart_backoff(s)
  BY <1>5, <1>r, <1>w DEF restore_restart_backoff
<1>6. CASE mark_restart_starting(s)
  BY <1>6, <1>r, <1>w DEF mark_restart_starting
<1>7. CASE mark_restart_running(s)
  BY <1>7, <1>r, <1>w DEF mark_restart_running
<1>8. CASE record_graceful_stop(s)
  BY <1>8, <1>r, <1>w DEF record_graceful_stop, proven_row
<1>9. CASE record_graceful_backoff_stop(s)
  BY <1>9, <1>r, <1>w DEF record_graceful_backoff_stop
<1> QED BY <1>1, <1>2, <1>3, <1>4, <1>5, <1>6, <1>7, <1>8, <1>9

\* The cold start, whatever the previous daemon left unfinished.
LEMMA ColdStartType ==
    ASSUME StoreTypeOK, reconcile_cold_start
    PROVE  StoreTypeOK'
<1> USE DEF StoreTypeOK
<1>1. ASSUME NEW s \in Services PROVE cold_row(s) \in ServiceRow
  <2>1. svc[s] \in ServiceRow
    OBVIOUS
  <2>2. PICK c \in {"stopped", "failed", "unknown"} :
           c = cold_class(oprow[s])
    BY DEF cold_class
  <2>3. c \in Observed /\ cold_phase(c) \in Phase
    BY DEF cold_phase, Observed, Phase
  <2> HIDE DEF StoreTypeOK
  <2>4. [svc[s] EXCEPT !.observed = c, !.phase = cold_phase(c),
                       !.ident = "none", !.backoff = FALSE] \in ServiceRow
    BY <2>1, <2>3 DEF ServiceRow, Identity
  <2>5. [svc[s] EXCEPT !.observed = "unknown", !.phase = "unknown",
                       !.ident = "none", !.backoff = FALSE] \in ServiceRow
    BY <2>1 DEF ServiceRow, Identity, Observed, Phase
  <2> QED BY <2>1, <2>2, <2>4, <2>5 DEF cold_row
<1>2. ASSUME NEW s \in Services PROVE cold_gen(s) \in Generation
  BY DEF cold_gen, Generation
<1>3. ASSUME NEW s \in Services
      PROVE  [phase |-> cold_phase(cold_class(oprow[s])),
              outcome |-> "failure"] \in OpRow
  BY DEF cold_phase, cold_class, OpRow, Phase, Outcome
<1>4. svc' \in [Services -> ServiceRow]
  BY <1>1 DEF reconcile_cold_start
<1>5. gen' \in [Services -> Generation]
  BY <1>2 DEF reconcile_cold_start
<1>6. oprow' \in [Services -> OpRow]
  BY <1>3 DEF reconcile_cold_start
<1>7. op' \in Operation /\ cand' \in MaybeDef
  <2>1. \/ \E outcome \in {"success", "failure"} : finish_op(outcome)
        \/ UNCHANGED <<op, cand>>
    BY DEF reconcile_cold_start
  <2> QED BY <2>1, FinishOpType DEF Outcome
<1>8. stack' \in StackRow
  <2>1. stack.desired \in Desired /\ "stopped" \in Desired
    BY DEF StackRow, Desired
  <2>2. \/ stack' = stack
        \/ \E w \in Desired, o \in Observed :
              stack' = [stack EXCEPT !.desired = w, !.observed = o]
    BY <2>1, DerivedType DEF reconcile_cold_start
  <2> QED BY <2>2 DEF StackRow
<1> QED BY <1>4, <1>5, <1>6, <1>7, <1>8

-----------------------------------------------------------------------------
(* Sequences *)

\* An empty work list is one.
LEMMA EmptyType == << >> \in Seq(Services)
OBVIOUS

\* The first element of a work list and the rest of it.
LEMMA HeadTail ==
    ASSUME NEW q \in Seq(Services), q # << >>
    PROVE  /\ Head(q) \in Services
           /\ Tail(q) \in Seq(Services)
           /\ ToSet(q) \subseteq {Head(q)} \cup ToSet(Tail(q))
<1>1. Head(q) \in Services /\ Tail(q) \in Seq(Services)
  OBVIOUS
<1>2. ASSUME NEW i \in DOMAIN q
      PROVE  q[i] \in {Head(q)} \cup ToSet(Tail(q))
  <2>1. CASE i = 1
    BY <2>1
  <2>2. CASE i # 1
    <3>1. i - 1 \in DOMAIN Tail(q) /\ q[i] = Tail(q)[i - 1]
      BY <2>2
    <3> QED BY <3>1 DEF ToSet
  <2> QED BY <2>1, <2>2
<1> QED BY <1>1, <1>2 DEF ToSet

\* The reverse of a work list is one.
LEMMA ReverseType ==
    ASSUME NEW q \in Seq(Services)
    PROVE  Reverse(q) \in Seq(Services)
<1>1. \A i \in 1..Len(q) : q[(Len(q) - i) + 1] \in Services
  OBVIOUS
<1>2. Len(q) \in Nat
  OBVIOUS
<1>3. Reverse(q) \in [1..Len(q) -> Services]
  BY <1>1 DEF Reverse
<1> QED BY <1>2, <1>3

\* down and shutdown visit the services of the stack.
LEMMA StopOrderType ==
    ASSUME NEW manifest \in BOOLEAN
    PROVE  StopOrder(manifest) \in Seq(Services)
BY ReverseType, OrderAssumption, NamesAssumption DEF StopOrder

\* The elements of a work list are services.
LEMMA ToSetType ==
    ASSUME NEW q \in Seq(Services)
    PROVE  ToSet(q) \subseteq Services
BY DEF ToSet

-----------------------------------------------------------------------------
(* Control states *)

\* Outside the loops and the checks nothing is asked of the control state.
LEMMA PlainSound ==
    ASSUME NEW c \in Control, NEW h, c.pc \in PlainPC
    PROVE  Sound(c, h)
BY DEF Sound, PlainPC

\* A jump keeps the control state typed.
LEMMA GotoControl ==
    ASSUME NEW c \in Control, NEW p \in PC
    PROVE  /\ [c EXCEPT !.pc = p] \in Control
           /\ [c EXCEPT !.pc = p].pc = p
BY DEF Control

\* A jump to a position outside the loops and the checks is sound.
LEMMA GotoSound ==
    ASSUME NEW c \in Control, NEW h, NEW p \in PlainPC
    PROVE  Sound([c EXCEPT !.pc = p], h)
BY PlainSound, GotoControl DEF PlainPC

\* The initial control state of the daemon's phases.
LEMMA AtControl ==
    ASSUME NEW p \in PC
    PROVE  at(p) \in Control /\ at(p).pc = p
<1>1. Order[1] \in Services
  BY OrderAssumption
<1> QED BY <1>1, EmptyType DEF at, Control, Job, MaybeDef, ErrorKind

\* The phases that at(p) enters start with empty work lists.
LEMMA AtSound ==
    ASSUME NEW p \in PlainPC, NEW h
    PROVE  Sound(at(p), h)
BY AtControl, PlainSound DEF PlainPC

\* After the tick, and between two scheduled restarts.
LEMMA NextDueSound ==
    ASSUME NEW c \in Control, NEW h
    PROVE  Sound(next_due(c), h)
<1>1. {"up", "down_begin", "restart", "idle", "due"} \subseteq PlainPC
  BY DEF PlainPC, PC, LoopPC, CheckPC, SpawnPC
<1>2. Sound(after_tick(c), h)
  BY <1>1, GotoSound, AtSound DEF after_tick
<1> QED BY <1>1, <1>2, GotoSound DEF next_due

\* A failed start goes to the abort of its operation or, for a scheduled
\* restart, to its classification.
LEMMA StartFailsSound ==
    ASSUME NEW c \in Control, NEW h, NEW e \in ErrorKind
    PROVE  Sound(start_fails(c, e), h)
<1>1. {"abort", "restore", "due_unknown"} \subseteq PlainPC
  BY DEF PlainPC, PC, LoopPC, CheckPC, SpawnPC
<1>2. [c EXCEPT !.pc = "abort", !.err = e] \in Control
  BY DEF Control, PC
<1>3. [c EXCEPT !.pc = "abort", !.err = e].pc = "abort"
  BY DEF Control
<1>4. Sound([c EXCEPT !.pc = "abort", !.err = e], h)
  BY <1>1, <1>2, <1>3, PlainSound
<1> QED BY <1>1, <1>4, GotoSound DEF start_fails

\* A failed dependency check aborts the operation, defers the scheduled
\* restart or returns to the serve loop.
LEMMA DepsFailedSound ==
    ASSUME NEW c \in Control, NEW h
    PROVE  Sound(deps_failed(c), h)
<1>1. {"abort", "idle"} \subseteq PlainPC
  BY DEF PlainPC, PC, LoopPC, CheckPC, SpawnPC
<1> DEFINE a == [c EXCEPT !.pc = "abort", !.err = "conflict", !.deps = << >>]
           b == [c EXCEPT !.deps = << >>]
<1>c. "abort" \in PC /\ "conflict" \in ErrorKind
  BY DEF PC, ErrorKind
<1>2. a \in Control /\ a.pc = "abort"
  BY <1>c, EmptyType DEF Control
<1>5. b \in Control
  BY EmptyType DEF Control
<1>3. Sound(a, h) /\ Sound(next_due(b), h)
  <2> HIDE DEF a, b
  <2> QED BY <1>1, <1>2, <1>5, PlainSound, NextDueSound
<1>4. Sound(at("idle"), h)
  BY <1>1, AtSound
<1> QED BY <1>3, <1>4 DEF deps_failed

\* The next service: its dependencies are all still to be checked.
LEMMA StartNextSound ==
    ASSUME NEW c \in Control, NEW h, NEW q \in Seq(Services)
    PROVE  /\ Sound(start_next(c, q), h)
           /\ start_next(c, q) \in Control
<1>1. CASE q = << >>
  <2> DEFINE f == [c EXCEPT !.pc = "finish", !.todo = << >>]
  <2>1. f \in Control /\ f.pc = "finish"
    BY EmptyType DEF Control, PC
  <2>2. "finish" \in PlainPC
    BY DEF PlainPC, PC, LoopPC, CheckPC, SpawnPC
  <2>3. start_next(c, q) = f
    BY <1>1 DEF start_next
  <2> HIDE DEF f
  <2> QED BY <2>1, <2>2, <2>3, PlainSound
<1>2. CASE q # << >>
  <2>1. Head(q) \in Services /\ Tail(q) \in Seq(Services)
    BY <1>2, HeadTail
  <2>2. DependsOn[Head(q)] \in Seq(Services)
    BY <2>1, DependsOnAssumption
  <2>3. PICK p \in {"cand_svc", "deps"} :
           start_next(c, q) =
             [c EXCEPT !.pc = p, !.cur = Head(q), !.todo = Tail(q),
                       !.deps = DependsOn[Head(q)], !.ret = "start"]
    BY <1>2 DEF start_next
  <2>4. p \in PC /\ p \in CheckPC /\ p \notin LoopPC \cup SpawnPC
        /\ p # "dep_schedule"
    BY DEF PC, CheckPC, LoopPC, SpawnPC
  <2> DEFINE g == [c EXCEPT !.pc = p, !.cur = Head(q), !.todo = Tail(q),
                            !.deps = DependsOn[Head(q)], !.ret = "start"]
  <2>5. g \in Control
    BY <2>1, <2>2, <2>4 DEF Control
  <2>6. g.pc = p /\ g.ret = "start" /\ g.deps = DependsOn[g.cur]
    BY DEF Control
  <2>7. start_next(c, q) = g
    BY <2>3
  <2> HIDE DEF g
  <2>8. Sound(g, h)
    BY <2>4, <2>5, <2>6 DEF Sound
  <2> QED BY <2>5, <2>7, <2>8
<1> QED BY <1>1, <1>2

\* The dependency check ends: every dependency was seen to be owned.
LEMMA DepsDoneSound ==
    ASSUME NEW c, NEW h, Sound(c, h), c.pc = "deps", c.deps = << >>
    PROVE  Sound(deps_done(c), h)
<1>0. c \in Control /\ c.ret \in {"start", "up_check", "pre_restart", "due"}
  BY DEF Sound, Control
<1>1. CASE c.ret \in {"start", "due"}
  <2>1. PICK p \in {"start_invoke", "restart_invoke"} :
           deps_done(c) = [c EXCEPT !.pc = p]
    BY <1>1 DEF deps_done
  <2>2. \A t \in ToSet(DependsOn[c.cur]) : h[t] = "owned"
    BY <1>1 DEF Sound, CheckPC, ToSet
  <2>3. p \in PC /\ p \in SpawnPC /\ p \notin LoopPC \cup CheckPC
        /\ p # "dep_schedule"
    BY DEF PC, CheckPC, LoopPC, SpawnPC
  <2> DEFINE g == [c EXCEPT !.pc = p]
  <2>4. g \in Control /\ g.pc = p /\ g.cur = c.cur
    BY <1>0, <2>3 DEF Control
  <2>5. deps_done(c) = g
    BY <2>1
  <2> HIDE DEF g
  <2> QED BY <2>2, <2>3, <2>4, <2>5 DEF Sound
<1>2. CASE c.ret = "pre_restart"
  <2>1. "restart_begin" \in PlainPC
    BY DEF PlainPC, PC, LoopPC, CheckPC, SpawnPC
  <2> QED BY <1>0, <1>2, <2>1, GotoSound DEF deps_done
<1>3. CASE c.ret = "up_check"
  <2>1. c.todo # << >> /\ c.todo \in Seq(Services)
    BY <1>3 DEF Sound, CheckPC, Control
  <2>2. Tail(c.todo) \in Seq(Services)
    BY <2>1, HeadTail
  <2> DEFINE g == [c EXCEPT !.pc = "up_check", !.todo = Tail(c.todo)]
  <2>3. g \in Control /\ g.pc = "up_check"
    BY <1>0, <2>2 DEF Control, PC
  <2>4. deps_done(c) = g
    BY <1>3 DEF deps_done
  <2>5. "up_check" \in PlainPC
    BY DEF PlainPC, PC, LoopPC, CheckPC, SpawnPC
  <2> HIDE DEF g
  <2> QED BY <2>3, <2>4, <2>5, PlainSound
<1> QED BY <1>0, <1>1, <1>2, <1>3

\* The loops of a failed start.
LEMMA AbortSound ==
    ASSUME NEW c \in Control, NEW h, NEW q \in Seq(Services)
    PROVE  /\ Sound(cleanup_next(c, q), h)
           /\ Sound(survivors_next(c, q), h)
           /\ Sound(abort_others_next(c, q), h)
<1>1. ASSUME NEW r \in Seq(Services), NEW p \in PC,
             \/ p \in PlainPC
             \/ r # << >> /\ p \in {"cleanup", "survivors", "abort_others"}
      PROVE  Sound([c EXCEPT !.pc = p, !.todo = r], h)
  <2> DEFINE g == [c EXCEPT !.pc = p, !.todo = r]
  <2>1. g \in Control /\ g.pc = p /\ g.todo = r
    BY DEF Control
  <2> HIDE DEF g
  <2>2. Sound(g, h)
    BY <1>1, <2>1, PlainSound DEF Sound, LoopPC, CheckPC, SpawnPC
  <2> QED BY <2>2 DEF g
<1>2. "finalize" \in PlainPC /\ PlainPC \subseteq PC
      /\ {"cleanup", "survivors", "abort_others"} \subseteq PC
  BY DEF PlainPC, PC, LoopPC, CheckPC, SpawnPC
<1>4. ASSUME NEW r \in Seq(Services)
      PROVE  Sound(cleanup_next(c, r), h) /\ Sound(survivors_next(c, r), h)
  BY <1>1, <1>2, EmptyType DEF cleanup_next, survivors_next
<1>5. Reverse(c.started) \in Seq(Services)
  BY ReverseType DEF Control
<1>6. Sound(abort_others_next(c, q), h)
  BY <1>1, <1>2, <1>4, <1>5 DEF abort_others_next
<1> QED BY <1>4, <1>6

\* A pass of shutdown begins on a list of services of the stack.
LEMMA ShutdownSound ==
    ASSUME NEW again \in BOOLEAN, begin_shutdown(again), NEW h
    PROVE  Sound(d', h)
<1>p. "shutdown" \in PlainPC /\ PlainPC \subseteq PC
  BY DEF PlainPC, PC, LoopPC, CheckPC, SpawnPC
<1>1. PICK q \in Seq(Services), e \in {"none", "store"} :
         \/ d' = [at("shutdown") EXCEPT !.todo = q, !.again = again]
         \/ d' = [at("shutdown") EXCEPT !.todo = q, !.again = again,
                                        !.err = e]
  <2>1. StopOrder(committed) \in Seq(Services)
        /\ StopOrder(FALSE) \in Seq(Services)
    BY StopOrderType DEF committed
  <2> QED BY <2>1 DEF begin_shutdown
<1>2. at("shutdown") \in Control /\ at("shutdown").pc = "shutdown"
  BY <1>p, AtControl
<1>3. e \in ErrorKind
  BY DEF ErrorKind
<1>4. d' \in Control /\ d'.pc = "shutdown"
  BY <1>1, <1>2, <1>3 DEF Control
<1> QED BY <1>p, <1>4, PlainSound

-----------------------------------------------------------------------------
(* Handles and processes, and failed transactions *)

\* The handles, the tracers and the guest trees, carried through the steps of
\* the engine that stop_owned_child, contain and tick rely on.
LEMMA WorldType ==
    ASSUME WorldTypeOK, NEW s \in Services,
           \/ let_go(s) \/ drained(s) \/ process_ends
           \/ UNCHANGED worldVars
    PROVE  WorldTypeOK'
BY DEF WorldTypeOK, let_go, drained, process_ends, worldVars, Handle, Tracer

\* A step that leaves the journal alone leaves its rows typed.
LEMMA StoreUnchanged ==
    ASSUME StoreTypeOK, UNCHANGED dbVars
    PROVE  StoreTypeOK'
BY DEF StoreTypeOK, dbVars

\* A quarantined child stays held, whether or not the journal hears of it.
LEMMA QuarantineType ==
    ASSUME StoreTypeOK, WorldTypeOK, NEW s \in Services,
           quarantine(s) \/ quarantine_if_owned(s)
    PROVE  StoreTypeOK' /\ WorldTypeOK'
<1>1. CASE quarantine(s)
  <2>1. WorldTypeOK'
    BY <1>1 DEF WorldTypeOK, quarantine, Handle
  <2>2. StoreTypeOK'
    BY <1>1, SuperviseType, StoreUnchanged DEF quarantine, Ignoring, StoreFails
  <2> QED BY <2>1, <2>2
<1>2. CASE UNCHANGED <<dbVars, worldVars>>
  BY <1>2, StoreUnchanged DEF WorldTypeOK, worldVars
<1> QED BY <1>1, <1>2 DEF quarantine_if_owned

\* A transaction whose failure is ignored, and a restart schedule.
LEMMA TransactionType ==
    ASSUME StoreTypeOK, NEW s \in Services,
           \/ Ignoring(mark_runtime_unknown(s))
           \/ schedule_or_give_up(s)
           \/ schedule_restart_after_exit(s)
           \/ \E unknown \in BOOLEAN : record_failure(s, unknown)
    PROVE  StoreTypeOK'
<1>1. CASE Ignoring(mark_runtime_unknown(s))
  BY <1>1, SuperviseType, StoreUnchanged DEF Ignoring, StoreFails
<1>2. ASSUME schedule_or_give_up(s) PROVE StoreTypeOK'
  <2>1. svc[s].attempts \in 0..MAX_RESTART_ATTEMPTS
    BY DEF StoreTypeOK, ServiceRow
  <2>2. \/ \E n \in 0..MAX_RESTART_ATTEMPTS : schedule_restart(s, n)
        \/ UNCHANGED dbVars
    BY <1>2, <2>1, AttemptsAssumption DEF schedule_or_give_up, StoreFails
  <2> QED BY <2>2, SuperviseType, StoreUnchanged
<1>3. CASE schedule_restart_after_exit(s)
  BY <1>2, <1>3, StoreUnchanged DEF schedule_restart_after_exit
<1>4. ASSUME NEW unknown \in BOOLEAN, record_failure(s, unknown)
      PROVE  StoreTypeOK'
  BY <1>4, FailureType, StoreUnchanged DEF record_failure, StoreFails
<1> QED BY <1>1, <1>2, <1>3, <1>4

-----------------------------------------------------------------------------
(* The initial state and the steps that change handles or processes only *)

\* A fresh installation satisfies the invariant.
LEMMA InitInv == Init => Inv
<1> SUFFICES ASSUME Init PROVE Inv
  OBVIOUS
<1>1. StoreTypeOK
  <2>1. stack \in StackRow
    BY DEF Init, StoreInit, StackRow, Desired, Observed, MaybeDef
  <2>2. svc \in [Services -> ServiceRow]
    BY ZeroAttempts DEF Init, StoreInit, ServiceRow, Desired, Observed,
       Phase, Identity
  <2>3. gen \in [Services -> Generation]
    BY DEF Init, StoreInit, Generation
  <2>4. cand \in MaybeDef /\ op \in Operation
    BY DEF Init, StoreInit, MaybeDef, Operation, OpKind, Outcome
  <2>5. oprow \in [Services -> OpRow]
    BY DEF Init, StoreInit, NoRow, OpRow, Phase, Outcome
  <2> QED BY <2>1, <2>2, <2>3, <2>4, <2>5 DEF StoreTypeOK
<1>2. WorldTypeOK
  BY DEF Init, WorldTypeOK, Handle, Tracer
<1>3. "dead" \in PlainPC
  BY DEF PlainPC, PC, LoopPC, CheckPC, SpawnPC
<1>4. Sound(d, handle)
  BY <1>3, AtSound DEF Init
<1> QED BY <1>1, <1>2, <1>4 DEF Inv

\* Workloads exit without the daemon; they never change a handle.
LEMMA EnvironmentInv ==
    ASSUME Inv, NEW s \in Services, TracerExits(s) \/ TreeEnds(s)
    PROVE  Inv'
<1>1. UNCHANGED <<dbVars, handle, d>>
  BY DEF TracerExits, TreeEnds
<1>2. WorldTypeOK'
  BY <1>1 DEF Inv, WorldTypeOK, TracerExits, TreeEnds, Tracer, Exited
<1>3. StoreTypeOK'
  BY <1>1, StoreUnchanged DEF Inv
<1> QED BY <1>1, <1>2, <1>3 DEF Inv

\* The daemon's lifetime: boot, cold start, resume, crash, a new request.
LEMMA LifetimeInv ==
    ASSUME Inv, Boot \/ Reconcile \/ Resume \/ Crash \/ Accept
    PROVE  Inv'
<1>s. StoreTypeOK /\ WorldTypeOK /\ d \in Control
  BY DEF Inv, Sound
<1>p. {"dead", "reconcile", "resume", "idle", "tick", "abort"} \subseteq PlainPC
  BY DEF PlainPC, PC, LoopPC, CheckPC, SpawnPC
<1>w. PICK w : w \in Services
  BY OrderAssumption
<1>1. CASE Boot
  <2>1. StoreTypeOK' /\ WorldTypeOK'
    BY <1>1, <1>s, <1>w, StoreUnchanged, WorldType DEF Boot
  <2>2. Sound(d', handle')
    BY <1>1, <1>p, AtSound DEF Boot
  <2> QED BY <2>1, <2>2 DEF Inv
<1>2. CASE Reconcile
  <2>1. StoreTypeOK' /\ WorldTypeOK'
    BY <1>2, <1>s, <1>w, ColdStartType, StoreUnchanged, WorldType
       DEF Reconcile, StoreFails
  <2>2. Sound(d', handle')
    BY <1>2, <1>s, <1>p, AtSound, GotoSound DEF Reconcile, goto
  <2> QED BY <2>1, <2>2 DEF Inv
<1>3. CASE Resume
  <2>1. \/ begin_start_current("resume", Services) \/ UNCHANGED dbVars
    BY <1>3 DEF Resume, StoreFails
  <2>2. StoreTypeOK' /\ WorldTypeOK'
    BY <1>3, <2>1, <1>s, <1>w, CurrentType, StoreUnchanged, WorldType
       DEF Resume, OpKind
  <2> DEFINE c == [d EXCEPT !.job = "resume", !.order = Order]
             n == start_next(c, Order)
             e == [n EXCEPT !.pc = "abort", !.err = "store"]
  <2>3. Order \in Seq(Services)
    BY OrderAssumption
  <2>4. c \in Control
    BY <1>s, <2>3 DEF Control, Job
  <2>5. d' = n \/ d' = e \/ d' = at("idle") \/ d' = at("dead")
    BY <1>3 DEF Resume, begin_starting, return
  <2> HIDE DEF c
  <2>6. n \in Control /\ Sound(n, handle')
    BY <2>3, <2>4, StartNextSound
  <2> HIDE DEF n
  <2>c. "abort" \in PC /\ "store" \in ErrorKind
    BY DEF PC, ErrorKind
  <2>7. e \in Control /\ e.pc = "abort"
    BY <2>6, <2>c DEF Control
  <2> HIDE DEF e
  <2>8. Sound(d', handle')
    BY <1>p, <2>5, <2>6, <2>7, PlainSound, AtSound
  <2> QED BY <2>2, <2>8 DEF Inv
<1>4. CASE Crash
  <2>1. StoreTypeOK' /\ WorldTypeOK'
    BY <1>4, <1>s, <1>w, StoreUnchanged, WorldType DEF Crash
  <2>2. Sound(d', handle')
    BY <1>4, <1>p, AtSound DEF Crash, process_ends
  <2> QED BY <2>1, <2>2 DEF Inv
<1>5. CASE Accept
  <2>1. StoreTypeOK' /\ WorldTypeOK'
    BY <1>5, <1>s, <1>w, StoreUnchanged, WorldType DEF Accept
  <2>2. at("tick") \in Control /\ at("tick").pc = "tick"
    BY AtControl DEF PC
  <2>3. d' \in Control /\ d'.pc = "tick"
    <3> HIDE DEF at
    <3> QED BY <1>5, <2>2 DEF Accept, Control, Job, MaybeDef
  <2>4. Sound(d', handle')
    BY <1>p, <2>3, PlainSound
  <2> QED BY <2>1, <2>4 DEF Inv
<1> QED BY <1>1, <1>2, <1>3, <1>4, <1>5

-----------------------------------------------------------------------------
(* tick and scheduled restarts *)

\* tick goes on to its next child or, after the last, to the due restarts.
LEMMA TickNextSound ==
    ASSUME d \in Control, d.todo # << >>, tick_next, NEW h
    PROVE  Sound(d', h)
<1>1. Tail(d.todo) \in Seq(Services)
  BY HeadTail DEF Control
<1>2. {"tick_due", "tick_child"} \subseteq PC /\ "tick_due" \in PlainPC
      /\ "tick_child" \notin CheckPC \cup SpawnPC \cup {"dep_schedule"}
  BY DEF PlainPC, PC, LoopPC, CheckPC, SpawnPC
<1>3. PICK p \in {"tick_due", "tick_child"} :
         /\ d' = [d EXCEPT !.pc = p, !.todo = Tail(d.todo)]
         /\ p = "tick_child" => Tail(d.todo) # << >>
  BY DEF tick_next
<1>4. d' \in Control /\ d'.pc = p /\ d'.todo = Tail(d.todo)
  BY <1>1, <1>2, <1>3 DEF Control
<1>5. CASE p = "tick_due"
  BY <1>2, <1>4, <1>5, PlainSound
<1>6. CASE p = "tick_child"
  BY <1>2, <1>3, <1>4, <1>6 DEF Sound
<1> QED BY <1>5, <1>6

\* tick, up to the restarts that are due.
LEMMA TickInv ==
    ASSUME Inv, TickUncertain \/ TickChild \/ TickSchedule
    PROVE  Inv'
<1>s. StoreTypeOK /\ WorldTypeOK /\ d \in Control
  BY DEF Inv, Sound
<1>l. "tick_child" \in LoopPC /\ "tick_schedule" \in LoopPC
      /\ "tick_child" \notin CheckPC \cup SpawnPC \cup {"dep_schedule"}
      /\ "tick_schedule" \notin CheckPC \cup SpawnPC \cup {"dep_schedule"}
      /\ {"tick_child", "tick_schedule"} \subseteq PC
  BY DEF LoopPC, CheckPC, SpawnPC, PC
<1>1. CASE TickUncertain
  <2>1. StoreTypeOK'
    BY <1>1, <1>s, StoreUnchanged DEF TickUncertain
  <2>2. WorldTypeOK'
    BY <1>1, <1>s DEF TickUncertain, WorldTypeOK, Handle, Tracer
  <2>3. Names \in Seq(Services) /\ Names # << >>
    BY NamesAssumption
  <2>4. d' \in Control /\ d'.pc = "tick_child" /\ d'.todo = Names
    BY <1>1, <1>s, <1>l, <2>3 DEF TickUncertain, Control
  <2> QED BY <1>l, <2>1, <2>2, <2>3, <2>4 DEF Inv, Sound
<1>2. CASE TickChild
  <2> DEFINE s == Head(d.todo)
  <2>1. d.todo # << >> /\ d.todo \in Seq(Services)
    BY <1>2, <1>l DEF TickChild, Inv, Sound, Control
  <2>2. s \in Services
    BY <2>1, HeadTail
  <2>3. \/ UNCHANGED dbVars \/ Ignoring(mark_runtime_unknown(s))
        \/ mark_runtime_unknown(s) \/ record_exit(s)
    BY <1>2 DEF TickChild, StoreFails
  <2>4. UNCHANGED worldVars \/ let_go(s)
    BY <1>2 DEF TickChild
  <2>5. tick_next \/ d' = [d EXCEPT !.pc = "tick_schedule"]
    BY <1>2 DEF TickChild, goto
  <2> HIDE DEF s
  <2>6. StoreTypeOK'
    BY <1>s, <2>2, <2>3, TransactionType, SuperviseType, StoreUnchanged
  <2>7. WorldTypeOK'
    BY <1>s, <2>2, <2>4, WorldType
  <2>8. Sound(d', handle')
    <3>1. CASE tick_next
      BY <1>s, <2>1, <3>1, TickNextSound
    <3>2. CASE d' = [d EXCEPT !.pc = "tick_schedule"]
      <4>1. d' \in Control /\ d'.pc = "tick_schedule" /\ d'.todo = d.todo
        BY <1>s, <1>l, <3>2 DEF Control
      <4> QED BY <1>l, <2>1, <4>1 DEF Sound
    <3> QED BY <2>5, <3>1, <3>2
  <2> QED BY <2>6, <2>7, <2>8 DEF Inv
<1>3. CASE TickSchedule
  <2>1. d.todo # << >> /\ d.todo \in Seq(Services)
    BY <1>3, <1>l DEF TickSchedule, Inv, Sound, Control
  <2>2. Head(d.todo) \in Services
    BY <2>1, HeadTail
  <2>3. StoreTypeOK' /\ WorldTypeOK'
    BY <1>3, <1>s, <2>2, TransactionType, WorldType DEF TickSchedule
  <2>4. Sound(d', handle')
    BY <1>3, <1>s, <2>1, TickNextSound DEF TickSchedule
  <2> QED BY <2>3, <2>4 DEF Inv
<1> QED BY <1>1, <1>2, <1>3

\* perform_scheduled_restart and the ways it ends.
LEMMA DueInv ==
    ASSUME Inv,
           TickDue \/ Due \/ RestartInvoke \/ Restore \/ Reschedule
             \/ DueUnknown
    PROVE  Inv'
<1>s. StoreTypeOK /\ WorldTypeOK /\ d \in Control /\ d.cur \in Services
  BY DEF Inv, Sound, Control
<1>1. CASE TickDue
  <2>1. StoreTypeOK' /\ WorldTypeOK'
    BY <1>1, <1>s, StoreUnchanged, WorldType DEF TickDue
  <2>2. ASSUME NEW D \in SUBSET Services
        PROVE  [d EXCEPT !.due = D] \in Control
    BY <1>s DEF Control
  <2>3. "idle" \in PlainPC
    BY DEF PlainPC, PC, LoopPC, CheckPC, SpawnPC
  <2>4. \/ \E D \in SUBSET Services : d' = next_due([d EXCEPT !.due = D])
        \/ d' = at("idle")
    BY <1>1 DEF TickDue, return
  <2>5. Sound(d', handle')
    BY <2>2, <2>3, <2>4, NextDueSound, AtSound
  <2> QED BY <2>1, <2>5 DEF Inv
<1>2. CASE Due
  <2>1. StoreTypeOK' /\ WorldTypeOK'
    BY <1>2, <1>s, StoreUnchanged, WorldType DEF Due
  <2>2. PICK s \in d.due :
           LET c == [d EXCEPT !.cur = s, !.due = d.due \ {s}]
           IN  \/ d' = [c EXCEPT !.pc = "deps", !.deps = DependsOn[s],
                                 !.ret = "due"]
               \/ d' = next_due(c)
    BY <1>2 DEF Due
  <2> DEFINE c == [d EXCEPT !.cur = s, !.due = d.due \ {s}]
             g == [c EXCEPT !.pc = "deps", !.deps = DependsOn[s],
                            !.ret = "due"]
  <2>3. s \in Services /\ d.due \in SUBSET Services
    BY <1>s, <2>2 DEF Control
  <2>4. c \in Control /\ c.cur = s
    BY <1>s, <2>3 DEF Control
  <2>5. d' = g \/ d' = next_due(c)
    BY <2>2
  <2> HIDE DEF c
  <2>6. DependsOn[s] \in Seq(Services) /\ "deps" \in PC
    BY <2>3, DependsOnAssumption DEF PC
  <2>7. /\ g \in Control /\ g.pc = "deps" /\ g.ret = "due"
        /\ g.deps = DependsOn[g.cur]
    BY <2>4, <2>6 DEF Control
  <2>8. "deps" \notin LoopPC \cup SpawnPC
    BY DEF LoopPC, SpawnPC
  <2> HIDE DEF g
  <2>9. Sound(g, handle')
    BY <2>7, <2>8 DEF Sound
  <2>10. Sound(d', handle')
    BY <2>4, <2>5, <2>9, NextDueSound
  <2> QED BY <2>1, <2>10 DEF Inv
<1>3. CASE RestartInvoke
  <2>1. mark_restart_invoked(d.cur) \/ UNCHANGED dbVars
    BY <1>3 DEF RestartInvoke, StoreFails
  <2>2. StoreTypeOK' /\ WorldTypeOK'
    BY <1>3, <1>s, <2>1, SuperviseType, StoreUnchanged, WorldType
       DEF RestartInvoke
  <2>3. d' = [d EXCEPT !.pc = "spawn"] \/ d' = next_due(d)
    BY <1>3 DEF RestartInvoke, goto
  <2>4. Sound(d', handle')
    <3>1. CASE d' = [d EXCEPT !.pc = "spawn"]
      <4>1. "spawn" \in PC /\ "restart_invoke" \in SpawnPC
            /\ "spawn" \notin LoopPC \cup CheckPC \cup {"dep_schedule"}
        BY DEF PC, LoopPC, CheckPC, SpawnPC
      <4>2. d' \in Control /\ d'.pc = "spawn" /\ d'.cur = d.cur
        BY <1>s, <3>1, <4>1 DEF Control
      <4>3. \A t \in ToSet(DependsOn[d.cur]) : handle'[t] = "owned"
        BY <1>3, <4>1 DEF RestartInvoke, Inv, Sound, worldVars
      <4> QED BY <4>1, <4>2, <4>3 DEF Sound
    <3>2. CASE d' = next_due(d)
      BY <1>s, <3>2, NextDueSound
    <3> QED BY <2>3, <3>1, <3>2
  <2> QED BY <2>2, <2>4 DEF Inv
<1>4. ASSUME Restore \/ Reschedule \/ DueUnknown PROVE Inv'
  <2>1. \/ restore_restart_backoff(d.cur)
        \/ Ignoring(mark_runtime_unknown(d.cur))
        \/ schedule_or_give_up(d.cur)
    BY <1>4 DEF Restore, Reschedule, DueUnknown
  <2>2. StoreTypeOK' /\ WorldTypeOK'
    BY <1>4, <1>s, <2>1, SuperviseType, TransactionType, WorldType
       DEF Restore, Reschedule, DueUnknown
  <2>3. Sound(d', handle')
    BY <1>4, <1>s, NextDueSound DEF Restore, Reschedule, DueUnknown
  <2> QED BY <2>2, <2>3 DEF Inv
<1> QED BY <1>1, <1>2, <1>3, <1>4

-----------------------------------------------------------------------------
(* up *)

\* Between the choice of a service and its spawn the pending checks carry
\* over from one step to the next.
LEMMA CheckStep ==
    ASSUME Inv, UNCHANGED handle, NEW p, d' = [d EXCEPT !.pc = p],
           \/ d.pc \in CheckPC /\ p \in CheckPC
           \/ d.pc \in SpawnPC /\ p \in SpawnPC
    PROVE  Sound(d', handle')
<1>1. CheckPC \subseteq PC /\ SpawnPC \subseteq PC
      /\ CheckPC \cap (LoopPC \cup SpawnPC \cup {"dep_schedule"}) = {}
      /\ SpawnPC \cap (LoopPC \cup {"dep_schedule"}) = {}
  BY DEF PC, CheckPC, SpawnPC, LoopPC
<1>2. d \in Control
  BY DEF Inv, Sound
<1>3. /\ d' \in Control /\ d'.pc = p /\ d'.cur = d.cur
      /\ d'.ret = d.ret /\ d'.deps = d.deps /\ d'.todo = d.todo
  BY <1>1, <1>2 DEF Control
<1> QED BY <1>1, <1>3 DEF Inv, Sound

\* up, to the first service of its operation.
LEMMA UpInv ==
    ASSUME Inv, Up \/ UpCheck \/ UpConverge \/ BeginCurrent \/ CandBegin
    PROVE  Inv'
<1>s. StoreTypeOK /\ WorldTypeOK /\ d \in Control /\ d.cur \in Services
      /\ d.def \in MaybeDef /\ d.order \in Seq(Services)
      /\ d.todo \in Seq(Services)
  BY DEF Inv, Sound, Control
<1>p. {"up_check", "cand_begin", "begin_current", "idle", "abort"}
         \subseteq PlainPC
  BY DEF PlainPC, PC, LoopPC, CheckPC, SpawnPC
<1>q. PlainPC \subseteq PC /\ "deps" \in PC /\ "deps" \in CheckPC
      /\ "deps" \notin LoopPC \cup SpawnPC
  BY DEF PlainPC, PC, LoopPC, CheckPC, SpawnPC
<1>o. Order \in Seq(Services)
  BY OrderAssumption
<1>i. Sound(at("idle"), handle')
  BY <1>p, AtSound
<1>1. CASE Up
  <2>1. StoreTypeOK' /\ WorldTypeOK'
    BY <1>1, <1>s, StoreUnchanged, WorldType DEF Up
  <2> DEFINE g == [d EXCEPT !.pc = "up_check", !.todo = Order]
  <2>2. g \in Control /\ g.pc = "up_check"
    BY <1>s, <1>o, <1>p, <1>q DEF Control
  <2>3. d' = g \/ d' = at("idle") \/ d' = [d EXCEPT !.pc = "cand_begin"]
    BY <1>1 DEF Up, return, goto
  <2> HIDE DEF g
  <2>4. Sound(d', handle')
    BY <1>s, <1>i, <1>p, <2>2, <2>3, PlainSound, GotoSound
  <2> QED BY <2>1, <2>4 DEF Inv
<1>2. CASE UpCheck
  <2>1. StoreTypeOK' /\ WorldTypeOK'
    BY <1>2, <1>s, StoreUnchanged, WorldType DEF UpCheck
  <2> DEFINE s == Head(d.todo)
             g == [d EXCEPT !.pc = "deps", !.deps = <<s>>, !.ret = "up_check"]
             k == [d EXCEPT !.order = Append(d.order, s),
                            !.todo = Tail(d.todo)]
  <2>2. d.todo # << >> /\ d.pc = "up_check"
    BY <1>2 DEF UpCheck
  <2>3. s \in Services /\ Tail(d.todo) \in Seq(Services)
    BY <1>s, <2>2, HeadTail
  <2>4. d' = g \/ d' = k \/ d' = at("idle")
    BY <1>2 DEF UpCheck, return
  <2>5. <<s>> \in Seq(Services) /\ Append(d.order, s) \in Seq(Services)
    BY <1>s, <2>3
  <2> HIDE DEF s
  <2>6. g \in Control /\ g.pc = "deps" /\ g.ret = "up_check"
        /\ g.todo = d.todo
    BY <1>s, <1>q, <2>5 DEF Control
  <2>7. k \in Control /\ k.pc = "up_check"
    BY <1>s, <2>2, <2>3, <2>5 DEF Control
  <2> HIDE DEF g, k
  <2>8. Sound(g, handle')
    BY <1>q, <2>2, <2>6 DEF Sound
  <2>9. Sound(k, handle')
    BY <1>p, <2>7, PlainSound
  <2> QED BY <1>i, <2>1, <2>4, <2>8, <2>9 DEF Inv
<1>3. CASE UpConverge
  <2>1. record_noop_up(d.def) \/ UNCHANGED dbVars
    BY <1>3 DEF UpConverge, StoreFails
  <2>2. StoreTypeOK' /\ WorldTypeOK'
    BY <1>3, <1>s, <2>1, CurrentType, StoreUnchanged, WorldType DEF UpConverge
  <2>3. d' = at("idle") \/ d' = [d EXCEPT !.pc = "begin_current"]
    BY <1>3 DEF UpConverge, return, goto
  <2> QED BY <1>s, <1>p, <1>i, <2>2, <2>3, GotoSound DEF Inv
<1>4. CASE BeginCurrent
  <2>1. \/ begin_start_current("up", ToSet(d.order)) \/ UNCHANGED dbVars
    BY <1>4 DEF BeginCurrent, StoreFails
  <2>2. ToSet(d.order) \in SUBSET Services /\ "up" \in OpKind
    BY <1>s, ToSetType DEF OpKind
  <2>3. StoreTypeOK' /\ WorldTypeOK'
    BY <1>4, <1>s, <2>1, <2>2, CurrentType, StoreUnchanged, WorldType
       DEF BeginCurrent
  <2> DEFINE n == start_next(d, d.order)
             e == [n EXCEPT !.pc = "abort", !.err = "store"]
  <2>4. d' = n \/ d' = e \/ d' = at("idle")
    BY <1>4 DEF BeginCurrent, begin_starting, return
  <2>5. n \in Control /\ Sound(n, handle')
    BY <1>s, StartNextSound
  <2> HIDE DEF n
  <2>6. "store" \in ErrorKind
    BY DEF ErrorKind
  <2>7. e \in Control /\ e.pc = "abort"
    BY <1>p, <1>q, <2>5, <2>6 DEF Control
  <2> HIDE DEF e
  <2> QED BY <1>p, <1>i, <2>3, <2>4, <2>5, <2>7, PlainSound DEF Inv
<1>5. CASE CandBegin
  <2>1. begin_candidate_recovery(d.def) \/ begin_up(d.def) \/ UNCHANGED dbVars
    BY <1>5 DEF CandBegin, StoreFails
  <2>2. StoreTypeOK' /\ WorldTypeOK'
    BY <1>5, <1>s, <2>1, CandidateType, StoreUnchanged, WorldType DEF CandBegin
  <2>3. d' = start_next([d EXCEPT !.order = Order], Order) \/ d' = at("idle")
    BY <1>5 DEF CandBegin, return
  <2>4. [d EXCEPT !.order = Order] \in Control
    BY <1>s, <1>o DEF Control
  <2> QED BY <1>o, <1>i, <2>2, <2>3, <2>4, StartNextSound DEF Inv
<1> QED BY <1>1, <1>2, <1>3, <1>4, <1>5

\* install_and_start_candidate, to the installed rootfs.
LEMMA InstallInv ==
    ASSUME Inv,
           \/ CandSvc \/ MarkLogsPrepared \/ MarkInstallInvoked \/ Install
           \/ MarkInstalled \/ MarkRootfsUnknown \/ MarkInstallFailed
    PROVE  Inv'
<1>s. StoreTypeOK /\ WorldTypeOK /\ d \in Control /\ d.cur \in Services
  BY DEF Inv, Sound, Control
<1>c. {"cand_svc", "logs", "install_invoke", "install", "installed", "deps"}
        \subseteq CheckPC
  BY DEF CheckPC
<1>p. {"install_unknown", "install_failed"} \subseteq PlainPC
      /\ {"store", "io", "engine"} \subseteq ErrorKind
      /\ {"logs_prepared", "install_invoked"} \subseteq Phase
  BY DEF PlainPC, PC, LoopPC, CheckPC, SpawnPC, ErrorKind, Phase
<1>1. StoreTypeOK'
  <2>1. \/ UNCHANGED dbVars
        \/ set_service_phase(d.cur, "logs_prepared")
        \/ set_service_phase(d.cur, "install_invoked")
        \/ mark_installed(d.cur)
        \/ mark_rootfs_unknown(d.cur)
        \/ mark_service_failed(d.cur, TRUE)
    BY DEF CandSvc, MarkLogsPrepared, MarkInstallInvoked, Install,
       MarkInstalled, MarkRootfsUnknown, MarkInstallFailed, Journal, StoreFails
  <2> QED BY <1>s, <1>p, <2>1, StartType, FailureType, StoreUnchanged
<1>2. UNCHANGED worldVars
  BY DEF CandSvc, MarkLogsPrepared, MarkInstallInvoked, Install,
     MarkInstalled, MarkRootfsUnknown, MarkInstallFailed, Journal
<1>3. WorldTypeOK'
  BY <1>s, <1>2, WorldType
<1>4. \/ d.pc \in CheckPC /\ \E p \in CheckPC : d' = [d EXCEPT !.pc = p]
      \/ \E p \in PlainPC : d' = [d EXCEPT !.pc = p]
      \/ \E e \in ErrorKind : d' = start_fails(d, e)
  BY <1>c, <1>p DEF CandSvc, MarkLogsPrepared, MarkInstallInvoked, Install,
     MarkInstalled, MarkRootfsUnknown, MarkInstallFailed, Journal, goto
<1>5. Sound(d', handle')
  BY <1>s, <1>2, <1>4, CheckStep, GotoSound, StartFailsSound DEF worldVars
<1> QED BY <1>1, <1>3, <1>5 DEF Inv

-----------------------------------------------------------------------------
(* Dependencies *)

\* ensure_dependencies_running: the check removes a dependency from its list
\* only when it is owned, and drops the check when one is let go of.
LEMMA DependInv ==
    ASSUME Inv, Depend
    PROVE  Inv'
<1>s. StoreTypeOK /\ WorldTypeOK /\ d \in Control /\ d.deps \in Seq(Services)
      /\ d.cur \in Services
  BY DEF Inv, Sound, Control
<1>p. "deps" \in CheckPC /\ "deps" \in PC /\ "dep_schedule" \in PC
      /\ "deps" \notin LoopPC \cup SpawnPC
      /\ "dep_schedule" \notin LoopPC \cup CheckPC \cup SpawnPC
  BY DEF PC, LoopPC, CheckPC, SpawnPC
<1> DEFINE s == Head(d.deps)
<1>h. ASSUME d.deps # << >>
      PROVE  s \in Services /\ Tail(d.deps) \in Seq(Services)
             /\ ToSet(d.deps) \subseteq {s} \cup ToSet(Tail(d.deps))
  BY <1>s, <1>h, HeadTail
<1>f. Sound(deps_failed(d), handle')
  BY <1>s, DepsFailedSound
<1>1. CASE DepsDone
  <2>1. StoreTypeOK' /\ WorldTypeOK'
    BY <1>1, <1>s, StoreUnchanged, WorldType DEF DepsDone
  <2>2. handle' = handle
    BY <1>1 DEF DepsDone, worldVars
  <2>3. Sound(d', handle')
    BY <1>1, <2>2, DepsDoneSound DEF DepsDone, Inv
  <2> QED BY <2>1, <2>3 DEF Inv
<1>2. CASE DepAbsent
  <2>1. StoreTypeOK' /\ WorldTypeOK'
    BY <1>2, <1>s, StoreUnchanged, WorldType DEF DepAbsent
  <2> QED BY <1>2, <1>f, <2>1 DEF DepAbsent, Inv
<1>3. CASE DepValid
  <2>1. StoreTypeOK' /\ WorldTypeOK'
    BY <1>3, <1>s, StoreUnchanged, WorldType DEF DepValid
  <2>2. handle' = handle /\ d.deps # << >> /\ d.pc = "deps"
        /\ handle[s] = "owned" /\ d' = [d EXCEPT !.deps = Tail(d.deps)]
    BY <1>3 DEF DepValid, worldVars
  <2>3. /\ d' \in Control /\ d'.pc = "deps" /\ d'.cur = d.cur
        /\ d'.ret = d.ret /\ d'.deps = Tail(d.deps) /\ d'.todo = d.todo
    BY <1>s, <1>h, <2>2 DEF Control
  <2>4. Sound(d', handle')
    BY <1>p, <1>h, <2>2, <2>3 DEF Inv, Sound
  <2> QED BY <2>1, <2>4 DEF Inv
<1>4. CASE DepUnqualified
  <2>1. d.deps # << >> /\ quarantine(s) /\ d' = deps_failed(d)
    BY <1>4 DEF DepUnqualified
  <2> QED BY <1>s, <1>h, <1>f, <2>1, QuarantineType DEF Inv
<1>5. CASE DepExitAmbiguous
  <2>1. d.deps # << >> /\ let_go(s) /\ Ignoring(mark_runtime_unknown(s))
        /\ d' = deps_failed(d)
    BY <1>5 DEF DepExitAmbiguous
  <2> QED BY <1>s, <1>h, <1>f, <2>1, WorldType, TransactionType DEF Inv
<1>6. CASE DepExited
  <2>1. d.deps # << >> /\ let_go(s) /\ (record_exit(s) \/ UNCHANGED dbVars)
    BY <1>6 DEF DepExited, StoreFails
  <2>2. StoreTypeOK' /\ WorldTypeOK'
    BY <1>s, <1>h, <2>1, WorldType, SuperviseType, StoreUnchanged
  <2>3. d' = deps_failed(d) \/ d' = [d EXCEPT !.pc = "dep_schedule"]
    BY <1>6 DEF DepExited, goto
  <2>4. Sound([d EXCEPT !.pc = "dep_schedule"], handle')
    <3> DEFINE g == [d EXCEPT !.pc = "dep_schedule"]
    <3>1. g \in Control /\ g.pc = "dep_schedule" /\ g.deps = d.deps
      BY <1>s, <1>p DEF Control
    <3> HIDE DEF g
    <3>2. Sound(g, handle')
      BY <1>p, <2>1, <3>1 DEF Sound
    <3> QED BY <3>2 DEF g
  <2> QED BY <1>f, <2>2, <2>3, <2>4 DEF Inv
<1>7. CASE DepSchedule
  <2>1. d.deps # << >>
    BY <1>7 DEF DepSchedule, Inv, Sound
  <2>2. StoreTypeOK' /\ WorldTypeOK'
    BY <1>7, <1>s, <1>h, <2>1, TransactionType, WorldType DEF DepSchedule
  <2> QED BY <1>7, <1>f, <2>2 DEF DepSchedule, Inv
<1> QED BY <1>1, <1>2, <1>3, <1>4, <1>5, <1>6, <1>7 DEF Depend

-----------------------------------------------------------------------------
(* Starting one service *)

\* start_operation_child and spawn_and_qualify.
LEMMA StartOneInv ==
    ASSUME Inv, StartOne
    PROVE  Inv'
<1>s. StoreTypeOK /\ WorldTypeOK /\ d \in Control /\ d.cur \in Services
      /\ d.todo \in Seq(Services) /\ d.started \in Seq(Services)
  BY DEF Inv, Sound, Control
<1>p. {"journal", "contain", "qualify", "mark_running", "reschedule", "idle"}
        \subseteq PlainPC
      /\ {"start_invoke", "spawn"} \subseteq SpawnPC
      /\ {"store", "io", "identity", "prespawn", "uncertain", "session",
          "exited"} \subseteq ErrorKind
  BY DEF PlainPC, PC, LoopPC, CheckPC, SpawnPC, ErrorKind
<1> DEFINE Plain == \E p \in PlainPC : d' = [d EXCEPT !.pc = p]
           Fails == \E e \in ErrorKind : d' = start_fails(d, e)
<1>g. ASSUME Plain \/ Fails \/ d' = next_due(d) \/ d' = at("idle")
      PROVE  Sound(d', handle')
  BY <1>s, <1>p, <1>g, GotoSound, StartFailsSound, NextDueSound, AtSound
<1>1. CASE MarkStartInvoked
  <2>1. set_service_phase(d.cur, "start_invoked") \/ UNCHANGED dbVars
    BY <1>1 DEF MarkStartInvoked, StoreFails
  <2>2. StoreTypeOK' /\ WorldTypeOK'
    BY <1>1, <1>s, <2>1, StartType, StoreUnchanged, WorldType
       DEF MarkStartInvoked, Phase
  <2>3. d' = [d EXCEPT !.pc = "spawn"] \/ Fails
    BY <1>1, <1>p DEF MarkStartInvoked, goto
  <2>4. d.pc \in SpawnPC /\ UNCHANGED handle
    BY <1>1, <1>p DEF MarkStartInvoked, worldVars
  <2> QED BY <1>g, <1>p, <2>2, <2>3, <2>4, CheckStep DEF Inv
<1>2. CASE Spawn
  <2>1. StoreTypeOK'
    BY <1>2, <1>s, StoreUnchanged DEF Spawn
  <2>2. WorldTypeOK'
    BY <1>2, <1>s DEF Spawn, WorldTypeOK, Handle, Tracer
  <2>3. Plain
    BY <1>2, <1>p DEF Spawn, goto
  <2> QED BY <1>g, <2>1, <2>2, <2>3 DEF Inv
<1>3. CASE SpawnRefused
  <2>1. StoreTypeOK' /\ WorldTypeOK'
    BY <1>3, <1>s, StoreUnchanged, WorldType DEF SpawnRefused
  <2>2. Fails
    BY <1>3, <1>p DEF SpawnRefused
  <2> QED BY <1>g, <2>1, <2>2 DEF Inv
<1>4. CASE JournalChild
  <2>1. \/ mark_restart_starting(d.cur) \/ mark_starting(d.cur)
        \/ UNCHANGED dbVars
    BY <1>4 DEF JournalChild
  <2>2. StoreTypeOK'
    BY <1>s, <2>1, SuperviseType, StartType, StoreUnchanged
  <2>3. WorldTypeOK'
    BY <1>4, <1>s DEF JournalChild, WorldTypeOK, Handle
  <2>4. Plain
    BY <1>4, <1>p DEF JournalChild, goto
  <2> QED BY <1>g, <2>2, <2>3, <2>4 DEF Inv
<1>5. CASE Contain
  <2>1. StoreTypeOK'
    BY <1>5, <1>s, StoreUnchanged DEF Contain
  <2>2. \/ let_go(d.cur) \/ drained(d.cur)
        \/ /\ handle' = [handle EXCEPT ![d.cur] = "uncertain"]
           /\ UNCHANGED <<tracer, guest, orphan>>
    BY <1>5 DEF Contain
  <2>3. WorldTypeOK'
    BY <1>s, <2>2, WorldType DEF WorldTypeOK, Handle
  <2>4. Fails
    BY <1>5, <1>p DEF Contain
  <2> QED BY <1>g, <2>1, <2>3, <2>4 DEF Inv
<1>6. CASE Qualify
  <2>1. StoreTypeOK' /\ WorldTypeOK'
    BY <1>6, <1>s, StoreUnchanged, WorldType DEF Qualify
  <2>2. Plain
    BY <1>6, <1>p DEF Qualify, goto
  <2> QED BY <1>g, <2>1, <2>2 DEF Inv
<1>7. CASE QualifyFails
  <2>1. quarantine(d.cur) /\ Fails
    BY <1>7, <1>p DEF QualifyFails
  <2> QED BY <1>s, <1>g, <2>1, QuarantineType DEF Inv
<1>8. CASE QualifyExited
  <2>1. \/ Ignoring(mark_runtime_unknown(d.cur)) \/ record_exit(d.cur)
        \/ UNCHANGED dbVars
    BY <1>8 DEF QualifyExited, StoreFails
  <2>2. StoreTypeOK' /\ WorldTypeOK'
    BY <1>8, <1>s, <2>1, TransactionType, SuperviseType, StoreUnchanged,
       WorldType DEF QualifyExited
  <2>3. Plain \/ Fails \/ d' = next_due(d)
    BY <1>8, <1>p DEF QualifyExited
  <2> QED BY <1>g, <2>2, <2>3 DEF Inv
<1>9. CASE MarkRunning
  <2> DEFINE c == [d EXCEPT !.started = Append(d.started, d.cur)]
  <2>1. CASE "store" \in Faults /\ quarantine(d.cur)
             /\ d' = start_fails(d, "store")
    BY <1>s, <1>g, <1>p, <2>1, QuarantineType DEF Inv
  <2>2. CASE /\ UNCHANGED worldVars
             /\ \/ mark_restart_running(d.cur) /\ d' = next_due(d)
                \/ mark_running(d.cur) /\ d' = start_next(c, d.todo)
    <3>1. StoreTypeOK' /\ WorldTypeOK'
      BY <1>s, <2>2, SuperviseType, StartType, WorldType
    <3>2. Append(d.started, d.cur) \in Seq(Services)
      BY <1>s
    <3>3. c \in Control
      BY <1>s, <3>2 DEF Control
    <3> HIDE DEF c
    <3> QED BY <1>s, <1>g, <2>2, <3>1, <3>3, StartNextSound DEF Inv
  <2> QED BY <1>9, <2>1, <2>2 DEF MarkRunning
<1>10. CASE Finish
  <2>1. commit_up \/ finish_start_current \/ UNCHANGED dbVars
    BY <1>10 DEF Finish, StoreFails
  <2>2. StoreTypeOK' /\ WorldTypeOK'
    BY <1>10, <1>s, <2>1, CandidateType, CurrentType, StoreUnchanged, WorldType
       DEF Finish
  <2>3. Fails \/ d' = at("idle")
    BY <1>10, <1>p DEF Finish, return
  <2> QED BY <1>g, <2>2, <2>3 DEF Inv
<1> QED BY <1>1, <1>2, <1>3, <1>4, <1>5, <1>6, <1>7, <1>8, <1>9, <1>10
       DEF StartOne

-----------------------------------------------------------------------------
(* A failed start *)

\* At a loop position the work list is not empty and its head is a service.
LEMMA LoopHead ==
    ASSUME Inv, d.pc \in LoopPC
    PROVE  /\ d.todo \in Seq(Services)
           /\ Head(d.todo) \in Services
           /\ Tail(d.todo) \in Seq(Services)
           /\ Reverse(Tail(d.todo)) \in Seq(Services)
<1>1. d.todo # << >> /\ d.todo \in Seq(Services)
  BY DEF Inv, Sound, Control
<1>2. Head(d.todo) \in Services /\ Tail(d.todo) \in Seq(Services)
  BY <1>1, HeadTail
<1> QED BY <1>1, <1>2, ReverseType

\* A step from one loop position to another keeps the work list.
LEMMA LoopStep ==
    ASSUME Inv, d.todo # << >>, NEW p \in LoopPC, d' = [d EXCEPT !.pc = p]
    PROVE  Sound(d', handle')
<1>1. LoopPC \subseteq PC
      /\ LoopPC \cap (CheckPC \cup SpawnPC \cup {"dep_schedule"}) = {}
  BY DEF PC, CheckPC, SpawnPC, LoopPC
<1>2. d' \in Control /\ d'.pc = p /\ d'.todo = d.todo
  BY <1>1 DEF Inv, Sound, Control
<1> QED BY <1>1, <1>2 DEF Inv, Sound

\* abort_start_operation and abort_restart_operation.
LEMMA AbortInv ==
    ASSUME Inv, AbortStart
    PROVE  Inv'
<1>s. StoreTypeOK /\ WorldTypeOK /\ d \in Control /\ d.cur \in Services
      /\ d.order \in Seq(Services) /\ d.err \in ErrorKind
  BY DEF Inv, Sound, Control
<1>p. {"abort_others", "cleanup", "cleanup_exit", "cleanup_mark", "survivors"}
        \subseteq LoopPC
      /\ {"idle", "dead", "shutdown"} \subseteq PlainPC
      /\ PlainPC \subseteq PC /\ LoopPC \subseteq PC
      /\ LoopPC \cap (CheckPC \cup SpawnPC \cup {"dep_schedule"}) = {}
  BY DEF LoopPC, PlainPC, PC, CheckPC, SpawnPC
<1>a. \A e : ambiguous(e) \in BOOLEAN
  BY DEF ambiguous
<1>1. CASE Abort
  <2>1. StoreTypeOK' /\ WorldTypeOK'
    BY <1>1, <1>s, <1>a, TransactionType, WorldType DEF Abort
  <2>2. <<d.cur>> \in Seq(Services)
    BY <1>s
  <2>3. Sound(d', handle')
    BY <1>1, <1>s, <2>2, EmptyType, AbortSound DEF Abort
  <2> QED BY <2>1, <2>3 DEF Inv
<1>2. CASE AbortOthers
  <2>0. d.pc \in LoopPC
    BY <1>2, <1>p DEF AbortOthers
  <2>1. record_failure(Head(d.todo), FALSE) \/ UNCHANGED dbVars
    BY <1>2 DEF AbortOthers
  <2>2. StoreTypeOK' /\ WorldTypeOK'
    BY <1>2, <1>s, <2>0, <2>1, LoopHead, TransactionType, StoreUnchanged,
       WorldType DEF AbortOthers
  <2>3. Sound(d', handle')
    BY <1>2, <1>s, <2>0, LoopHead, AbortSound DEF AbortOthers
  <2> QED BY <2>2, <2>3 DEF Inv
<1>3. CASE Cleanup
  <2>0. d.pc \in LoopPC /\ d.todo # << >>
    BY <1>3, <1>p DEF Cleanup, Inv, Sound
  <2>h. Head(d.todo) \in Services
    BY <2>0, LoopHead
  <2>1. CASE stop_owned_child(Head(d.todo)) /\ goto("cleanup_exit")
             /\ UNCHANGED dbVars
    <3>1. StoreTypeOK' /\ WorldTypeOK'
      BY <1>s, <2>h, <2>1, StoreUnchanged, WorldType DEF stop_owned_child
    <3>2. Sound(d', handle')
      BY <1>p, <2>0, <2>1, LoopStep DEF goto
    <3> QED BY <3>1, <3>2 DEF Inv
  <2>2. ASSUME NEW e \in stop_errors(Head(d.todo)),
               quarantine_if_owned(Head(d.todo)),
               d' = [d EXCEPT !.pc = "cleanup_mark", !.err = e]
        PROVE  Inv'
    <3>1. StoreTypeOK' /\ WorldTypeOK'
      BY <1>s, <2>h, <2>2, QuarantineType
    <3>2. e \in ErrorKind
      BY <2>2 DEF stop_errors, ErrorKind
    <3>3. d' \in Control /\ d'.pc = "cleanup_mark" /\ d'.todo = d.todo
      BY <1>s, <1>p, <2>2, <3>2 DEF Control
    <3> QED BY <1>p, <2>0, <3>1, <3>3 DEF Inv, Sound
  <2> QED BY <1>3, <2>1, <2>2 DEF Cleanup
<1>4. CASE CleanupExit
  <2>0. d.pc \in LoopPC
    BY <1>4, <1>p DEF CleanupExit
  <2>1. \/ record_exit(Head(d.todo)) \/ Ignoring(mark_runtime_unknown(Head(d.todo)))
    BY <1>4 DEF CleanupExit
  <2>2. StoreTypeOK' /\ WorldTypeOK'
    BY <1>4, <1>s, <2>0, <2>1, LoopHead, SuperviseType, TransactionType,
       WorldType DEF CleanupExit
  <2>3. Sound(d', handle')
    BY <1>4, <1>s, <2>0, LoopHead, AbortSound DEF CleanupExit
  <2> QED BY <2>2, <2>3 DEF Inv
<1>5. CASE CleanupMark
  <2>0. d.pc \in LoopPC
    BY <1>5, <1>p DEF CleanupMark
  <2>1. StoreTypeOK' /\ WorldTypeOK'
    BY <1>5, <1>s, <1>a, <2>0, LoopHead, TransactionType, WorldType
       DEF CleanupMark
  <2>2. Sound(d', handle')
    BY <1>5, <1>s, <2>0, LoopHead, AbortSound DEF CleanupMark
  <2> QED BY <2>1, <2>2 DEF Inv
<1>6. CASE Survivors
  <2>0. d.pc \in LoopPC
    BY <1>6, <1>p DEF Survivors
  <2>1. StoreTypeOK' /\ WorldTypeOK'
    BY <1>6, <1>s, <2>0, LoopHead, QuarantineType DEF Survivors
  <2>2. Sound(d', handle')
    BY <1>6, <1>s, <2>0, LoopHead, AbortSound DEF Survivors
  <2> QED BY <2>1, <2>2 DEF Inv
<1>7. CASE Finalize
  <2>1. finalize_operation_failure \/ UNCHANGED dbVars
    BY <1>7 DEF Finalize, StoreFails
  <2>2. StoreTypeOK' /\ WorldTypeOK'
    BY <1>7, <1>s, <2>1, FailureType, StoreUnchanged, WorldType DEF Finalize
  <2>3. d' = at("idle") \/ d' = at("dead") \/ begin_shutdown(FALSE)
    BY <1>7 DEF Finalize, return
  <2>4. Sound(d', handle')
    BY <1>p, <2>3, AtSound, ShutdownSound
  <2> QED BY <2>2, <2>4 DEF Inv
<1> QED BY <1>1, <1>2, <1>3, <1>4, <1>5, <1>6, <1>7 DEF AbortStart

-----------------------------------------------------------------------------
(* down, restart and shutdown *)

\* down.
LEMMA DownInv ==
    ASSUME Inv,
           \/ DownBegin \/ DownSvc \/ DownStop \/ DownStopped \/ DownFinish
           \/ DownQuarantine \/ DownFinal
    PROVE  Inv'
<1>s. StoreTypeOK /\ WorldTypeOK /\ d \in Control /\ d.cur \in Services
      /\ d.todo \in Seq(Services)
  BY DEF Inv, Sound, Control
<1>p. {"down_stop", "down_stopped"} \subseteq LoopPC
      /\ {"down_svc", "down_quarantine", "down_final", "idle"} \subseteq PlainPC
      /\ PlainPC \subseteq PC
  BY DEF LoopPC, PlainPC, PC, CheckPC, SpawnPC
<1>i. Sound(at("idle"), handle')
  BY <1>p, AtSound
<1>t. ASSUME NEW q \in Seq(Services)
      PROVE  Sound([d EXCEPT !.pc = "down_svc", !.todo = q], handle')
  <2> DEFINE g == [d EXCEPT !.pc = "down_svc", !.todo = q]
  <2>1. g \in Control /\ g.pc = "down_svc"
    BY <1>s, <1>p DEF Control
  <2> HIDE DEF g
  <2>2. Sound(g, handle')
    BY <1>p, <2>1, PlainSound
  <2> QED BY <2>2 DEF g
<1>1. CASE DownBegin
  <2>1. begin_down \/ UNCHANGED dbVars
    BY <1>1 DEF DownBegin, StoreFails
  <2>2. StoreTypeOK' /\ WorldTypeOK'
    BY <1>1, <1>s, <2>1, DownType, StoreUnchanged, WorldType DEF DownBegin
  <2>3. StopOrder(committed) \in Seq(Services)
    BY StopOrderType DEF committed
  <2>4. \/ d' = [d EXCEPT !.pc = "down_svc", !.todo = StopOrder(committed)]
        \/ goto("down_quarantine") \/ d' = at("idle")
    BY <1>1 DEF DownBegin, return
  <2>5. goto("down_quarantine") => Sound(d', handle')
    BY <1>s, <1>p, GotoSound DEF goto
  <2>6. Sound(d', handle')
    BY <1>i, <1>t, <2>3, <2>4, <2>5
  <2> QED BY <2>2, <2>6 DEF Inv
<1>2. CASE DownSvc
  <2>0. d.todo # << >> /\ d.pc = "down_svc"
    BY <1>2 DEF DownSvc
  <2>h. Head(d.todo) \in Services /\ Tail(d.todo) \in Seq(Services)
    BY <1>s, <2>0, HeadTail
  <2>1. set_service_phase(Head(d.todo), "stop_invoked") \/ UNCHANGED dbVars
    BY <1>2 DEF DownSvc, StoreFails
  <2>2. StoreTypeOK' /\ WorldTypeOK'
    BY <1>2, <1>s, <2>h, <2>1, StartType, StoreUnchanged, WorldType
       DEF DownSvc, Phase
  <2>3. \/ d' = [d EXCEPT !.pc = "down_stop"]
        \/ d' = [d EXCEPT !.pc = "down_quarantine"]
        \/ d' = [d EXCEPT !.todo = Tail(d.todo)]
    BY <1>2 DEF DownSvc, goto
  <2>4. CASE d' = [d EXCEPT !.todo = Tail(d.todo)]
    <3>1. d' \in Control /\ d'.pc = "down_svc"
      BY <1>s, <2>0, <2>h, <2>4 DEF Control
    <3> QED BY <1>p, <2>2, <3>1, PlainSound DEF Inv
  <2>5. CASE \/ d' = [d EXCEPT !.pc = "down_stop"]
             \/ d' = [d EXCEPT !.pc = "down_quarantine"]
    BY <1>s, <1>p, <2>0, <2>2, <2>5, LoopStep, GotoSound DEF Inv
  <2> QED BY <2>3, <2>4, <2>5
<1>3. CASE DownStop
  <2>0. d.pc \in LoopPC /\ d.todo # << >>
    BY <1>3, <1>p DEF DownStop, Inv, Sound
  <2>1. StoreTypeOK' /\ WorldTypeOK'
    BY <1>3, <1>s, <2>0, LoopHead, StoreUnchanged, WorldType
       DEF DownStop, stop_owned_child
  <2>2. Sound(d', handle')
    BY <1>3, <1>s, <1>p, <2>0, LoopStep, GotoSound DEF DownStop, goto
  <2> QED BY <2>1, <2>2 DEF Inv
<1>4. CASE DownStopped
  <2>0. d.pc \in LoopPC
    BY <1>4, <1>p DEF DownStopped
  <2>1. mark_stopped(Head(d.todo)) \/ UNCHANGED dbVars
    BY <1>4 DEF DownStopped, StoreFails
  <2>2. StoreTypeOK' /\ WorldTypeOK'
    BY <1>4, <1>s, <2>0, <2>1, LoopHead, DownType, StoreUnchanged, WorldType
       DEF DownStopped
  <2>3. Sound(d', handle')
    <3>1. \/ d' = [d EXCEPT !.pc = "down_svc", !.todo = Tail(d.todo)]
          \/ d' = [d EXCEPT !.pc = "down_quarantine"]
      BY <1>4 DEF DownStopped, goto
    <3>2. CASE d' = [d EXCEPT !.pc = "down_svc", !.todo = Tail(d.todo)]
      BY <1>p, <1>t, <2>0, <3>2, LoopHead
    <3>3. CASE d' = [d EXCEPT !.pc = "down_quarantine"]
      BY <1>s, <1>p, <3>3, GotoSound
    <3> QED BY <3>1, <3>2, <3>3
  <2> QED BY <2>2, <2>3 DEF Inv
<1>5. CASE DownFinish
  <2>1. finish_down \/ UNCHANGED dbVars
    BY <1>5 DEF DownFinish, StoreFails
  <2>2. StoreTypeOK' /\ WorldTypeOK'
    BY <1>5, <1>s, <2>1, DownType, StoreUnchanged, WorldType DEF DownFinish
  <2>3. Sound(d', handle')
    BY <1>5, <1>s, <1>p, <1>i, GotoSound DEF DownFinish, goto, return
  <2> QED BY <2>2, <2>3 DEF Inv
<1>6. CASE DownQuarantine
  <2>1. ASSUME NEW s \in Services, quarantine(s), UNCHANGED d,
               d.pc = "down_quarantine"
        PROVE  Inv'
    BY <1>s, <1>p, <2>1, QuarantineType, PlainSound DEF Inv
  <2>2. CASE goto("down_final") /\ UNCHANGED <<dbVars, worldVars>>
    BY <1>s, <1>p, <2>2, StoreUnchanged, WorldType, GotoSound DEF goto, Inv
  <2> QED BY <1>6, <2>1, <2>2 DEF DownQuarantine
<1>7. CASE DownFinal
  <2>1. finalize_down_failure \/ UNCHANGED dbVars
    BY <1>7 DEF DownFinal, StoreFails
  <2>2. StoreTypeOK' /\ WorldTypeOK'
    BY <1>7, <1>s, <2>1, DownType, StoreUnchanged, WorldType DEF DownFinal
  <2> QED BY <1>7, <1>i, <2>2 DEF DownFinal, return, Inv
<1> QED BY <1>1, <1>2, <1>3, <1>4, <1>5, <1>6, <1>7

\* restart, up to the proof that the old session is gone.
LEMMA RestartInv ==
    ASSUME Inv,
           \/ Restart \/ RestartBegin \/ RestartStopInvoke \/ RestartStop
           \/ RestartStopped
    PROVE  Inv'
<1>s. StoreTypeOK /\ WorldTypeOK /\ d \in Control /\ d.cur \in Services
  BY DEF Inv, Sound, Control
<1>p. {"restart_stop_invoke", "restart_stop", "restart_stopped", "idle",
       "abort"} \subseteq PlainPC
      /\ PlainPC \subseteq PC /\ "deps" \in PC /\ "store" \in ErrorKind
      /\ "deps" \notin LoopPC \cup SpawnPC
  BY DEF PlainPC, PC, LoopPC, CheckPC, SpawnPC, ErrorKind
<1>i. Sound(at("idle"), handle')
  BY <1>p, AtSound
<1>1. CASE Restart
  <2>1. StoreTypeOK' /\ WorldTypeOK'
    BY <1>1, <1>s, StoreUnchanged, WorldType DEF Restart
  <2> DEFINE g == [d EXCEPT !.pc = "deps", !.ret = "pre_restart",
                            !.deps = DependsOn[d.cur]]
  <2>2. DependsOn[d.cur] \in Seq(Services)
    BY <1>s, DependsOnAssumption
  <2>3. g \in Control /\ g.pc = "deps" /\ g.ret = "pre_restart"
    BY <1>s, <1>p, <2>2 DEF Control
  <2>4. d' = g \/ d' = at("idle")
    BY <1>1 DEF Restart
  <2> HIDE DEF g
  <2>5. Sound(g, handle')
    BY <1>p, <2>3 DEF Sound
  <2> QED BY <1>i, <2>1, <2>4, <2>5 DEF Inv
<1>2. CASE RestartBegin
  <2>1. begin_restart(d.cur) \/ UNCHANGED dbVars
    BY <1>2 DEF RestartBegin, StoreFails
  <2>2. StoreTypeOK' /\ WorldTypeOK'
    BY <1>2, <1>s, <2>1, RestartType, StoreUnchanged, WorldType
       DEF RestartBegin
  <2>3. Sound(d', handle')
    BY <1>2, <1>s, <1>p, <1>i, GotoSound DEF RestartBegin, goto, return
  <2> QED BY <2>2, <2>3 DEF Inv
<1>3. CASE RestartStopInvoke
  <2>1. mark_restart_stop_invoked(d.cur) \/ UNCHANGED dbVars
    BY <1>3 DEF RestartStopInvoke, Journal, StoreFails
  <2>2. StoreTypeOK' /\ WorldTypeOK'
    BY <1>3, <1>s, <2>1, RestartType, StoreUnchanged, WorldType
       DEF RestartStopInvoke, Journal
  <2>3. Sound(d', handle')
    BY <1>3, <1>s, <1>p, GotoSound, StartFailsSound
       DEF RestartStopInvoke, Journal, goto
  <2> QED BY <2>2, <2>3 DEF Inv
<1>4. CASE RestartStop
  <2>1. StoreTypeOK' /\ WorldTypeOK'
    BY <1>4, <1>s, StoreUnchanged, WorldType DEF RestartStop, stop_owned_child
  <2>2. stop_errors(d.cur) \subseteq ErrorKind
    BY DEF stop_errors, ErrorKind
  <2>3. Sound(d', handle')
    BY <1>4, <1>s, <1>p, <2>2, GotoSound, StartFailsSound DEF RestartStop, goto
  <2> QED BY <2>1, <2>3 DEF Inv
<1>5. CASE RestartStopped
  <2>1. mark_restart_stopped(d.cur) \/ UNCHANGED dbVars
    BY <1>5 DEF RestartStopped, StoreFails
  <2>2. StoreTypeOK' /\ WorldTypeOK'
    BY <1>5, <1>s, <2>1, RestartType, StoreUnchanged, WorldType
       DEF RestartStopped
  <2> DEFINE n == start_next(d, <<d.cur>>)
             e == [n EXCEPT !.pc = "abort", !.err = "store"]
  <2>3. d' = n \/ d' = e \/ d' = start_fails(d, "store")
    BY <1>5 DEF RestartStopped, begin_starting
  <2>4. <<d.cur>> \in Seq(Services)
    BY <1>s
  <2>5. n \in Control /\ Sound(n, handle')
    BY <1>s, <2>4, StartNextSound
  <2> HIDE DEF n
  <2>6. e \in Control /\ e.pc = "abort"
    BY <1>p, <2>5 DEF Control
  <2> HIDE DEF e
  <2>7. Sound(d', handle')
    BY <1>s, <1>p, <2>3, <2>5, <2>6, PlainSound, StartFailsSound
  <2> QED BY <2>2, <2>7 DEF Inv
<1> QED BY <1>1, <1>2, <1>3, <1>4, <1>5

\* shutdown, and the pass that Drop adds.
LEMMA ShutdownInv ==
    ASSUME Inv,
           \/ SigTerm \/ ShutdownAbsent \/ ShutdownStop \/ ShutdownRecord
           \/ ShutdownEnd
    PROVE  Inv'
<1>s. StoreTypeOK /\ WorldTypeOK /\ d \in Control /\ d.cur \in Services
      /\ d.todo \in Seq(Services)
  BY DEF Inv, Sound, Control
<1>p. {"shutdown", "shutdown_end", "dead"} \subseteq PlainPC
      /\ PlainPC \subseteq PC /\ "shutdown_record" \in LoopPC
      /\ "store" \in ErrorKind
  BY DEF PlainPC, PC, LoopPC, CheckPC, SpawnPC, ErrorKind
<1>d. Sound(at("dead"), handle')
  BY <1>p, AtSound
<1>n. ASSUME shutdown_next, d.todo # << >>
      PROVE  Sound(d', handle')
  <2>1. Tail(d.todo) \in Seq(Services)
    BY <1>s, <1>n, HeadTail
  <2>2. d' \in Control /\ d'.pc = "shutdown"
    BY <1>s, <1>p, <1>n, <2>1 DEF shutdown_next, Control
  <2> QED BY <1>p, <2>2, PlainSound
<1>1. ASSUME SigTerm \/ ShutdownEnd PROVE Inv'
  <2>1. StoreTypeOK' /\ WorldTypeOK'
    BY <1>1, <1>s, StoreUnchanged, WorldType DEF SigTerm, ShutdownEnd
  <2>2. d' = at("dead") \/ \E again \in BOOLEAN : begin_shutdown(again)
    BY <1>1 DEF SigTerm, ShutdownEnd, process_ends
  <2> QED BY <1>d, <2>1, <2>2, ShutdownSound DEF Inv
<1>2. CASE ShutdownAbsent
  <2>0. d.todo # << >>
    BY <1>2 DEF ShutdownAbsent
  <2>h. Head(d.todo) \in Services
    BY <1>s, <2>0, HeadTail
  <2>1. \/ Ignoring(mark_runtime_unknown(Head(d.todo)))
        \/ record_graceful_backoff_stop(Head(d.todo))
        \/ UNCHANGED dbVars
    BY <1>2 DEF ShutdownAbsent
  <2>2. StoreTypeOK' /\ WorldTypeOK'
    BY <1>2, <1>s, <2>h, <2>1, TransactionType, SuperviseType, StoreUnchanged,
       WorldType DEF ShutdownAbsent
  <2>3. d' = [d EXCEPT !.pc = "shutdown_end"] \/ shutdown_next
    BY <1>2 DEF ShutdownAbsent, goto
  <2>4. Sound(d', handle')
    BY <1>s, <1>p, <1>n, <2>0, <2>3, GotoSound
  <2> QED BY <2>2, <2>4 DEF Inv
<1>3. CASE ShutdownStop
  <2>0. d.todo # << >>
    BY <1>3 DEF ShutdownStop
  <2>h. Head(d.todo) \in Services
    BY <1>s, <2>0, HeadTail
  <2>1. CASE stop_owned_child(Head(d.todo)) /\ UNCHANGED dbVars
             /\ goto("shutdown_record")
    BY <1>s, <1>p, <2>0, <2>h, <2>1, StoreUnchanged, WorldType, LoopStep
       DEF stop_owned_child, goto, Inv
  <2>2. CASE quarantine(Head(d.todo)) /\ goto("shutdown_end")
    BY <1>s, <1>p, <2>h, <2>2, QuarantineType, GotoSound DEF goto, Inv
  <2> QED BY <1>3, <2>1, <2>2 DEF ShutdownStop
<1>4. CASE ShutdownRecord
  <2>0. d.pc \in LoopPC /\ d.todo # << >>
    BY <1>4, <1>p DEF ShutdownRecord, Inv, Sound
  <2>1. \/ Ignoring(mark_runtime_unknown(Head(d.todo)))
        \/ record_graceful_stop(Head(d.todo))
    BY <1>4 DEF ShutdownRecord
  <2>2. StoreTypeOK' /\ WorldTypeOK'
    BY <1>4, <1>s, <2>0, <2>1, LoopHead, TransactionType, SuperviseType,
       WorldType DEF ShutdownRecord
  <2>3. d' = [d EXCEPT !.pc = "shutdown_end"] \/ shutdown_next
    BY <1>4 DEF ShutdownRecord, goto
  <2>4. Sound(d', handle')
    BY <1>s, <1>p, <1>n, <2>0, <2>3, GotoSound
  <2> QED BY <2>2, <2>4 DEF Inv
<1> QED BY <1>1, <1>2, <1>3, <1>4

-----------------------------------------------------------------------------
(* The theorems *)

\* Every step of the daemon and of its environment keeps the invariant.
LEMMA NextInv == Inv /\ [Next]_vars => Inv'
<1> SUFFICES ASSUME Inv, [Next]_vars PROVE Inv'
  OBVIOUS
<1>1. CASE DaemonStep
  BY <1>1, LifetimeInv, TickInv, DueInv, UpInv, InstallInv, DependInv,
     StartOneInv, AbortInv, DownInv, RestartInv, ShutdownInv
     DEF DaemonStep, Supervise, Prepare, Stop
<1>2. CASE Environment
  BY <1>2, LifetimeInv, ShutdownInv, EnvironmentInv DEF Environment
<1>3. CASE UNCHANGED vars
  BY <1>3 DEF vars, Inv, StoreTypeOK, WorldTypeOK
<1> QED BY <1>1, <1>2, <1>3 DEF Next

\* The control state of a daemon is sound in every reachable state.
THEOREM Invariance == Spec => []Inv
BY InitInv, NextInv, PTL DEF Spec

\* Whatever requests, exits, failures and crashes occur, the journal's rows
\* stay within the schema's states and phases, the restart counter within
\* MAX_RESTART_ATTEMPTS, and the daemon's loops within their work lists.
THEOREM TypeCorrect == Spec => []TypeOK
<1>1. Inv => TypeOK
  BY DEF Inv, WorldTypeOK, Sound, TypeOK
<1> QED BY <1>1, Invariance, PTL

-----------------------------------------------------------------------------
(* Dependencies first *)

\* No service gains a fresh child.
NoFreshChild == \A s \in Services : handle'[s] = "fresh" => handle[s] = "fresh"

\* What the steps of the daemon do to the handles, other than a spawn.
LEMMA KeepsHandles ==
    ASSUME WorldTypeOK,
           \/ UNCHANGED handle \/ UNCHANGED worldVars
           \/ \E u : let_go(u) \/ drained(u) \/ stop_owned_child(u)
           \/ \E u : quarantine(u) \/ quarantine_if_owned(u)
           \/ \E u, v : v \in {"owned", "uncertain"}
                       /\ handle' = [handle EXCEPT ![u] = v]
           \/ process_ends \/ TickUncertain
    PROVE  NoFreshChild
BY DEF WorldTypeOK, NoFreshChild, worldVars, let_go, drained, stop_owned_child,
   quarantine, quarantine_if_owned, process_ends, TickUncertain

\* Spawn is the only step that gives a service a fresh child.
LEMMA OnlySpawn ==
    ASSUME Inv, Next
    PROVE  Spawn \/ NoFreshChild
<1>w. WorldTypeOK
  BY DEF Inv
<1>1. CASE Supervise
  BY <1>1, <1>w, KeepsHandles DEF Supervise, TickChild, TickSchedule, TickDue,
     Due, RestartInvoke, Restore, Reschedule, DueUnknown
<1>2. CASE Prepare
  BY <1>2, <1>w, KeepsHandles DEF Prepare, Up, UpCheck, UpConverge,
     BeginCurrent, CandBegin, CandSvc, MarkLogsPrepared, MarkInstallInvoked,
     Install, MarkInstalled, MarkRootfsUnknown, MarkInstallFailed, Journal
<1>3. CASE Depend
  BY <1>3, <1>w, KeepsHandles DEF Depend, DepsDone, DepAbsent, DepValid,
     DepUnqualified, DepExitAmbiguous, DepExited, DepSchedule
<1>4. CASE StartOne
  BY <1>4, <1>w, KeepsHandles DEF StartOne, MarkStartInvoked, SpawnRefused,
     JournalChild, Contain, Qualify, QualifyFails, QualifyExited, MarkRunning,
     Finish
<1>5. CASE AbortStart
  BY <1>5, <1>w, KeepsHandles DEF AbortStart, Abort, AbortOthers, Cleanup,
     CleanupExit, CleanupMark, Survivors, Finalize
<1>6. CASE Stop
  BY <1>6, <1>w, KeepsHandles DEF Stop, DownBegin, DownSvc, DownStop,
     DownStopped, DownFinish, DownQuarantine, DownFinal, Restart, RestartBegin,
     RestartStopInvoke, Journal, RestartStop, RestartStopped, ShutdownAbsent,
     ShutdownStop, ShutdownRecord, ShutdownEnd
<1>7. CASE Reconcile \/ Resume \/ Environment
  BY <1>7, <1>w, KeepsHandles DEF Reconcile, Resume, Environment, Boot, Accept,
     SigTerm, Crash, TracerExits, TreeEnds
<1> QED BY <1>1, <1>2, <1>3, <1>4, <1>5, <1>6, <1>7 DEF Next, DaemonStep

\* spawn_and_qualify is reached only with every dependency owned: nothing
\* the daemon does between ensure_dependencies_running and the spawn lets
\* go of a handle, and no fault changes one.
THEOREM DependenciesFirst == Spec => SpawnAfterDependencies
<1> DEFINE A == \A s \in Services :
                  handle[s] = "none" /\ handle'[s] = "fresh"
                    => \A t \in ToSet(DependsOn[s]) : handle[t] = "owned"
<1>1. Inv /\ [Next]_vars => [A]_vars
  <2> SUFFICES ASSUME Inv, Next PROVE A
    OBVIOUS
  <2> SUFFICES ASSUME NEW s \in Services, handle[s] = "none",
                      handle'[s] = "fresh", NEW t \in ToSet(DependsOn[s])
               PROVE  handle[t] = "owned"
    OBVIOUS
  <2>1. Spawn
    BY OnlySpawn DEF NoFreshChild
  <2>2. handle \in [Services -> Handle] /\ d.cur \in Services
    BY DEF Inv, WorldTypeOK, Sound, Control
  <2>3. s = d.cur /\ d.pc = "spawn"
    BY <2>1, <2>2 DEF Spawn
  <2> QED BY <2>3 DEF Inv, Sound, SpawnPC
<1>2. Spec => [][A]_vars
  BY <1>1, Invariance, PTL DEF Spec
<1> QED BY <1>2 DEF SpawnAfterDependencies

-----------------------------------------------------------------------------
(***************************************************************************)
(* RestartDeadlineSound, for every stack, restart limit and set of faults. *)
(*                                                                         *)
(* A deadline is written by two transactions only, long after the daemon   *)
(* saw the child exit or decided to spawn; the invariant below carries     *)
(* from there to the write that nothing is held for the service, and from  *)
(* the write to the next spawn that the deadline is taken back first.  It  *)
(* builds on Inv, which types the state.                                   *)
(***************************************************************************)

\* A deadline, or the restart it was for, has been counted.
Counted(r) == r.backoff \/ r.phase = "restart_invoked" => r.attempts >= 1

\* From the intent of a start to its result.
BirthPC == {"spawn", "journal", "contain", "qualify", "mark_running"}

\* Where the invariant depends on the position c of the daemon.
WatchedPC == BirthPC \cup CheckPC \cup SpawnPC \cup
             {"tick_schedule", "dep_schedule", "reschedule", "restore"}

Watched(c, rows, h) ==
    /\ c.pc \in BirthPC => ~proven_backoff(rows[c.cur])
    /\ c.pc = "tick_schedule" => h[Head(c.todo)] = "none"
    /\ c.pc = "dep_schedule" => h[Head(c.deps)] = "none"
    /\ c.pc \in {"reschedule", "restore"} => h[c.cur] = "none"
    /\ c.pc \in CheckPC \cup SpawnPC /\ c.ret = "due" => h[c.cur] = "none"

Rows(rows, h) ==
    \A s \in Services : /\ Counted(rows[s])
                        /\ proven_backoff(rows[s]) => h[s] = "none"

DInv == Inv /\ Rows(svc, handle) /\ Watched(d, svc, handle)

-----------------------------------------------------------------------------
(* The transactions *)

\* No deadline becomes pending, and what was counted stays counted.
TameRow(r, q) ==
    /\ Counted(r) => Counted(q)
    /\ proven_backoff(q) => proven_backoff(r)

Tame == \A s \in Services : TameRow(svc[s], svc'[s])

\* A transaction that leaves the services table alone sets no deadline.
LEMMA SameRows ==
    ASSUME UNCHANGED svc
    PROVE  Tame
BY DEF Tame, TameRow

\* Neither does one that writes a row of the kind TameRow describes.
LEMMA WriteTame ==
    ASSUME StoreTypeOK, NEW s \in Services, NEW r,
           svc' = [svc EXCEPT ![s] = r], TameRow(svc[s], r)
    PROVE  Tame
BY DEF Tame, TameRow, StoreTypeOK

\* A row whose phase is not the one of a deadline or of a due restart, and
\* whose deadline is not set by this write.
LEMMA PhaseTame ==
    ASSUME NEW r \in ServiceRow, NEW q \in ServiceRow,
           q.phase \notin {"backoff", "restart_invoked"},
           q.backoff => r.backoff /\ q.attempts = r.attempts
    PROVE  TameRow(r, q)
BY DEF TameRow, Counted, proven_backoff

\* The transactions of the starting operations.
LEMMA StartTame ==
    ASSUME StoreTypeOK, NEW s \in Services,
           \/ \E p \in {"start_invoked", "stop_invoked", "logs_prepared",
                        "install_invoked"} : set_service_phase(s, p)
           \/ mark_installed(s) \/ mark_rootfs_unknown(s)
           \/ mark_starting(s) \/ mark_running(s)
           \/ \E unknown \in BOOLEAN : mark_service_failed(s, unknown)
    PROVE  Tame
<1>0. svc[s] \in ServiceRow
  BY DEF StoreTypeOK
<1>a. ASSUME NEW q \in ServiceRow, svc' = [svc EXCEPT ![s] = q],
             q.phase \notin {"backoff", "restart_invoked"},
             q.backoff => svc[s].backoff /\ q.attempts = svc[s].attempts
      PROVE  Tame
  BY <1>0, <1>a, PhaseTame, WriteTame
<1>1. ASSUME NEW p \in {"start_invoked", "stop_invoked", "logs_prepared",
                        "install_invoked"}, set_service_phase(s, p)
      PROVE  Tame
  <2>1. /\ [svc[s] EXCEPT !.phase = p] \in ServiceRow
        /\ [svc[s] EXCEPT !.phase = p].phase = p
        /\ [svc[s] EXCEPT !.phase = p].backoff = svc[s].backoff
        /\ [svc[s] EXCEPT !.phase = p].attempts = svc[s].attempts
    BY <1>0 DEF ServiceRow, Phase
  <2> QED BY <1>1, <1>a, <2>1 DEF set_service_phase, write_row
<1>2. CASE mark_installed(s)
  <2>1. [svc[s] EXCEPT !.phase = "installed"] \in ServiceRow
    BY <1>0 DEF ServiceRow, Phase
  <2> QED BY <1>0, <1>2, <1>a, <2>1 DEF mark_installed, write_row, ServiceRow
<1>3. CASE mark_rootfs_unknown(s)
  BY <1>3, SameRows DEF mark_rootfs_unknown
<1>4. CASE mark_starting(s)
  <2> DEFINE q == [svc[s] EXCEPT !.observed = "starting",
                                 !.phase = "starting", !.ident = "pid"]
  <2>1. q \in ServiceRow /\ q.phase = "starting" /\ q.backoff = svc[s].backoff
        /\ q.attempts = svc[s].attempts
    BY <1>0 DEF ServiceRow, Phase, Observed, Identity
  <2>2. svc' = [svc EXCEPT ![s] = q]
    BY <1>4 DEF mark_starting, write_refreshed
  <2> HIDE DEF q
  <2> QED BY <1>a, <2>1, <2>2
<1>5. CASE mark_running(s)
  <2> DEFINE q == [svc[s] EXCEPT !.observed = "running", !.phase = "running",
                                 !.ident = "session", !.attempts = 0,
                                 !.backoff = FALSE]
  <2>1. q \in ServiceRow /\ q.phase = "running" /\ ~q.backoff
    BY <1>0, ZeroAttempts DEF ServiceRow, Phase, Observed, Identity
  <2>2. svc' = [svc EXCEPT ![s] = q]
    BY <1>5 DEF mark_running, write_refreshed
  <2> HIDE DEF q
  <2> QED BY <1>a, <2>1, <2>2
<1>6. ASSUME NEW unknown \in BOOLEAN, mark_service_failed(s, unknown)
      PROVE  Tame
  <2>1. PICK x \in {"unknown", "failed"} :
           svc' = [svc EXCEPT ![s] = [svc[s] EXCEPT !.observed = x,
                                                    !.phase = x]]
    BY <1>6 DEF mark_service_failed, write_refreshed
  <2> DEFINE q == [svc[s] EXCEPT !.observed = x, !.phase = x]
  <2>2. q \in ServiceRow /\ q.phase = x /\ q.backoff = svc[s].backoff
        /\ q.attempts = svc[s].attempts
    BY <1>0 DEF ServiceRow, Phase, Observed
  <2>3. svc' = [svc EXCEPT ![s] = q]
    BY <2>1
  <2> HIDE DEF q
  <2> QED BY <1>a, <2>2, <2>3
<1> QED BY <1>1, <1>2, <1>3, <1>4, <1>5, <1>6

\* The transactions that begin and end operations write many rows.
LEMMA OperationTame ==
    ASSUME StoreTypeOK,
           \/ \E m, reused : begin_candidate(m, reused)
           \/ \E kind, names : begin_start_current(kind, names)
           \/ \E m : record_noop_up(m)
           \/ finalize_operation_failure \/ commit_up \/ finish_start_current
           \/ begin_down \/ finish_down \/ finalize_down_failure
           \/ reconcile_cold_start
    PROVE  Tame
<1> SUFFICES ASSUME NEW s \in Services PROVE TameRow(svc[s], svc'[s])
  BY DEF Tame
<1>0. svc[s] \in ServiceRow
  BY DEF StoreTypeOK
<1>1. ASSUME NEW m, NEW reused, begin_candidate(m, reused)
      PROVE  TameRow(svc[s], svc'[s])
  BY <1>0, <1>1 DEF begin_candidate, fresh_row, TameRow, Counted,
     proven_backoff, ServiceRow
<1>2. ASSUME NEW kind, NEW names, begin_start_current(kind, names)
      PROVE  TameRow(svc[s], svc'[s])
  BY <1>0, <1>2 DEF begin_start_current, fresh_row, TameRow, Counted,
     proven_backoff, ServiceRow
<1>3. CASE \/ \E m : record_noop_up(m)
           \/ finalize_operation_failure \/ finish_down
  BY <1>3 DEF record_noop_up, finalize_operation_failure, finish_down, TameRow
<1>4. CASE commit_up
  BY <1>0, <1>4 DEF commit_up, TameRow, Counted, proven_backoff, ServiceRow
<1>5. CASE finish_start_current
  BY <1>0, <1>5 DEF finish_start_current, TameRow, Counted, proven_backoff,
     ServiceRow
<1>6. CASE begin_down
  BY <1>0, <1>6 DEF begin_down, down_row, down_class, TameRow, Counted,
     proven_backoff, ServiceRow
<1>7. CASE finalize_down_failure
  BY <1>0, <1>7 DEF finalize_down_failure, TameRow, Counted, proven_backoff,
     ServiceRow
<1>8. CASE reconcile_cold_start
  <2>1. svc'[s] = cold_row(s)
    BY <1>8 DEF reconcile_cold_start
  <2>2. TameRow(svc[s], cold_row(s))
    BY <1>0 DEF cold_row, cold_class, cold_phase, TameRow, Counted,
       proven_backoff, ServiceRow
  <2> QED BY <2>1, <2>2
<1> QED BY <1>1, <1>2, <1>3, <1>4, <1>5, <1>6, <1>7, <1>8

\* The transactions of restart, supervision and shutdown, other than the two
\* that set a deadline.
LEMMA SuperviseTame ==
    ASSUME StoreTypeOK, NEW s \in Services,
           \/ begin_restart(s) \/ mark_restart_stop_invoked(s)
           \/ mark_restart_stopped(s) \/ mark_stopped(s) \/ record_exit(s)
           \/ mark_runtime_unknown(s)
           \/ mark_restart_invoked_ok(s) /\ mark_restart_invoked(s)
           \/ mark_restart_starting(s) \/ mark_restart_running(s)
           \/ record_graceful_stop(s) \/ record_graceful_backoff_stop(s)
    PROVE  Tame
<1>0. svc[s] \in ServiceRow
  BY DEF StoreTypeOK
<1>1. PICK q :
         /\ svc' = [svc EXCEPT ![s] = q]
         /\ \/ q = [svc[s] EXCEPT !.phase = "restart_stop_intent"]
            \/ q = [svc[s] EXCEPT !.observed = "stopping",
                                  !.phase = "restart_stop_invoked"]
            \/ q = proven_row(svc[s], "stopped", "shutdown_proven")
            \/ q = [proven_row(svc[s], "stopped", "stopped")
                      EXCEPT !.desired = "stopped"]
            \/ \E x : q = proven_row(svc[s], x, "exited")
            \/ q = [svc[s] EXCEPT !.observed = "unknown", !.phase = "unknown",
                                  !.backoff = FALSE]
            \/ /\ svc[s].backoff
               /\ q = [svc[s] EXCEPT !.observed = "starting",
                         !.phase = "restart_invoked", !.backoff = FALSE]
            \/ q = [svc[s] EXCEPT !.observed = "starting",
                      !.phase = "restart_starting", !.ident = "pid"]
            \/ q = [svc[s] EXCEPT !.observed = "running", !.phase = "committed",
                      !.ident = "session", !.backoff = FALSE]
            \/ q = [svc[s] EXCEPT !.observed = "stopped",
                      !.phase = "shutdown_proven", !.backoff = FALSE]
  <2>1. CASE \/ begin_restart(s) \/ mark_restart_stop_invoked(s)
             \/ mark_restart_stopped(s)
    BY <2>1 DEF begin_restart, mark_restart_stop_invoked,
       mark_restart_stopped, write_row, write_refreshed
  <2>2. CASE mark_stopped(s) \/ record_exit(s) \/ mark_runtime_unknown(s)
    BY <2>2 DEF mark_stopped, record_exit, mark_runtime_unknown, write_row,
       write_refreshed
  <2>3. CASE \/ mark_restart_invoked_ok(s) /\ mark_restart_invoked(s)
             \/ mark_restart_starting(s) \/ mark_restart_running(s)
    BY <2>3 DEF mark_restart_invoked_ok, mark_restart_invoked,
       mark_restart_starting, mark_restart_running, write_row, write_refreshed
  <2>4. CASE record_graceful_stop(s) \/ record_graceful_backoff_stop(s)
    BY <2>4 DEF record_graceful_stop, record_graceful_backoff_stop, write_row,
       write_refreshed
  <2> QED BY <2>1, <2>2, <2>3, <2>4
<1>2. TameRow(svc[s], q)
  BY <1>0, <1>1 DEF proven_row, TameRow, Counted, proven_backoff, ServiceRow
<1> QED BY <1>1, <1>2, WriteTame

\* The two transactions that set a deadline count it.
LEMMA DeadlineRows ==
    ASSUME StoreTypeOK, NEW s \in Services, NEW h,
           Rows(svc, h), h[s] = "none",
           \/ schedule_or_give_up(s) \/ schedule_restart_after_exit(s)
           \/ restore_restart_backoff_ok(s) /\ restore_restart_backoff(s)
    PROVE  Rows(svc', h)
<1>0. svc[s] \in ServiceRow /\ svc[s].attempts \in Nat
  BY AttemptsAssumption DEF StoreTypeOK, ServiceRow
<1>1. \/ \E n \in Nat : schedule_restart(s, n + 1)
      \/ restore_restart_backoff_ok(s) /\ restore_restart_backoff(s)
      \/ UNCHANGED svc
  BY <1>0 DEF schedule_or_give_up, schedule_restart_after_exit, StoreFails,
     dbVars
<1>2. ASSUME NEW q, svc' = [svc EXCEPT ![s] = q], Counted(q)
      PROVE  Rows(svc', h)
  BY <1>2 DEF Rows, StoreTypeOK
<1>3. ASSUME NEW n \in Nat, schedule_restart(s, n + 1)
      PROVE  Rows(svc', h)
  <2> DEFINE q == [svc[s] EXCEPT !.observed = "restarting",
                     !.phase = "backoff", !.backoff = TRUE,
                     !.attempts = n + 1]
  <2>1. Counted(q)
    BY <1>0 DEF Counted, ServiceRow
  <2>2. svc' = [svc EXCEPT ![s] = q]
    BY <1>3 DEF schedule_restart, write_refreshed
  <2> HIDE DEF q
  <2> QED BY <1>2, <2>1, <2>2
<1>4. CASE restore_restart_backoff_ok(s) /\ restore_restart_backoff(s)
  <2> DEFINE q == [svc[s] EXCEPT !.observed = "restarting",
                     !.phase = "backoff", !.backoff = TRUE]
  <2>1. svc[s].attempts >= 1
    BY <1>4 DEF Rows, Counted, restore_restart_backoff_ok
  <2>2. Counted(q)
    BY <1>0, <2>1 DEF Counted, ServiceRow
  <2>3. svc' = [svc EXCEPT ![s] = q]
    BY <1>4 DEF restore_restart_backoff, write_row
  <2> HIDE DEF q
  <2> QED BY <1>2, <2>2, <2>3
<1> QED BY <1>1, <1>3, <1>4 DEF Rows

-----------------------------------------------------------------------------
(* What a step does to the rows and to the handles *)

\* A failed transaction, one whose error is ignored, and record_failure.
LEMMA IgnoredTame ==
    ASSUME StoreTypeOK, NEW s \in Services,
           \/ UNCHANGED dbVars
           \/ \E ok : StoreFails(ok)
           \/ Ignoring(mark_runtime_unknown(s))
           \/ quarantine(s) \/ quarantine_if_owned(s)
           \/ \E unknown \in BOOLEAN : record_failure(s, unknown)
    PROVE  Tame
<1>1. ASSUME UNCHANGED dbVars PROVE Tame
  BY <1>1, SameRows DEF dbVars
<1>2. \/ UNCHANGED dbVars \/ mark_runtime_unknown(s)
      \/ \E unknown \in BOOLEAN : mark_service_failed(s, unknown)
  BY DEF StoreFails, Ignoring, quarantine, quarantine_if_owned,
     record_failure
<1> QED BY <1>1, <1>2, SuperviseTame, StartTame

\* The steps that set a deadline.
Deadlines == TickSchedule \/ DepSchedule \/ Reschedule \/ Restore

\* No other step sets one.
LEMMA OnlyDeadlines ==
    ASSUME Inv, Next
    PROVE  Deadlines \/ Tame
<1>s. StoreTypeOK /\ d \in Control /\ d.cur \in Services
  BY DEF Inv, Sound, Control
<1>u. ASSUME UNCHANGED dbVars PROVE Tame
  BY <1>u, SameRows DEF dbVars
<1>h. d.pc \in LoopPC => Head(d.todo) \in Services
  BY HeadTail DEF Inv, Sound, Control
<1>g. d.deps # << >> => Head(d.deps) \in Services
  BY <1>s, HeadTail DEF Control
<1>q. d.todo # << >> => Head(d.todo) \in Services
  BY <1>s, HeadTail DEF Control
<1>1. CASE Supervise
  <2>1. CASE TickChild
    <3>1. Head(d.todo) \in Services
      BY <1>h, <2>1 DEF TickChild, LoopPC
    <3>2. \/ UNCHANGED dbVars \/ mark_runtime_unknown(Head(d.todo))
          \/ record_exit(Head(d.todo))
      BY <2>1 DEF TickChild, Ignoring, StoreFails
    <3> QED BY <1>s, <1>u, <3>1, <3>2, SuperviseTame
  <2>2. CASE RestartInvoke
    BY <1>s, <1>u, <2>2, SuperviseTame DEF RestartInvoke, StoreFails
  <2>3. CASE DueUnknown
    BY <1>s, <2>3, IgnoredTame DEF DueUnknown
  <2>4. CASE TickUncertain \/ TickDue \/ Due
    BY <1>u, <2>4 DEF TickUncertain, TickDue, Due
  <2> QED BY <1>1, <2>1, <2>2, <2>3, <2>4 DEF Supervise, Deadlines
<1>2. CASE Prepare
  <2>1. CASE Up \/ UpCheck \/ CandSvc \/ Install
    BY <1>u, <2>1 DEF Up, UpCheck, CandSvc, Install
  <2>2. CASE UpConverge
    BY <1>s, <1>u, <2>2, OperationTame DEF UpConverge, StoreFails
  <2>3. CASE BeginCurrent
    BY <1>s, <1>u, <2>3, OperationTame DEF BeginCurrent, StoreFails
  <2>4. CASE CandBegin
    BY <1>s, <1>u, <2>4, OperationTame DEF CandBegin, StoreFails,
       begin_candidate_recovery, begin_up
  <2>5. CASE \/ MarkLogsPrepared \/ MarkInstallInvoked \/ MarkInstalled
             \/ MarkRootfsUnknown \/ MarkInstallFailed
    BY <1>s, <1>u, <2>5, StartTame DEF MarkLogsPrepared, MarkInstallInvoked,
       MarkInstalled, MarkRootfsUnknown, MarkInstallFailed, Journal,
       StoreFails
  <2> QED BY <1>2, <2>1, <2>2, <2>3, <2>4, <2>5 DEF Prepare
<1>3. CASE Depend
  <2>1. CASE DepsDone \/ DepAbsent \/ DepValid
    BY <1>u, <2>1 DEF DepsDone, DepAbsent, DepValid
  <2>2. CASE DepUnqualified \/ DepExitAmbiguous
    BY <1>s, <1>g, <2>2, IgnoredTame DEF DepUnqualified, DepExitAmbiguous
  <2>3. CASE DepExited
    BY <1>s, <1>u, <1>g, <2>3, SuperviseTame DEF DepExited, StoreFails
  <2> QED BY <1>3, <2>1, <2>2, <2>3 DEF Depend, Deadlines
<1>4. CASE StartOne
  <2>1. CASE Spawn \/ SpawnRefused \/ Contain \/ Qualify
    BY <1>u, <2>1 DEF Spawn, SpawnRefused, Contain, Qualify
  <2>2. CASE MarkStartInvoked
    BY <1>s, <1>u, <2>2, StartTame DEF MarkStartInvoked, StoreFails
  <2>3. CASE JournalChild
    BY <1>s, <1>u, <2>3, StartTame, SuperviseTame DEF JournalChild
  <2>4. CASE QualifyFails
    BY <1>s, <2>4, IgnoredTame DEF QualifyFails
  <2>5. CASE QualifyExited
    BY <1>s, <1>u, <2>5, IgnoredTame, SuperviseTame
       DEF QualifyExited, StoreFails
  <2>6. CASE MarkRunning
    BY <1>s, <2>6, IgnoredTame, SuperviseTame, StartTame DEF MarkRunning
  <2>7. CASE Finish
    BY <1>s, <1>u, <2>7, OperationTame DEF Finish, StoreFails
  <2> QED BY <1>4, <2>1, <2>2, <2>3, <2>4, <2>5, <2>6, <2>7 DEF StartOne
<1>5. CASE AbortStart
  <2>a. ambiguous(d.err) \in BOOLEAN
    BY DEF ambiguous
  <2>1. CASE Abort
    BY <1>s, <2>a, <2>1, IgnoredTame DEF Abort
  <2>2. CASE AbortOthers
    BY <1>s, <1>u, <1>h, <2>2, IgnoredTame DEF AbortOthers, LoopPC
  <2>3. CASE Cleanup
    <3>1. \/ UNCHANGED dbVars \/ quarantine_if_owned(Head(d.todo))
      BY <2>3 DEF Cleanup
    <3> QED BY <1>s, <1>u, <1>h, <2>3, <3>1, IgnoredTame DEF Cleanup, LoopPC
  <2>4. CASE CleanupExit
    BY <1>s, <1>h, <2>4, IgnoredTame, SuperviseTame DEF CleanupExit, LoopPC
  <2>5. CASE CleanupMark \/ Survivors
    BY <1>s, <1>h, <2>a, <2>5, IgnoredTame DEF CleanupMark, Survivors, LoopPC
  <2>6. CASE Finalize
    BY <1>s, <1>u, <2>6, OperationTame DEF Finalize, StoreFails
  <2> QED BY <1>5, <2>1, <2>2, <2>3, <2>4, <2>5, <2>6 DEF AbortStart
<1>6. CASE Stop
  <2>1. CASE DownStop \/ Restart \/ RestartStop \/ ShutdownEnd
    BY <1>u, <2>1 DEF DownStop, Restart, RestartStop, ShutdownEnd
  <2>2. CASE DownBegin \/ DownFinish \/ DownFinal
    BY <1>s, <1>u, <2>2, OperationTame
       DEF DownBegin, DownFinish, DownFinal, StoreFails
  <2>3. CASE DownSvc
    BY <1>s, <1>u, <1>q, <2>3, StartTame DEF DownSvc, StoreFails
  <2>4. CASE DownStopped
    BY <1>s, <1>u, <1>h, <2>4, SuperviseTame
       DEF DownStopped, StoreFails, LoopPC
  <2>5. CASE DownQuarantine
    BY <1>s, <1>u, <2>5, IgnoredTame DEF DownQuarantine
  <2>6. CASE RestartBegin \/ RestartStopInvoke \/ RestartStopped
    BY <1>s, <1>u, <2>6, SuperviseTame DEF RestartBegin, RestartStopInvoke,
       RestartStopped, Journal, StoreFails
  <2>7. CASE ShutdownAbsent
    <3>1. \/ UNCHANGED dbVars \/ Ignoring(mark_runtime_unknown(Head(d.todo)))
          \/ record_graceful_backoff_stop(Head(d.todo))
      BY <2>7 DEF ShutdownAbsent
    <3>2. Head(d.todo) \in Services
      BY <1>q, <2>7 DEF ShutdownAbsent
    <3> QED BY <1>s, <1>u, <3>1, <3>2, IgnoredTame, SuperviseTame
  <2>8. CASE ShutdownStop
    BY <1>s, <1>u, <1>q, <2>8, IgnoredTame DEF ShutdownStop
  <2>9. CASE ShutdownRecord
    BY <1>s, <1>h, <2>9, IgnoredTame, SuperviseTame
       DEF ShutdownRecord, LoopPC
  <2> QED BY <1>6, <2>1, <2>2, <2>3, <2>4, <2>5, <2>6, <2>7, <2>8, <2>9 DEF Stop
<1>7. CASE Reconcile \/ Resume
  BY <1>s, <1>u, <1>7, OperationTame DEF Reconcile, Resume, StoreFails
<1>8. CASE Environment
  BY <1>u, <1>8 DEF Environment, Boot, Accept, SigTerm, Crash, TracerExits,
     TreeEnds
<1> QED BY <1>1, <1>2, <1>3, <1>4, <1>5, <1>6, <1>7, <1>8 DEF Next, DaemonStep

\* No service gains a handle.
NoNewHandle == \A s \in Services : handle[s] = "none" => handle'[s] = "none"

\* What the steps do to the handles, other than spawning.
LEMMA KeepsAbsent ==
    ASSUME WorldTypeOK,
           \/ UNCHANGED handle \/ UNCHANGED worldVars
           \/ \E u : let_go(u) \/ drained(u) \/ stop_owned_child(u)
           \/ \E u \in Services : handle[u] # "none" /\ quarantine(u)
           \/ \E u \in Services : quarantine_if_owned(u)
           \/ process_ends \/ TickUncertain
    PROVE  NoNewHandle
BY DEF WorldTypeOK, NoNewHandle, worldVars, let_go, drained, stop_owned_child,
   quarantine, quarantine_if_owned, process_ends, TickUncertain

\* A service gains a handle only between the intent of its start and the
\* result of it.
LEMMA OnlyBirth ==
    ASSUME Inv, Next
    PROVE  \A s \in Services :
              handle[s] = "none" /\ handle'[s] # "none"
                => s = d.cur /\ d.pc \in BirthPC
<1>w. WorldTypeOK
  BY DEF Inv
<1>c. d \in Control /\ d.cur \in Services
  BY DEF Inv, Sound, Control
<1>k. ASSUME NoNewHandle
      PROVE  \A s \in Services : handle[s] = "none" => handle'[s] = "none"
  BY <1>k DEF NoNewHandle
<1>1. CASE Supervise
  BY <1>1, <1>w, <1>k, KeepsAbsent DEF Supervise, TickChild, TickSchedule,
     TickDue, Due, RestartInvoke, Restore, Reschedule, DueUnknown
<1>2. CASE Prepare
  BY <1>2, <1>w, <1>k, KeepsAbsent DEF Prepare, Up, UpCheck, UpConverge,
     BeginCurrent, CandBegin, CandSvc, MarkLogsPrepared, MarkInstallInvoked,
     Install, MarkInstalled, MarkRootfsUnknown, MarkInstallFailed, Journal
<1>3. CASE Depend
  <2>1. CASE DepUnqualified
    <3>1. Head(d.deps) \in Services
      BY <1>c, <2>1, HeadTail DEF DepUnqualified, Control
    <3> QED BY <1>w, <1>k, <2>1, <3>1, KeepsAbsent DEF DepUnqualified
  <2> QED BY <1>3, <1>w, <1>k, <2>1, KeepsAbsent DEF Depend, DepsDone,
        DepAbsent, DepValid, DepExitAmbiguous, DepExited, DepSchedule
<1>4. CASE StartOne
  <2>1. CASE MarkStartInvoked \/ SpawnRefused \/ Qualify \/ QualifyExited
             \/ Finish
    BY <1>w, <1>k, <2>1, KeepsAbsent DEF MarkStartInvoked, SpawnRefused,
       Qualify, QualifyExited, Finish
  <2>2. CASE Spawn \/ JournalChild \/ Contain \/ QualifyFails \/ MarkRunning
    <3>1. d.pc \in BirthPC
      BY <2>2 DEF Spawn, JournalChild, Contain, QualifyFails, MarkRunning,
         BirthPC
    <3>2. \/ UNCHANGED handle \/ UNCHANGED worldVars
          \/ let_go(d.cur) \/ drained(d.cur)
          \/ \E v : handle' = [handle EXCEPT ![d.cur] = v]
      BY <2>2 DEF Spawn, JournalChild, Contain, QualifyFails, MarkRunning,
         quarantine
    <3>3. \A s \in Services : s # d.cur => handle'[s] = handle[s]
      BY <1>w, <3>2 DEF WorldTypeOK, let_go, drained, worldVars
    <3> QED BY <3>1, <3>3
  <2> QED BY <1>4, <2>1, <2>2 DEF StartOne
<1>5. CASE AbortStart
  <2>h. d.pc \in LoopPC => Head(d.todo) \in Services
    BY HeadTail DEF Inv, Sound, Control
  <2>1. CASE Cleanup \/ Survivors
    BY <1>w, <1>k, <2>h, <2>1, KeepsAbsent DEF Cleanup, Survivors, LoopPC
  <2> QED BY <1>5, <1>w, <1>k, <2>1, KeepsAbsent DEF AbortStart, Abort,
        AbortOthers, CleanupExit, CleanupMark, Finalize
<1>6. CASE Stop
  <2>1. CASE DownQuarantine
    BY <1>w, <1>k, <2>1, KeepsAbsent DEF DownQuarantine
  <2>2. CASE ShutdownStop
    <3>1. Head(d.todo) \in Services
      BY <1>c, <2>2, HeadTail DEF ShutdownStop, Control
    <3> QED BY <1>w, <1>k, <2>2, <3>1, KeepsAbsent DEF ShutdownStop
  <2> QED BY <1>6, <1>w, <1>k, <2>1, <2>2, KeepsAbsent DEF Stop, DownBegin,
        DownSvc, DownStop, DownStopped, DownFinish, DownFinal, Restart,
        RestartBegin, RestartStopInvoke, Journal, RestartStop, RestartStopped,
        ShutdownAbsent, ShutdownRecord, ShutdownEnd
<1>7. CASE Reconcile \/ Resume \/ Environment
  BY <1>7, <1>w, <1>k, KeepsAbsent DEF Reconcile, Resume, Environment, Boot,
     Accept, SigTerm, Crash, TracerExits, TreeEnds
<1> QED BY <1>1, <1>2, <1>3, <1>4, <1>5, <1>6, <1>7 DEF Next, DaemonStep

-----------------------------------------------------------------------------
(* Where the daemon goes *)

\* A position about which Watched says nothing.
Off(c) ==
    \/ c.pc \notin WatchedPC
    \/ /\ c.pc \in CheckPC \cup {"start_invoke", "restart_invoke"}
       /\ c.ret # "due"

\* The positions outside the watched ones that steps jump to.
OffPC == {"dead", "reconcile", "resume", "idle", "tick", "tick_child",
          "tick_due", "due", "up", "up_check", "cand_begin",
          "install_unknown", "install_failed", "begin_current", "finish",
          "abort", "abort_others", "cleanup", "cleanup_exit", "cleanup_mark",
          "survivors", "finalize", "due_unknown", "down_begin", "down_svc",
          "down_stop", "down_stopped", "down_quarantine", "down_final",
          "restart", "restart_begin", "restart_stop_invoke", "restart_stop",
          "restart_stopped", "shutdown", "shutdown_record", "shutdown_end"}

\* They are positions of the daemon that Watched does not mention.
LEMMA OffPositions == OffPC \subseteq PC /\ OffPC \cap WatchedPC = {}
BY DEF OffPC, PC, WatchedPC, BirthPC, CheckPC, SpawnPC

\* Watched asks nothing there.
LEMMA OffWatched ==
    ASSUME NEW c, Off(c), NEW rows, NEW h
    PROVE  Watched(c, rows, h)
<1>1. CASE c.pc \notin WatchedPC
  BY <1>1 DEF Watched, WatchedPC
<1>2. CASE /\ c.pc \in CheckPC \cup {"start_invoke", "restart_invoke"}
           /\ c.ret # "due"
  <2>1. c.pc \notin BirthPC \cup {"tick_schedule", "dep_schedule",
                                  "reschedule", "restore"}
    BY <1>2 DEF BirthPC, CheckPC
  <2> QED BY <1>2, <2>1 DEF Watched
<1> QED BY <1>1, <1>2 DEF Off

\* Jumps to such a position.
LEMMA OffGoto ==
    ASSUME NEW c \in Control, NEW p \in OffPC
    PROVE  Off([c EXCEPT !.pc = p]) /\ Off(at(p))
BY OffPositions, GotoControl, AtControl DEF Off

\* After the tick, between two scheduled restarts, after a failed dependency
\* check and in the loops of an abort nothing is watched.
LEMMA OffNext ==
    ASSUME NEW c \in Control, NEW q
    PROVE  /\ Off(next_due(c)) /\ Off(deps_failed(c))
           /\ Off(cleanup_next(c, q)) /\ Off(survivors_next(c, q))
           /\ Off(abort_others_next(c, q))
<1>p. {"up", "down_begin", "restart", "idle", "due", "abort", "finalize",
       "cleanup", "survivors", "abort_others"} \subseteq OffPC
  BY DEF OffPC
<1>1. ASSUME NEW e \in Control PROVE Off(next_due(e))
  BY <1>1, <1>p, OffGoto DEF next_due, after_tick
<1>2. Off(deps_failed(c))
  <2>1. [c EXCEPT !.deps = << >>] \in Control
    BY EmptyType DEF Control
  <2>2. [c EXCEPT !.pc = "abort", !.err = "conflict", !.deps = << >>].pc
          = "abort"
    BY DEF Control
  <2>3. Off([c EXCEPT !.pc = "abort", !.err = "conflict", !.deps = << >>])
    BY <1>p, <2>2, OffPositions DEF Off
  <2>4. Off(next_due([c EXCEPT !.deps = << >>])) /\ Off(at("idle"))
    BY <1>1, <1>p, <2>1, OffGoto
  <2> QED BY <2>3, <2>4 DEF deps_failed
<1>3. ASSUME NEW p \in OffPC, NEW r
      PROVE  Off([c EXCEPT !.pc = p, !.todo = r])
  <2>1. [c EXCEPT !.pc = p, !.todo = r].pc = p
    BY DEF Control
  <2> QED BY <2>1, OffPositions DEF Off
<1>4. ASSUME NEW r PROVE Off(cleanup_next(c, r)) /\ Off(survivors_next(c, r))
  BY <1>3, <1>p DEF cleanup_next, survivors_next
<1>5. Off(abort_others_next(c, q))
  BY <1>3, <1>4, <1>p DEF abort_others_next
<1> QED BY <1>1, <1>2, <1>4, <1>5

\* A failed start is watched only when a scheduled restart failed before its
\* spawn.
LEMMA OffStartFails ==
    ASSUME NEW c \in Control, NEW e, c.ret # "due" \/ e # "prespawn"
    PROVE  Off(start_fails(c, e))
<1>p. {"abort", "due_unknown"} \subseteq OffPC
  BY DEF OffPC
<1>1. [c EXCEPT !.pc = "abort", !.err = e].pc = "abort"
  BY DEF Control
<1>2. Off([c EXCEPT !.pc = "abort", !.err = e])
  BY <1>1, <1>p, OffPositions DEF Off
<1>3. Off([c EXCEPT !.pc = "due_unknown"])
  BY <1>p, OffGoto
<1> QED BY <1>2, <1>3 DEF start_fails

\* The services of an operation are started with ret "start".
LEMMA OffStartNext ==
    ASSUME NEW c \in Control, NEW q
    PROVE  /\ Off(start_next(c, q))
           /\ begin_starting(c, q) => Off(d')
<1>1. CASE q = << >>
  <2>1. start_next(c, q) = [c EXCEPT !.pc = "finish", !.todo = << >>]
    BY <1>1 DEF start_next
  <2>2. start_next(c, q).pc = "finish"
        /\ [start_next(c, q) EXCEPT !.pc = "abort", !.err = "store"].pc
             = "abort"
    BY <2>1 DEF Control
  <2> QED BY <2>2, OffPositions DEF Off, begin_starting, OffPC
<1>2. CASE q # << >>
  <2>1. PICK p \in {"cand_svc", "deps"} :
           start_next(c, q) =
             [c EXCEPT !.pc = p, !.cur = Head(q), !.todo = Tail(q),
                       !.deps = DependsOn[Head(q)], !.ret = "start"]
    BY <1>2 DEF start_next
  <2>2. start_next(c, q).pc = p /\ start_next(c, q).ret = "start"
        /\ [start_next(c, q) EXCEPT !.pc = "abort", !.err = "store"].pc
             = "abort"
    BY <2>1 DEF Control
  <2>3. Off(start_next(c, q))
    BY <2>2 DEF Off, CheckPC
  <2> QED BY <2>2, <2>3, OffPositions DEF Off, begin_starting, OffPC
<1> QED BY <1>1, <1>2

\* A pass of shutdown.
LEMMA OffShutdown ==
    ASSUME NEW again, begin_shutdown(again)
    PROVE  Off(d')
<1>p. "shutdown" \in OffPC /\ "shutdown" \in PC
  BY DEF OffPC, PC
<1>1. at("shutdown") \in Control /\ at("shutdown").pc = "shutdown"
  BY <1>p, AtControl
<1>2. d'.pc = "shutdown"
  BY <1>1 DEF begin_shutdown, Control
<1> QED BY <1>p, <1>2, OffPositions DEF Off

-----------------------------------------------------------------------------
(* The watched positions, step by step *)

\* Between the choice of a service and its spawn nothing takes a handle for
\* it, whatever fields other than cur and ret change.
LEMMA StillAbsent ==
    ASSUME Watched(d, svc, handle), UNCHANGED handle,
           d.pc \in CheckPC \cup SpawnPC,
           d'.cur = d.cur, d'.ret = d.ret,
           d'.pc \in CheckPC \cup {"start_invoke", "restart_invoke"}
    PROVE  Watched(d', svc', handle')
<1>1. d'.pc \notin BirthPC \cup {"tick_schedule", "dep_schedule",
                                 "reschedule", "restore"}
  BY DEF BirthPC, CheckPC
<1>2. d.ret = "due" => handle[d.cur] = "none"
  BY DEF Watched
<1> QED BY <1>1, <1>2 DEF Watched

\* A jump with a journal write on the way to the spawn.
LEMMA JournalWatched ==
    ASSUME DInv, NEW p, NEW next,
           d.pc = p, p \in CheckPC \cup {"install_unknown"},
           next \in CheckPC \cup {"install_failed"},
           p = "install_unknown" => next = "install_failed",
           d' = [d EXCEPT !.pc = next] \/ d' = start_fails(d, "store"),
           UNCHANGED worldVars
    PROVE  Watched(d', svc', handle')
<1>c. d \in Control
  BY DEF DInv, Inv, Sound
<1>1. CASE d' = start_fails(d, "store")
  BY <1>1, <1>c, OffStartFails, OffWatched
<1>2. CASE d' = [d EXCEPT !.pc = next]
  <2>1. CASE next = "install_failed"
    BY <1>2, <1>c, <2>1, OffGoto, OffWatched DEF OffPC
  <2>2. CASE next \in CheckPC /\ p \in CheckPC
    BY <1>2, <1>c, <2>2, StillAbsent DEF DInv, worldVars, Control
  <2> QED BY <2>1, <2>2
<1> QED BY <1>1, <1>2

\* tick: an exit that is scheduled has just been let go of, and a due restart
\* is for a service that no handle refers to.
LEMMA SuperviseWatched ==
    ASSUME DInv, Supervise
    PROVE  Watched(d', svc', handle')
<1>s. StoreTypeOK /\ WorldTypeOK /\ d \in Control /\ d.cur \in Services
  BY DEF DInv, Inv, Sound, Control
<1>p. {"tick_child", "tick_due", "idle"} \subseteq OffPC
  BY DEF OffPC
<1>n. ASSUME tick_next PROVE Watched(d', svc', handle')
  <2>1. d'.pc \in {"tick_child", "tick_due"}
    BY <1>s, <1>n DEF tick_next, Control
  <2>2. Off(d')
    BY <1>p, <2>1, OffPositions DEF Off
  <2> QED BY <2>2, OffWatched
<1>1. CASE TickUncertain
  <2>1. d'.pc = "tick_child"
    BY <1>1, <1>s DEF TickUncertain, Control
  <2>2. Off(d')
    BY <1>p, <2>1, OffPositions DEF Off
  <2> QED BY <2>2, OffWatched
<1>2. CASE TickChild
  <2>1. CASE tick_next
    BY <1>n, <2>1
  <2>2. CASE goto("tick_schedule") /\ let_go(Head(d.todo))
    <3>1. Head(d.todo) \in Services
      BY <1>2, HeadTail DEF TickChild, DInv, Inv, Sound, LoopPC, Control
    <3>2. d'.pc = "tick_schedule" /\ d'.todo = d.todo
      BY <1>s, <2>2 DEF goto, Control
    <3>3. handle'[Head(d'.todo)] = "none"
      BY <1>s, <2>2, <3>1, <3>2 DEF let_go, WorldTypeOK
    <3> QED BY <3>2, <3>3 DEF Watched, BirthPC, CheckPC, SpawnPC
  <2> QED BY <1>2, <2>1, <2>2 DEF TickChild
<1>3. CASE TickSchedule
  BY <1>3, <1>n DEF TickSchedule
<1>4. CASE TickDue
  <2>1. ASSUME NEW D \in SUBSET Services
        PROVE  [d EXCEPT !.due = D] \in Control
    BY <1>s DEF Control
  <2>2. (\E D \in SUBSET Services : d' = next_due([d EXCEPT !.due = D]))
        \/ d' = at("idle")
    BY <1>4 DEF TickDue, return
  <2>3. Off(d')
    BY <1>s, <1>p, <2>1, <2>2, OffNext, OffGoto
  <2> QED BY <2>3, OffWatched
<1>5. CASE Due
  <2>1. PICK s \in d.due :
           \/ /\ due_restart(svc[s])
              /\ d' = [[d EXCEPT !.cur = s, !.due = d.due \ {s}]
                         EXCEPT !.pc = "deps", !.deps = DependsOn[s],
                                !.ret = "due"]
           \/ d' = next_due([d EXCEPT !.cur = s, !.due = d.due \ {s}])
    BY <1>5 DEF Due
  <2>2. s \in Services /\ [d EXCEPT !.cur = s, !.due = d.due \ {s}] \in Control
    BY <1>s DEF Control
  <2>3. CASE due_restart(svc[s]) /\ d'.pc = "deps" /\ d'.cur = s
    <3>1. handle[s] = "none"
      BY <2>2, <2>3 DEF DInv, Rows, due_restart
    <3>2. handle'[d'.cur] = "none"
      BY <1>5, <2>3, <3>1 DEF Due, worldVars
    <3>3. d'.pc \notin BirthPC \cup {"tick_schedule", "dep_schedule",
                                     "reschedule", "restore"}
      BY <2>3 DEF BirthPC
    <3> QED BY <3>2, <3>3 DEF Watched
  <2>4. CASE d' = next_due([d EXCEPT !.cur = s, !.due = d.due \ {s}])
    BY <2>2, <2>4, OffNext, OffWatched
  <2>5. \/ due_restart(svc[s]) /\ d'.pc = "deps" /\ d'.cur = s
        \/ d' = next_due([d EXCEPT !.cur = s, !.due = d.due \ {s}])
    BY <1>s, <2>1 DEF Control
  <2> QED BY <2>3, <2>4, <2>5
<1>6. CASE RestartInvoke
  <2>1. CASE mark_restart_invoked(d.cur) /\ goto("spawn")
    <3>1. d'.pc = "spawn" /\ d'.cur = d.cur /\ d'.ret = d.ret
      BY <1>s, <2>1 DEF goto, Control
    <3>2. svc'[d.cur].phase = "restart_invoked"
      BY <1>s, <2>1 DEF mark_restart_invoked, write_row, StoreTypeOK,
         ServiceRow
    <3>3. d.ret = "due" => handle'[d.cur] = "none"
      BY <1>6 DEF DInv, Watched, RestartInvoke, SpawnPC, worldVars
    <3> QED BY <3>1, <3>2, <3>3 DEF Watched, proven_backoff
  <2>2. CASE d' = next_due(d)
    BY <1>s, <2>2, OffNext, OffWatched
  <2> QED BY <1>6, <2>1, <2>2 DEF RestartInvoke
<1>7. CASE Restore \/ Reschedule \/ DueUnknown
  BY <1>s, <1>7, OffNext, OffWatched DEF Restore, Reschedule, DueUnknown
<1> QED BY <1>1, <1>2, <1>3, <1>4, <1>5, <1>6, <1>7 DEF Supervise

\* up and the preparation of its candidates.
LEMMA PrepareWatched ==
    ASSUME DInv, Prepare
    PROVE  Watched(d', svc', handle')
<1>s. StoreTypeOK /\ WorldTypeOK /\ d \in Control /\ d.cur \in Services
  BY DEF DInv, Inv, Sound, Control
<1>p. {"idle", "up_check", "cand_begin", "begin_current"} \subseteq OffPC
  BY DEF OffPC
<1>o. ASSUME d'.pc \in OffPC \/ Off(d') PROVE Watched(d', svc', handle')
  BY <1>o, OffPositions, OffWatched DEF Off
<1>i. ASSUME return PROVE Off(d')
  BY <1>s, <1>i, <1>p, OffGoto DEF return
<1>1. CASE Up
  <2>1. \/ return \/ goto("cand_begin")
        \/ d' = [d EXCEPT !.pc = "up_check", !.todo = Order]
    BY <1>1 DEF Up
  <2>2. return \/ d'.pc \in OffPC
    BY <1>s, <1>p, <2>1 DEF goto, Control
  <2> QED BY <1>o, <1>i, <2>2
<1>2. CASE UpCheck
  <2>0. d.pc = "up_check"
    BY <1>2 DEF UpCheck
  <2>1. \/ return
        \/ d' = [d EXCEPT !.pc = "deps", !.deps = <<Head(d.todo)>>,
                          !.ret = "up_check"]
        \/ d' = [d EXCEPT !.order = Append(d.order, Head(d.todo)),
                          !.todo = Tail(d.todo)]
    BY <1>2 DEF UpCheck
  <2>2. \/ return
        \/ d'.pc = "deps" /\ d'.ret = "up_check"
        \/ d'.pc \in OffPC
    <3>1. d' = [d EXCEPT !.pc = "deps", !.deps = <<Head(d.todo)>>,
                         !.ret = "up_check"]
            => d'.pc = "deps" /\ d'.ret = "up_check"
      BY <1>s DEF Control
    <3>2. d' = [d EXCEPT !.order = Append(d.order, Head(d.todo)),
                         !.todo = Tail(d.todo)] => d'.pc = d.pc
      BY <1>s DEF Control
    <3> QED BY <1>p, <2>0, <2>1, <3>1, <3>2
  <2> QED BY <1>o, <1>i, <2>2 DEF Off, CheckPC
<1>3. CASE UpConverge
  <2>1. return \/ d'.pc \in OffPC
    BY <1>s, <1>3, <1>p DEF UpConverge, goto, Control
  <2> QED BY <1>o, <1>i, <2>1
<1>4. CASE BeginCurrent
  BY <1>s, <1>4, <1>o, <1>i, OffStartNext DEF BeginCurrent
<1>5. CASE CandBegin
  <2>1. [d EXCEPT !.order = Order] \in Control
    BY <1>s, OrderAssumption DEF Control
  <2> QED BY <1>5, <1>o, <1>i, <2>1, OffStartNext DEF CandBegin
<1>6. CASE CandSvc
  <2>1. CASE "io" \in Faults /\ d' = start_fails(d, "io")
    BY <1>s, <1>o, <2>1, OffStartFails
  <2>2. CASE \E q \in {"deps", "logs"} : d' = [d EXCEPT !.pc = q]
    BY <1>s, <1>6, <2>2, StillAbsent
       DEF CandSvc, CheckPC, DInv, worldVars, Control
  <2> QED BY <1>6, <2>1, <2>2 DEF CandSvc, goto
<1>7. CASE Install
  <2>1. CASE goto("installed")
    BY <1>s, <1>7, <2>1, StillAbsent
       DEF Install, goto, CheckPC, DInv, worldVars, Control
  <2>2. CASE goto("install_unknown")
    BY <1>s, <1>o, <2>2, OffGoto DEF goto, OffPC
  <2> QED BY <1>7, <2>1, <2>2 DEF Install
<1>8. CASE \/ MarkLogsPrepared \/ MarkInstallInvoked \/ MarkInstalled
           \/ MarkRootfsUnknown
  BY <1>8, JournalWatched DEF MarkLogsPrepared, MarkInstallInvoked,
     MarkInstalled, MarkRootfsUnknown, Journal, goto, CheckPC
<1>9. CASE MarkInstallFailed
  BY <1>s, <1>9, <1>o, OffStartFails DEF MarkInstallFailed
<1> QED BY <1>1, <1>2, <1>3, <1>4, <1>5, <1>6, <1>7, <1>8, <1>9 DEF Prepare

\* The dependency check; a dependency whose restart is scheduled has just
\* been let go of.
LEMMA DependWatched ==
    ASSUME DInv, Depend
    PROVE  Watched(d', svc', handle')
<1>s. StoreTypeOK /\ WorldTypeOK /\ d \in Control /\ d.cur \in Services
      /\ d.ret \in {"start", "up_check", "pre_restart", "due"}
  BY DEF DInv, Inv, Sound, Control
<1>f. ASSUME d' = deps_failed(d) PROVE Watched(d', svc', handle')
  BY <1>s, <1>f, OffNext, OffWatched
<1>1. CASE DepsDone
  <2>1. CASE d.ret = "due"
    <3>1. d' = [d EXCEPT !.pc = "restart_invoke"]
      BY <1>1, <2>1 DEF DepsDone, deps_done
    <3>2. d'.pc = "restart_invoke" /\ d'.cur = d.cur /\ d'.ret = d.ret
      BY <1>s, <3>1 DEF Control
    <3> QED BY <1>1, <3>2, StillAbsent DEF DepsDone, CheckPC, DInv, worldVars
  <2>2. CASE d.ret # "due"
    <3>1. \/ d.ret = "start" /\ d' = [d EXCEPT !.pc = "start_invoke"]
          \/ d' = [d EXCEPT !.pc = "restart_begin"]
          \/ d' = [d EXCEPT !.pc = "up_check", !.todo = Tail(d.todo)]
      BY <1>s, <1>1, <2>2 DEF DepsDone, deps_done
    <3>2. \/ d'.pc = "start_invoke" /\ d'.ret = "start"
          \/ d'.pc \in {"restart_begin", "up_check"}
      BY <1>s, <3>1 DEF Control
    <3>3. {"restart_begin", "up_check"} \subseteq OffPC
      BY DEF OffPC
    <3>4. Off(d')
      BY <3>2, <3>3, OffPositions DEF Off
    <3> QED BY <3>4, OffWatched
  <2> QED BY <2>1, <2>2
<1>2. CASE DepAbsent \/ DepUnqualified \/ DepExitAmbiguous \/ DepSchedule
  BY <1>2, <1>f DEF DepAbsent, DepUnqualified, DepExitAmbiguous, DepSchedule
<1>3. CASE DepValid
  <2>1. d'.pc = "deps" /\ d'.cur = d.cur /\ d'.ret = d.ret
    BY <1>s, <1>3 DEF DepValid, Control
  <2> QED BY <1>3, <2>1, StillAbsent DEF DepValid, CheckPC, DInv, worldVars
<1>4. CASE DepExited
  <2>1. CASE goto("dep_schedule") /\ let_go(Head(d.deps))
    <3>1. Head(d.deps) \in Services
      BY <1>4, <1>s, HeadTail DEF DepExited, Control
    <3>2. d'.pc = "dep_schedule" /\ d'.deps = d.deps
      BY <1>s, <2>1 DEF goto, Control
    <3>3. handle'[Head(d'.deps)] = "none"
      BY <1>s, <2>1, <3>1, <3>2 DEF let_go, WorldTypeOK
    <3> QED BY <3>2, <3>3 DEF Watched, BirthPC, CheckPC, SpawnPC
  <2> QED BY <1>4, <1>f, <2>1 DEF DepExited
<1> QED BY <1>1, <1>2, <1>3, <1>4 DEF Depend

\* The start of one service: no deadline is pending for it from its intent
\* to its result.
LEMMA StartOneWatched ==
    ASSUME DInv, StartOne, Tame
    PROVE  Watched(d', svc', handle')
<1>s. StoreTypeOK /\ WorldTypeOK /\ d \in Control /\ d.cur \in Services
      /\ d.todo \in Seq(Services)
  BY DEF DInv, Inv, Sound, Control
<1>o. ASSUME Off(d') PROVE Watched(d', svc', handle')
  BY <1>o, OffWatched
<1>b. ASSUME d.pc \in BirthPC,
             NEW p \in {"journal", "contain", "qualify", "mark_running"},
             d' = [d EXCEPT !.pc = p]
      PROVE  Watched(d', svc', handle')
  <2>1. d'.pc = p /\ d'.cur = d.cur
    BY <1>s, <1>b DEF Control
  <2>2. ~proven_backoff(svc'[d.cur])
    BY <1>s, <1>b DEF DInv, Watched, Tame, TameRow
  <2>3. p \notin CheckPC \cup SpawnPC
        /\ p \notin {"tick_schedule", "dep_schedule", "reschedule", "restore"}
    BY DEF CheckPC, SpawnPC
  <2> QED BY <2>1, <2>2, <2>3 DEF Watched
<1>1. CASE MarkStartInvoked
  <2>1. CASE set_service_phase(d.cur, "start_invoked") /\ goto("spawn")
    <3>1. d'.pc = "spawn" /\ d'.cur = d.cur /\ d'.ret = d.ret
      BY <1>s, <2>1 DEF goto, Control
    <3>2. svc'[d.cur].phase = "start_invoked"
      BY <1>s, <2>1 DEF set_service_phase, write_row, StoreTypeOK, ServiceRow
    <3>3. d.ret = "due" => handle'[d.cur] = "none"
      BY <1>1 DEF DInv, Watched, MarkStartInvoked, SpawnPC, worldVars
    <3> QED BY <3>1, <3>2, <3>3 DEF Watched, proven_backoff
  <2>2. CASE d' = start_fails(d, "store") \/ d' = start_fails(d, "io")
    BY <1>s, <1>o, <2>2, OffStartFails
  <2> QED BY <1>1, <2>1, <2>2 DEF MarkStartInvoked
<1>2. CASE Spawn
  BY <1>2, <1>b DEF Spawn, BirthPC, goto
<1>3. CASE SpawnRefused
  <2>1. PICK e : d' = start_fails(d, e)
    BY <1>3 DEF SpawnRefused
  <2>2. CASE d.ret = "due" /\ e = "prespawn"
    <3>1. d' = [d EXCEPT !.pc = "restore"]
      BY <2>1, <2>2 DEF start_fails
    <3>2. d'.pc = "restore" /\ d'.cur = d.cur
      BY <1>s, <3>1 DEF Control
    <3>3. handle'[d.cur] = "none"
      BY <1>3, <2>2 DEF DInv, Watched, SpawnRefused, SpawnPC, worldVars
    <3> QED BY <3>2, <3>3 DEF Watched, BirthPC, CheckPC, SpawnPC
  <2>3. CASE d.ret # "due" \/ e # "prespawn"
    BY <1>s, <1>o, <2>1, <2>3, OffStartFails
  <2> QED BY <2>2, <2>3
<1>4. CASE JournalChild
  BY <1>4, <1>b DEF JournalChild, BirthPC, goto
<1>5. CASE Contain
  BY <1>s, <1>5, <1>o, OffStartFails DEF Contain
<1>6. CASE Qualify
  BY <1>6, <1>b DEF Qualify, BirthPC, goto
<1>7. CASE QualifyFails
  BY <1>s, <1>7, <1>o, OffStartFails DEF QualifyFails
<1>8. CASE QualifyExited
  <2>1. CASE d' = [d EXCEPT !.pc = "reschedule"]
    <3>1. d'.pc = "reschedule" /\ d'.cur = d.cur
      BY <1>s, <2>1 DEF Control
    <3>2. handle'[d.cur] = "none"
      BY <1>s, <1>8 DEF QualifyExited, let_go, WorldTypeOK
    <3> QED BY <3>1, <3>2 DEF Watched, BirthPC, CheckPC, SpawnPC
  <2>2. CASE \/ \E e \in {"uncertain", "exited", "store"} :
                   d' = start_fails(d, e)
             \/ d' = next_due(d)
    BY <1>s, <1>o, <2>2, OffStartFails, OffNext
  <2> QED BY <1>8, <2>1, <2>2 DEF QualifyExited
<1>9. CASE MarkRunning
  <2>0. Append(d.started, d.cur) \in Seq(Services)
    BY <1>s DEF Control
  <2>1. [d EXCEPT !.started = Append(d.started, d.cur)] \in Control
    BY <1>s, <2>0 DEF Control
  <2>2. \/ d' = next_due(d) \/ d' = start_fails(d, "store")
        \/ d' = start_next([d EXCEPT !.started = Append(d.started, d.cur)],
                           d.todo)
    BY <1>9 DEF MarkRunning
  <2> QED BY <1>s, <1>o, <2>1, <2>2, OffStartFails, OffNext, OffStartNext
<1>10. CASE Finish
  <2>1. d' = at("idle") \/ d' = start_fails(d, "store")
    BY <1>10 DEF Finish, return
  <2> QED BY <1>s, <1>o, <2>1, OffStartFails, OffGoto DEF OffPC
<1> QED BY <1>1, <1>2, <1>3, <1>4, <1>5, <1>6, <1>7, <1>8, <1>9, <1>10
        DEF StartOne

\* Aborts, down, restart, shutdown and the life of the process lead to no
\* watched position but the dependency check of restart.
LEMMA OtherWatched ==
    ASSUME DInv, AbortStart \/ Stop \/ Reconcile \/ Resume
    PROVE  Watched(d', svc', handle')
<1>s. StoreTypeOK /\ WorldTypeOK /\ d \in Control /\ d.cur \in Services
  BY DEF DInv, Inv, Sound, Control
<1>p. {"cleanup_exit", "cleanup_mark", "down_svc", "down_stop",
       "down_stopped", "down_quarantine", "down_final", "idle", "dead",
       "restart_stop_invoke", "restart_stop", "restart_stopped", "shutdown",
       "shutdown_record", "shutdown_end", "resume"} \subseteq OffPC
  BY DEF OffPC
<1>o. ASSUME d'.pc \in OffPC \/ Off(d') PROVE Watched(d', svc', handle')
  BY <1>o, OffPositions, OffWatched DEF Off
<1>a. ASSUME d' = at("idle") \/ d' = at("dead")
      PROVE  Watched(d', svc', handle')
  BY <1>s, <1>a, <1>p, <1>o, OffGoto
<1>g. ASSUME NEW p \in OffPC, goto(p) PROVE Watched(d', svc', handle')
  BY <1>s, <1>g, <1>o, OffGoto DEF goto
<1>t. ASSUME NEW p \in OffPC, NEW q,
             \/ d' = [d EXCEPT !.pc = p, !.todo = q]
             \/ d' = [d EXCEPT !.pc = p, !.err = q]
      PROVE  Watched(d', svc', handle')
  <2>1. d'.pc = p
    BY <1>s, <1>t DEF Control
  <2> QED BY <1>o, <2>1
<1>1. CASE AbortStart
  <2>1. CASE Finalize
    BY <1>a, <1>o, <2>1, OffShutdown DEF Finalize, return
  <2>2. CASE Cleanup
    BY <1>p, <1>g, <1>t, <2>2 DEF Cleanup
  <2>3. CASE Abort \/ AbortOthers \/ CleanupExit \/ CleanupMark \/ Survivors
    <3>1. \E q : \/ d' = cleanup_next(d, q) \/ d' = survivors_next(d, q)
                 \/ d' = abort_others_next(d, q)
      BY <2>3 DEF Abort, AbortOthers, CleanupExit, CleanupMark, Survivors
    <3> QED BY <1>s, <1>o, <3>1, OffNext
  <2> QED BY <1>1, <2>1, <2>2, <2>3 DEF AbortStart
<1>2. CASE Stop
  <2>1. CASE DownSvc
    <3>1. d.pc = "down_svc"
      BY <2>1 DEF DownSvc
    <3>2. \/ d' = [d EXCEPT !.pc = "down_stop"]
          \/ d' = [d EXCEPT !.pc = "down_quarantine"]
          \/ d' = [d EXCEPT !.todo = Tail(d.todo)]
      BY <2>1 DEF DownSvc, goto
    <3>3. d'.pc \in {"down_stop", "down_quarantine", "down_svc"}
      BY <1>s, <3>1, <3>2 DEF Control
    <3> QED BY <1>o, <1>p, <3>3
  <2>2. CASE \/ DownBegin \/ DownStop \/ DownStopped \/ DownFinish
             \/ DownFinal \/ RestartBegin
    BY <1>p, <1>a, <1>g, <1>t, <2>2 DEF DownBegin, DownStop, DownStopped,
       DownFinish, DownFinal, RestartBegin, return
  <2>3. CASE DownQuarantine
    <3>1. CASE UNCHANGED d
      <4>1. d'.pc = "down_quarantine"
        BY <2>3, <3>1 DEF DownQuarantine
      <4> QED BY <1>o, <1>p, <4>1
    <3> QED BY <1>p, <1>g, <2>3, <3>1 DEF DownQuarantine
  <2>4. CASE Restart
    <3>1. CASE d' = [d EXCEPT !.pc = "deps", !.ret = "pre_restart",
                              !.deps = DependsOn[d.cur]]
      <4>1. d'.pc = "deps" /\ d'.ret = "pre_restart"
        BY <1>s, <3>1 DEF Control
      <4> QED BY <1>o, <4>1 DEF Off, CheckPC
    <3> QED BY <1>a, <2>4, <3>1 DEF Restart
  <2>5. CASE RestartStopInvoke \/ RestartStop \/ RestartStopped
    <3>1. \/ goto("restart_stop") \/ goto("restart_stopped")
          \/ begin_starting(d, <<d.cur>>)
          \/ \E e : e # "prespawn" /\ d' = start_fails(d, e)
      BY <2>5 DEF RestartStopInvoke, RestartStop, RestartStopped, Journal,
         stop_errors
    <3> QED BY <1>s, <1>o, <1>p, <1>g, <3>1, OffStartNext, OffStartFails
  <2>6. CASE \/ ShutdownAbsent \/ ShutdownStop \/ ShutdownRecord
             \/ ShutdownEnd
    BY <1>p, <1>a, <1>g, <1>o, <1>t, <2>6, OffShutdown DEF ShutdownAbsent,
       ShutdownStop, ShutdownRecord, ShutdownEnd, shutdown_next, process_ends
  <2> QED BY <1>2, <2>1, <2>2, <2>3, <2>4, <2>5, <2>6 DEF Stop
<1>3. CASE Reconcile
  BY <1>3, <1>p, <1>a, <1>g DEF Reconcile
<1>4. CASE Resume
  <2>1. [d EXCEPT !.job = "resume", !.order = Order] \in Control
    BY <1>s, OrderAssumption DEF Control, Job
  <2> QED BY <1>4, <1>a, <1>o, <2>1, OffStartNext DEF Resume, return
<1> QED BY <1>1, <1>2, <1>3, <1>4

\* Requests, signals, crashes and exits: the daemon's position changes only
\* to the start of a phase, and no handle appears.
LEMMA EnvironmentWatched ==
    ASSUME DInv, Environment
    PROVE  Watched(d', svc', handle')
<1>s. StoreTypeOK /\ WorldTypeOK /\ d \in Control /\ d.cur \in Services
  BY DEF DInv, Inv, Sound, Control
<1>p. {"reconcile", "tick", "dead"} \subseteq OffPC
  BY DEF OffPC
<1>o. ASSUME d'.pc \in OffPC \/ Off(d') PROVE Watched(d', svc', handle')
  BY <1>o, OffPositions, OffWatched DEF Off
<1>1. CASE Boot \/ Crash
  BY <1>s, <1>1, <1>p, <1>o, OffGoto DEF Boot, Crash, process_ends
<1>2. CASE SigTerm
  BY <1>s, <1>2, <1>p, <1>o, OffGoto, OffShutdown DEF SigTerm, process_ends
<1>3. CASE Accept
  <2>1. at("tick") \in Control /\ at("tick").pc = "tick"
    BY <1>p, AtControl, OffPositions
  <2>2. d'.pc = "tick"
    BY <1>3, <2>1 DEF Accept, Control
  <2> QED BY <1>p, <1>o, <2>2
<1>4. CASE \E s \in Services : TracerExits(s) \/ TreeEnds(s)
  <2>1. UNCHANGED <<svc, handle, d>>
    BY <1>4 DEF TracerExits, TreeEnds, dbVars
  <2> QED BY <2>1 DEF DInv, Watched
<1> QED BY <1>1, <1>2, <1>3, <1>4 DEF Environment

-----------------------------------------------------------------------------
(* The theorem *)

\* A fresh installation has no deadline.
LEMMA InitDInv == Init => DInv
<1> SUFFICES ASSUME Init PROVE DInv
  OBVIOUS
<1>1. Rows(svc, handle)
  BY DEF Init, StoreInit, Rows, Counted, proven_backoff
<1>2. d = at("dead") /\ "dead" \in OffPC
  BY DEF Init, OffPC
<1>3. Inv
  BY InitInv
<1>4. Watched(d, svc, handle)
  BY <1>2, <1>3, OffGoto, OffWatched DEF Inv, Sound
<1> QED BY <1>1, <1>3, <1>4 DEF DInv

\* Every step keeps the invariant.
LEMMA NextDInv == DInv /\ [Next]_vars => DInv'
<1> SUFFICES ASSUME DInv, [Next]_vars PROVE DInv'
  OBVIOUS
<1>i. Inv /\ Inv'
  BY NextInv DEF DInv
<1>1. CASE UNCHANGED vars
  BY <1>i, <1>1 DEF vars, DInv, Rows, Watched
<1>2. CASE Next
  <2>s. StoreTypeOK /\ d \in Control /\ d.cur \in Services
    BY <1>i DEF Inv, Sound, Control
  <2>1. CASE Tame
    <3>1. Rows(svc', handle')
      <4> SUFFICES ASSUME NEW s \in Services
                   PROVE  /\ Counted(svc'[s])
                          /\ proven_backoff(svc'[s]) => handle'[s] = "none"
        BY DEF Rows
      <4>1. TameRow(svc[s], svc'[s]) /\ Counted(svc[s])
            /\ (proven_backoff(svc[s]) => handle[s] = "none")
        BY <2>1 DEF Tame, DInv, Rows
      <4>2. Counted(svc'[s])
        BY <4>1 DEF TameRow
      <4>3. ASSUME proven_backoff(svc'[s]) PROVE handle'[s] = "none"
        <5>1. proven_backoff(svc[s]) /\ handle[s] = "none"
          BY <4>1, <4>3 DEF TameRow
        <5>2. ~(s = d.cur /\ d.pc \in BirthPC)
          BY <5>1 DEF DInv, Watched
        <5> QED BY <1>i, <1>2, <5>1, <5>2, OnlyBirth
      <4> QED BY <4>2, <4>3
    <3>2. Watched(d', svc', handle')
      BY <1>2, <2>1, SuperviseWatched, PrepareWatched, DependWatched,
         StartOneWatched, OtherWatched, EnvironmentWatched
         DEF Next, DaemonStep
    <3> QED BY <1>i, <3>1, <3>2 DEF DInv
  <2>2. CASE Deadlines
    <3>1. Rows(svc', handle)
      <4>1. CASE TickSchedule
        <5>1. Head(d.todo) \in Services
          BY <1>i, <4>1, HeadTail
             DEF TickSchedule, Inv, Sound, LoopPC, Control
        <5> QED BY <2>s, <4>1, <5>1, DeadlineRows
                DEF TickSchedule, DInv, Watched
      <4>2. CASE DepSchedule
        <5>1. Head(d.deps) \in Services
          BY <1>i, <4>2, HeadTail DEF DepSchedule, Inv, Sound, Control
        <5> QED BY <2>s, <4>2, <5>1, DeadlineRows
                DEF DepSchedule, DInv, Watched
      <4>3. CASE Reschedule
        BY <2>s, <4>3, DeadlineRows DEF Reschedule, DInv, Watched
      <4>4. CASE Restore
        <5>1. handle[d.cur] = "none"
          BY <4>4 DEF Restore, DInv, Watched
        <5>2. CASE restore_restart_backoff_ok(d.cur)
                   /\ restore_restart_backoff(d.cur)
          BY <2>s, <5>1, <5>2, DeadlineRows DEF DInv
        <5>3. CASE Ignoring(mark_runtime_unknown(d.cur))
          <6>1. Tame
            BY <2>s, <5>3, IgnoredTame
          <6> QED BY <6>1 DEF Tame, TameRow, DInv, Rows
        <5> QED BY <4>4, <5>2, <5>3 DEF Restore
      <4> QED BY <2>2, <4>1, <4>2, <4>3, <4>4 DEF Deadlines
    <3>2. UNCHANGED handle
      BY <2>2 DEF Deadlines, TickSchedule, DepSchedule, Reschedule, Restore,
         worldVars
    <3>3. Watched(d', svc', handle')
      BY <2>2, SuperviseWatched, DependWatched
         DEF Deadlines, Supervise, Depend
    <3> QED BY <1>i, <3>1, <3>2, <3>3 DEF DInv
  <2> QED BY <1>i, <1>2, <2>1, <2>2, OnlyDeadlines
<1> QED BY <1>1, <1>2

\* tick never meets its collision or invalid-attempt branch: whatever fails
\* between the exit of a child and the spawn of the next, a pending restart
\* deadline is for a service that no handle refers to, with an attempt count
\* between 1 and MAX_RESTART_ATTEMPTS.
THEOREM DeadlinesAreSound == Spec => []RestartDeadlineSound
<1>1. DInv => RestartDeadlineSound
  <2> SUFFICES ASSUME DInv, NEW s \in Services, proven_backoff(svc[s])
               PROVE  /\ handle[s] = "none"
                      /\ svc[s].attempts \in 1..MAX_RESTART_ATTEMPTS
    BY DEF RestartDeadlineSound
  <2>1. handle[s] = "none" /\ svc[s].attempts >= 1
    BY DEF DInv, Rows, Counted, proven_backoff
  <2>2. svc[s].attempts \in 0..MAX_RESTART_ATTEMPTS
    BY DEF DInv, Inv, StoreTypeOK, ServiceRow
  <2> QED BY <2>1, <2>2, AttemptsAssumption
<1> QED BY <1>1, InitDInv, NextDInv, PTL DEF Spec

=============================================================================
