--------------------------- MODULE LifecycleProofs --------------------------
(***************************************************************************)
(* What an operation does to the stack (NoPartialStack, OperationFinished, *)
(* StopAfterDependents and StatusDerived of module Runtime), for every     *)
(* stack, dependency graph and restart limit.                              *)
(*                                                                         *)
(* Held says what may be owned: a service that is wanted, of a committed   *)
(* revision or of the candidate being installed, and at each position of   *)
(* the daemon only those that its work lists name (May).  StopInv says     *)
(* that those lists are in reverse start order.  FF says where an          *)
(* operation is open, and which of its services have no outcome yet.  SI   *)
(* says where the state of the stack may differ from that of its services  *)
(* (Stale): only where every way on refreshes it.                          *)
(*                                                                         *)
(* NoPartialStack holds with every set of faults.  The other three need a  *)
(* database that accepts writes: without one, shutdown falls back to the   *)
(* order of the handles' names, an operation stays open for the next cold  *)
(* start, and so does a status that has not been refreshed.                *)
(***************************************************************************)
EXTENDS RuntimeProofs

\* From the choice of a service of an operation to the end of its start.
OnlyStartPC == {"cand_svc", "logs", "install_invoke", "install",
                "install_unknown", "install_failed", "installed",
                "start_invoke", "finish"}
StartPC == OnlyStartPC \cup BirthPC \cup {"deps", "dep_schedule"}
Starting(c) == c.pc \in StartPC /\ c.ret = "start"
AbortPC == {"abort", "abort_others", "cleanup", "cleanup_exit",
            "cleanup_mark", "survivors", "finalize"}
RestartPC == {"restart_stop_invoke", "restart_stop", "restart_stopped"}
DownLoopPC == {"down_svc", "down_stop", "down_stopped"}
DownPC == DownLoopPC \cup {"down_quarantine", "down_final"}
UpPC == {"up", "up_check", "begin_current", "cand_begin"}
ShutPC == {"shutdown", "shutdown_record"}

\* Which job passes through which positions.
Route(c) ==
    /\ c.job = "up" => c.def \in Defs
    /\ c.pc \in OnlyStartPC => c.ret = "start"
    /\ c.pc \in BirthPC => c.ret \in {"start", "due"}
    /\ c.pc = "restart_invoke" => c.ret = "due"
    /\ c.pc \in RestartPC \cup {"restart_begin"} => c.ret = "pre_restart"
    /\ \/ c.pc \in UpPC
       \/ c.pc \in {"deps", "dep_schedule"} /\ c.ret = "up_check"
       => c.job = "up" /\ (c.pc = "begin_current" => c.order # << >>)
    /\ \/ c.pc \in RestartPC \cup {"restart", "restart_begin"}
       \/ c.pc \in {"deps", "dep_schedule"} /\ c.ret = "pre_restart"
       => c.job = "restart"

\* The services that may be owned where Limited holds.
May(c) ==
    IF c.pc \in {"cleanup", "survivors", "down_svc", "down_stop", "shutdown"}
    THEN ToSet(c.todo)
    ELSE IF c.pc \in {"cleanup_exit", "cleanup_mark", "down_stopped",
                      "shutdown_record"} THEN ToSet(Tail(c.todo))
    ELSE IF c.pc \in {"finalize", "cand_begin", "down_final"} THEN {}
    ELSE IF c.pc \in {"qualify", "mark_running"}
    THEN ToSet(c.started) \cup {c.cur}
    ELSE ToSet(c.started)

\* A candidate is being installed or cleaned up, or everything is stopped.
Limited(c, candidate) ==
    \/ c.pc \in DownLoopPC \cup ShutPC \cup {"cand_begin", "down_final"}
    \/ candidate /\ (Starting(c) \/ c.pc \in AbortPC)

\* The desired columns of the stack and of its services agree.
Desire ==
    /\ \A s \in Services :
          svc[s].desired = "running" => stack.desired = "running"
    /\ d.pc \in DownPC => \A s \in Services : svc[s].desired = "stopped"
    /\ op.candidate => op.def # NoDef
\* What the daemon owns is wanted, and belongs to a revision that is
\* committed or, until its operation ends, to the candidate.
Wanted ==
    \A s \in Services : handle[s] = "owned" =>
       /\ svc[s].desired = "running" \/ d.pc \in DownPC
       /\ \/ committed
          \/ op.candidate /\ (Starting(d) \/ d.pc \in AbortPC)
\* The work lists miss nothing that is owned.
Bounded ==
    Limited(d, op.candidate) =>
       \A s \in Services : handle[s] = "owned" => s \in May(d)
\* What a start, a restart and a scheduled restart are for.
Purpose ==
    /\ Starting(d) =>
          /\ committed \/ op.candidate
          /\ svc[d.cur].desired = "running"
          /\ \A t \in ToSet(d.todo) : svc[t].desired = "running"
    /\ op.candidate /\ (Starting(d) \/ d.pc \in AbortPC) => d.job = "up"
    /\ d.pc \in RestartPC =>
          committed /\ ~op.candidate /\ svc[d.cur].desired = "running"
    /\ d.pc \in BirthPC \cup {"deps", "dep_schedule", "restart_invoke"}
       /\ d.ret = "due" => committed
    /\ d.pc \in BirthPC /\ d.ret = "due" => svc[d.cur].desired = "running"

Held == Route(d) /\ Desire /\ Wanted /\ Bounded /\ Purpose

-----------------------------------------------------------------------------
(* The order of the work lists *)

\* q is the head of the start order, backwards.
Backwards(q) ==
    /\ Len(q) <= Len(Order)
    /\ \A i \in 1..Len(q) : q[i] = Order[(Len(q) + 1) - i]

\* A down, and a shutdown that can read the revision, stop backwards.
StopInv ==
    /\ committed
    /\ d.pc \in DownLoopPC \/ (d.pc \in ShutPC /\ "store" \notin Faults)
    => Backwards(d.todo)

-----------------------------------------------------------------------------
(* The services without an outcome *)

\* The operation has not said what became of s.
Open(s) == oprow[s].outcome = "null"
InOp(c) == Starting(c) \/ c.pc \in AbortPC \cup RestartPC
Away(c) == ~InOp(c) /\ c.pc \notin DownPC

\* Where an operation is open.
Unfinished ==
    /\ unfinished => InOp(d) \/ d.pc \in DownPC \cup {"dead", "reconcile"}
    /\ InOp(d) => unfinished
    /\ d.pc \in DownPC => op.kind = "down"

\* Which rows are not settled while it is.
Outcomes ==
    /\ Starting(d) =>
          /\ oprow[d.cur].outcome # "none"
          /\ \A t \in ToSet(d.todo) : oprow[t].outcome # "none"
    /\ d.pc \in RestartPC \cup {"abort"} => oprow[d.cur].outcome # "none"
    /\ Starting(d) \/ d.pc \in RestartPC \cup {"abort"} =>
          \A s \in Services : Open(s) =>
             \/ s = d.cur
             \/ d.job # "restart" /\ s \in ToSet(d.order)
    /\ Starting(d) \/ d.pc = "abort" =>
          \A s \in ToSet(d.started) : ~Open(s)
    /\ Away(d) \/ d.pc \in RestartPC => d.started = << >>
    /\ d.pc \in AbortPC \ {"abort"} =>
          /\ oprow[d.cur].outcome = "failure"
          /\ \A s \in Services : Open(s) =>
                /\ d.pc = "abort_others"
                /\ s \in ToSet(d.todo) /\ s \notin ToSet(d.started)
                /\ s # d.cur

HInv == Inv /\ Held

-----------------------------------------------------------------------------
(* What most steps leave alone *)

\* The columns that Held reads.
Calm ==
    /\ \A s \in Services : svc'[s].desired = svc[s].desired
    /\ stack'.desired = stack.desired
    /\ stack'.def = stack.def
    /\ op'.candidate = op.candidate
    /\ op'.def = op.def

NoNewOwned ==
    \A s \in Services : handle'[s] = "owned" => handle[s] = "owned"

\* A write to one services row that keeps its desired state is calm.
LEMMA WriteCalm ==
    ASSUME StoreTypeOK, NEW s \in Services, NEW r,
           write_row(s, r) \/ write_refreshed(s, r),
           r.desired = svc[s].desired
    PROVE  /\ \A t \in Services : svc'[t].desired = svc[t].desired
           /\ stack'.desired = stack.desired
           /\ stack'.def = stack.def
<1>1. svc' = [svc EXCEPT ![s] = r]
  BY DEF write_row, write_refreshed
<1>2. \A t \in Services : svc'[t].desired = svc[t].desired
  BY <1>1 DEF StoreTypeOK
<1>3. CASE write_row(s, r)
  BY <1>2, <1>3 DEF write_row
<1>4. CASE write_refreshed(s, r)
  <2>1. PICK o : stack' = [stack EXCEPT !.observed = o]
    BY <1>4 DEF write_refreshed
  <2> QED BY <1>2, <2>1 DEF StoreTypeOK, StackRow
<1> QED BY <1>3, <1>4

\* The transactions that write one service, other than mark_stopped.
LEMMA RowCalm ==
    ASSUME StoreTypeOK, NEW s \in Services,
           \/ \E p : set_service_phase(s, p)
           \/ mark_installed(s) \/ mark_rootfs_unknown(s)
           \/ mark_starting(s) \/ mark_running(s)
           \/ \E unknown : mark_service_failed(s, unknown)
           \/ mark_restart_stop_invoked(s) \/ mark_restart_stopped(s)
           \/ record_exit(s) \/ mark_runtime_unknown(s)
           \/ \E attempts : schedule_restart(s, attempts)
           \/ mark_restart_invoked(s) \/ restore_restart_backoff(s)
           \/ mark_restart_starting(s) \/ mark_restart_running(s)
           \/ record_graceful_stop(s) \/ record_graceful_backoff_stop(s)
    PROVE  Calm /\ UNCHANGED op
<1>0. svc[s] \in ServiceRow
  BY DEF StoreTypeOK
<1>1. CASE mark_rootfs_unknown(s)
  BY <1>1 DEF mark_rootfs_unknown, Calm
<1>2. CASE ~mark_rootfs_unknown(s)
  <2>1. UNCHANGED op
    BY <1>2 DEF set_service_phase, mark_installed, mark_starting,
       mark_running, mark_service_failed, mark_restart_stop_invoked,
       mark_restart_stopped, record_exit, mark_runtime_unknown,
       schedule_restart, mark_restart_invoked, restore_restart_backoff,
       mark_restart_starting, mark_restart_running, record_graceful_stop,
       record_graceful_backoff_stop
  <2>w. ASSUME NEW r, write_row(s, r) \/ write_refreshed(s, r),
               r.desired = svc[s].desired
        PROVE  Calm /\ UNCHANGED op
    BY <2>1, <2>w, WriteCalm DEF Calm
  <2>2. ASSUME NEW p, set_service_phase(s, p) PROVE Calm /\ UNCHANGED op
    <3>1. [svc[s] EXCEPT !.phase = p].desired = svc[s].desired
      BY <1>0 DEF ServiceRow
    <3> QED BY <2>2, <2>w, <3>1 DEF set_service_phase
  <2>3. CASE mark_installed(s)
    <3>1. [svc[s] EXCEPT !.phase = "installed"].desired = svc[s].desired
      BY <1>0 DEF ServiceRow
    <3> QED BY <2>3, <2>w, <3>1 DEF mark_installed
  <2>4. CASE mark_starting(s)
    <3>1. [svc[s] EXCEPT !.observed = "starting", !.phase = "starting",
                         !.ident = "pid"].desired = svc[s].desired
      BY <1>0 DEF ServiceRow
    <3> QED BY <2>4, <2>w, <3>1 DEF mark_starting
  <2>5. CASE mark_running(s)
    <3>1. [svc[s] EXCEPT !.observed = "running", !.phase = "running",
                         !.ident = "session", !.attempts = 0,
                         !.backoff = FALSE].desired = svc[s].desired
      BY <1>0 DEF ServiceRow
    <3> QED BY <2>5, <2>w, <3>1 DEF mark_running
  <2>6. ASSUME NEW unknown, mark_service_failed(s, unknown)
        PROVE  Calm /\ UNCHANGED op
    <3>1. PICK x : write_refreshed(s, [svc[s] EXCEPT !.observed = x,
                                                     !.phase = x])
      BY <2>6 DEF mark_service_failed
    <3>2. [svc[s] EXCEPT !.observed = x, !.phase = x].desired
            = svc[s].desired
      BY <1>0 DEF ServiceRow
    <3> QED BY <2>w, <3>1, <3>2
  <2>7. CASE mark_restart_stop_invoked(s)
    <3>1. [svc[s] EXCEPT !.observed = "stopping",
                         !.phase = "restart_stop_invoked"].desired
            = svc[s].desired
      BY <1>0 DEF ServiceRow
    <3> QED BY <2>7, <2>w, <3>1 DEF mark_restart_stop_invoked
  <2>8. \A o, p : proven_row(svc[s], o, p).desired = svc[s].desired
    BY <1>0 DEF proven_row, ServiceRow
  <2>9. CASE \/ mark_restart_stopped(s) \/ record_exit(s)
             \/ record_graceful_stop(s)
    BY <2>8, <2>9, <2>w DEF mark_restart_stopped, record_exit,
       record_graceful_stop
  <2>10. CASE mark_runtime_unknown(s)
    <3>1. [svc[s] EXCEPT !.observed = "unknown", !.phase = "unknown",
                         !.backoff = FALSE].desired = svc[s].desired
      BY <1>0 DEF ServiceRow
    <3> QED BY <2>10, <2>w, <3>1 DEF mark_runtime_unknown
  <2>11. ASSUME NEW attempts, schedule_restart(s, attempts)
         PROVE  Calm /\ UNCHANGED op
    <3>1. [svc[s] EXCEPT !.observed = "restarting", !.phase = "backoff",
                         !.backoff = TRUE, !.attempts = attempts].desired
            = svc[s].desired
      BY <1>0 DEF ServiceRow
    <3> QED BY <2>11, <2>w, <3>1 DEF schedule_restart
  <2>12. CASE mark_restart_invoked(s)
    <3>1. [svc[s] EXCEPT !.observed = "starting", !.phase = "restart_invoked",
                         !.backoff = FALSE].desired = svc[s].desired
      BY <1>0 DEF ServiceRow
    <3> QED BY <2>12, <2>w, <3>1 DEF mark_restart_invoked
  <2>13. CASE restore_restart_backoff(s)
    <3>1. [svc[s] EXCEPT !.observed = "restarting", !.phase = "backoff",
                         !.backoff = TRUE].desired = svc[s].desired
      BY <1>0 DEF ServiceRow
    <3> QED BY <2>13, <2>w, <3>1 DEF restore_restart_backoff
  <2>14. CASE mark_restart_starting(s)
    <3>1. [svc[s] EXCEPT !.observed = "starting", !.phase = "restart_starting",
                         !.ident = "pid"].desired = svc[s].desired
      BY <1>0 DEF ServiceRow
    <3> QED BY <2>14, <2>w, <3>1 DEF mark_restart_starting
  <2>15. CASE mark_restart_running(s)
    <3>1. [svc[s] EXCEPT !.observed = "running", !.phase = "committed",
                         !.ident = "session", !.backoff = FALSE].desired
            = svc[s].desired
      BY <1>0 DEF ServiceRow
    <3> QED BY <2>15, <2>w, <3>1 DEF mark_restart_running
  <2>16. CASE record_graceful_backoff_stop(s)
    <3>1. [svc[s] EXCEPT !.observed = "stopped", !.phase = "shutdown_proven",
                         !.backoff = FALSE].desired = svc[s].desired
      BY <1>0 DEF ServiceRow
    <3> QED BY <2>16, <2>w, <3>1 DEF record_graceful_backoff_stop
  <2> QED BY <1>2, <2>2, <2>3, <2>4, <2>5, <2>6, <2>7, <2>9, <2>10, <2>11,
          <2>12, <2>13, <2>14, <2>15, <2>16
<1> QED BY <1>1, <1>2

\* The pieces of runtime.rs that write one service, or nothing.
LEMMA PieceCalm ==
    ASSUME StoreTypeOK, NEW s \in Services,
           \/ UNCHANGED dbVars \/ (\E ok : StoreFails(ok))
           \/ Ignoring(mark_runtime_unknown(s))
           \/ quarantine(s) \/ quarantine_if_owned(s)
           \/ schedule_or_give_up(s) \/ schedule_restart_after_exit(s)
           \/ \E unknown : record_failure(s, unknown)
    PROVE  Calm /\ UNCHANGED op
<1>1. ASSUME UNCHANGED dbVars PROVE Calm /\ UNCHANGED op
  BY <1>1 DEF Calm, dbVars
<1>2. ASSUME NEW ok, StoreFails(ok) PROVE Calm /\ UNCHANGED op
  BY <1>1, <1>2 DEF StoreFails
<1>3. ASSUME Ignoring(mark_runtime_unknown(s)) PROVE Calm /\ UNCHANGED op
  BY <1>2, <1>3, RowCalm DEF Ignoring
<1>4. CASE quarantine(s) \/ quarantine_if_owned(s)
  BY <1>1, <1>3, <1>4 DEF quarantine, quarantine_if_owned
<1>5. CASE schedule_or_give_up(s) \/ schedule_restart_after_exit(s)
  BY <1>1, <1>2, <1>5, RowCalm DEF schedule_or_give_up,
     schedule_restart_after_exit
<1>6. CASE \E unknown : record_failure(s, unknown)
  BY <1>2, <1>6, RowCalm DEF record_failure
<1> QED BY <1>1, <1>2, <1>3, <1>4, <1>5, <1>6

\* What the steps do to the handles, other than journalling a child.
LEMMA KeepsOwned ==
    ASSUME WorldTypeOK,
           \/ UNCHANGED handle \/ UNCHANGED worldVars
           \/ \E u : let_go(u) \/ drained(u) \/ stop_owned_child(u)
           \/ \E u : quarantine(u) \/ quarantine_if_owned(u)
           \/ \E u, v : /\ v # "owned"
                        /\ handle' = [handle EXCEPT ![u] = v]
           \/ process_ends \/ TickUncertain
    PROVE  NoNewOwned
BY DEF WorldTypeOK, NoNewOwned, worldVars, let_go, drained, stop_owned_child,
   quarantine, quarantine_if_owned, process_ends, TickUncertain

\* The steps that begin or end an operation.
Turning ==
    \/ BeginCurrent \/ CandBegin \/ UpConverge \/ Finish \/ Finalize
    \/ DownBegin \/ DownStopped \/ DownFinish \/ DownFinal
    \/ RestartBegin \/ Reconcile \/ Resume

\* All others are calm and leave the operations row alone.
LEMMA CalmNext ==
    ASSUME Inv, Next, ~Turning
    PROVE  Calm /\ UNCHANGED op
<1>s. StoreTypeOK /\ d.cur \in Services /\ d \in Control
  BY DEF Inv, Sound, Control
<1>u. ASSUME UNCHANGED dbVars PROVE Calm /\ UNCHANGED op
  BY <1>u DEF Calm, dbVars
<1>p. ASSUME NEW s \in Services,
           \/ UNCHANGED dbVars \/ (\E ok : StoreFails(ok))
           \/ Ignoring(mark_runtime_unknown(s))
           \/ quarantine(s) \/ quarantine_if_owned(s)
           \/ schedule_or_give_up(s) \/ schedule_restart_after_exit(s)
           \/ \E unknown : record_failure(s, unknown)
      PROVE  Calm /\ UNCHANGED op
  BY <1>s, <1>p, PieceCalm
<1>h. d.pc \in LoopPC => Head(d.todo) \in Services
  BY HeadTail DEF Inv, Sound, Control
<1>t. d.todo # << >> => Head(d.todo) \in Services
  BY <1>s, HeadTail DEF Control
<1>e. d.deps # << >> => Head(d.deps) \in Services
  BY <1>s, HeadTail DEF Control
<1>f. "dep_schedule" = d.pc => d.deps # << >>
  BY DEF Inv, Sound
<1>1. CASE Supervise
  <2>1. CASE TickUncertain \/ TickDue \/ Due
    BY <1>u, <2>1 DEF TickUncertain, TickDue, Due
  <2>2. CASE TickChild
    <3>1. Head(d.todo) \in Services
      BY <1>h, <2>2 DEF TickChild, LoopPC
    <3> QED BY <1>s, <1>u, <1>p, <2>2, <3>1, RowCalm DEF TickChild
  <2>3. CASE TickSchedule
    <3>1. Head(d.todo) \in Services
      BY <1>h, <2>3 DEF TickSchedule, LoopPC
    <3> QED BY <1>p, <2>3, <3>1 DEF TickSchedule
  <2>4. CASE RestartInvoke
    BY <1>s, <1>p, <2>4, RowCalm DEF RestartInvoke
  <2>5. CASE Restore
    BY <1>s, <1>p, <2>5, RowCalm DEF Restore
  <2>6. CASE Reschedule \/ DueUnknown
    BY <1>s, <1>p, <2>6 DEF Reschedule, DueUnknown
  <2> QED BY <1>1, <2>1, <2>2, <2>3, <2>4, <2>5, <2>6 DEF Supervise
<1>2. CASE Prepare
  <2>1. CASE Up \/ UpCheck \/ CandSvc \/ Install
    BY <1>u, <2>1 DEF Up, UpCheck, CandSvc, Install
  <2>2. CASE \/ MarkLogsPrepared \/ MarkInstallInvoked \/ MarkInstalled
             \/ MarkRootfsUnknown
    BY <1>s, <1>p, <2>2, RowCalm DEF MarkLogsPrepared, MarkInstallInvoked,
       MarkInstalled, MarkRootfsUnknown, Journal
  <2>3. CASE MarkInstallFailed
    BY <1>s, <1>p, <2>3, RowCalm DEF MarkInstallFailed
  <2> QED BY <1>2, <2>1, <2>2, <2>3 DEF Prepare, Turning
<1>3. CASE Depend
  <2>1. CASE DepsDone \/ DepAbsent \/ DepValid
    BY <1>u, <2>1 DEF DepsDone, DepAbsent, DepValid
  <2>2. CASE DepUnqualified \/ DepExitAmbiguous \/ DepExited \/ DepSchedule
    <3>1. Head(d.deps) \in Services
      BY <1>e, <1>f, <2>2 DEF DepUnqualified, DepExitAmbiguous, DepExited,
         DepSchedule
    <3> QED BY <1>s, <1>p, <2>2, <3>1, RowCalm DEF DepUnqualified,
            DepExitAmbiguous, DepExited, DepSchedule
  <2> QED BY <1>3, <2>1, <2>2 DEF Depend
<1>4. CASE StartOne
  <2>1. CASE Spawn \/ SpawnRefused \/ Contain \/ Qualify
    BY <1>u, <2>1 DEF Spawn, SpawnRefused, Contain, Qualify
  <2>2. CASE MarkStartInvoked
    BY <1>s, <1>u, <1>p, <2>2, RowCalm DEF MarkStartInvoked
  <2>3. CASE JournalChild
    BY <1>s, <1>u, <2>3, RowCalm DEF JournalChild
  <2>4. CASE QualifyFails
    BY <1>s, <1>p, <2>4 DEF QualifyFails
  <2>5. CASE QualifyExited
    BY <1>s, <1>p, <2>5, RowCalm DEF QualifyExited
  <2>6. CASE MarkRunning
    BY <1>s, <1>p, <2>6, RowCalm DEF MarkRunning
  <2> QED BY <1>4, <2>1, <2>2, <2>3, <2>4, <2>5, <2>6 DEF StartOne, Turning
<1>5. CASE AbortStart
  <2>1. CASE Abort
    BY <1>s, <1>p, <2>1 DEF Abort
  <2>2. CASE AbortOthers
    <3>1. Head(d.todo) \in Services
      BY <1>h, <2>2 DEF AbortOthers, LoopPC
    <3> QED BY <1>p, <2>2, <3>1 DEF AbortOthers
  <2>3. CASE Cleanup \/ CleanupExit \/ CleanupMark \/ Survivors
    <3>1. Head(d.todo) \in Services
      BY <1>h, <2>3 DEF Cleanup, CleanupExit, CleanupMark, Survivors, LoopPC
    <3> QED BY <1>s, <1>p, <2>3, <3>1, RowCalm DEF Cleanup, CleanupExit,
            CleanupMark, Survivors
  <2> QED BY <1>5, <2>1, <2>2, <2>3 DEF AbortStart, Turning
<1>6. CASE Stop
  <2>1. CASE DownSvc
    BY <1>s, <1>t, <1>p, <2>1, RowCalm DEF DownSvc
  <2>2. CASE DownStop \/ Restart \/ RestartStop \/ ShutdownEnd
    BY <1>u, <2>2 DEF DownStop, Restart, RestartStop, ShutdownEnd
  <2>3. CASE DownQuarantine
    BY <1>s, <1>p, <2>3 DEF DownQuarantine
  <2>4. CASE RestartStopInvoke \/ RestartStopped
    BY <1>s, <1>p, <2>4, RowCalm DEF RestartStopInvoke, RestartStopped,
       Journal
  <2>5. CASE ShutdownAbsent \/ ShutdownStop \/ ShutdownRecord
    <3>1. Head(d.todo) \in Services
      BY <1>h, <1>t, <2>5 DEF ShutdownAbsent, ShutdownStop, ShutdownRecord,
         LoopPC
    <3> QED BY <1>s, <1>u, <1>p, <2>5, <3>1, RowCalm DEF ShutdownAbsent,
            ShutdownStop, ShutdownRecord
  <2> QED BY <1>6, <2>1, <2>2, <2>3, <2>4, <2>5 DEF Stop, Turning
<1>7. CASE Environment
  BY <1>7, <1>u DEF Environment, Boot, Accept, SigTerm, Crash, TracerExits,
     TreeEnds
<1> QED BY <1>1, <1>2, <1>3, <1>4, <1>5, <1>6, <1>7
        DEF Next, DaemonStep, Turning

\* A child becomes owned only by the journal write of its start.
LEMMA OwnedNext ==
    ASSUME Inv, Next
    PROVE  NoNewOwned \/ JournalChild
<1>w. WorldTypeOK
  BY DEF Inv
<1>1. CASE Supervise
  BY <1>1, <1>w, KeepsOwned DEF Supervise, TickChild, TickSchedule,
     TickDue, Due, RestartInvoke, Restore, Reschedule, DueUnknown
<1>2. CASE Prepare
  BY <1>2, <1>w, KeepsOwned DEF Prepare, Up, UpCheck, UpConverge,
     BeginCurrent, CandBegin, CandSvc, MarkLogsPrepared, MarkInstallInvoked,
     Install, MarkInstalled, MarkRootfsUnknown, MarkInstallFailed, Journal
<1>3. CASE Depend
  BY <1>3, <1>w, KeepsOwned DEF Depend, DepsDone, DepAbsent, DepValid,
     DepUnqualified, DepExitAmbiguous, DepExited, DepSchedule
<1>4. CASE StartOne
  <2>1. CASE Spawn \/ Contain
    <3>1. \/ let_go(d.cur) \/ drained(d.cur)
          \/ \E v : v # "owned" /\ handle' = [handle EXCEPT ![d.cur] = v]
      BY <2>1 DEF Spawn, Contain
    <3> QED BY <1>w, <3>1, KeepsOwned
  <2> QED BY <1>4, <1>w, <2>1, KeepsOwned DEF StartOne, MarkStartInvoked,
        SpawnRefused, Qualify, QualifyFails, QualifyExited, MarkRunning,
        Finish
<1>5. CASE AbortStart
  BY <1>5, <1>w, KeepsOwned DEF AbortStart, Abort, AbortOthers, Cleanup,
     CleanupExit, CleanupMark, Survivors, Finalize
<1>6. CASE Stop
  BY <1>6, <1>w, KeepsOwned DEF Stop, DownBegin, DownSvc, DownStop,
     DownStopped, DownFinish, DownQuarantine, DownFinal, Restart,
     RestartBegin, RestartStopInvoke, Journal, RestartStop, RestartStopped,
     ShutdownAbsent, ShutdownStop, ShutdownRecord, ShutdownEnd
<1>7. CASE Reconcile \/ Resume \/ Environment
  BY <1>7, <1>w, KeepsOwned DEF Reconcile, Resume, Environment, Boot,
     Accept, SigTerm, Crash, TracerExits, TreeEnds
<1> QED BY <1>1, <1>2, <1>3, <1>4, <1>5, <1>6, <1>7 DEF Next, DaemonStep

-----------------------------------------------------------------------------
(* Where the daemon goes *)

\* The positions at which Held only asks that what is owned is wanted.
NeutralPC == {"dead", "reconcile", "resume", "idle", "tick", "tick_child",
              "tick_schedule", "tick_due", "due", "up", "up_check",
              "begin_current", "reschedule", "restore", "due_unknown",
              "down_begin", "restart", "restart_begin", "shutdown_end"}
Neutral(c) ==
    /\ Route(c)
    /\ \/ c.pc \in NeutralPC
       \/ c.pc \in {"deps", "dep_schedule"}
          /\ c.ret \in {"up_check", "pre_restart"}

\* Fields that most steps keep.
SameTask(c, e) ==
    /\ e.job = c.job /\ e.def = c.def /\ e.cur = c.cur /\ e.todo = c.todo
    /\ e.order = c.order /\ e.started = c.started /\ e.ret = c.ret

\* The position sets do not overlap.
LEMMA Positions ==
    /\ NeutralPC \cap (StartPC \cup AbortPC \cup RestartPC \cup DownPC
                       \cup ShutPC \cup {"cand_begin", "restart_invoke"}) = {}
    /\ AbortPC \cap (StartPC \cup RestartPC \cup DownPC \cup ShutPC
                     \cup {"cand_begin", "restart_invoke"}) = {}
    /\ RestartPC \cap (StartPC \cup DownPC \cup ShutPC
                       \cup {"cand_begin", "restart_invoke"}) = {}
    /\ DownPC \cap (StartPC \cup ShutPC
                    \cup {"cand_begin", "restart_invoke"}) = {}
    /\ StartPC \cap (ShutPC \cup {"cand_begin", "restart_invoke"}) = {}
    /\ ShutPC \cap {"cand_begin", "restart_invoke"} = {}
    /\ OnlyStartPC \subseteq StartPC /\ BirthPC \subseteq StartPC
    /\ {"deps", "dep_schedule"} \subseteq StartPC
    /\ OnlyStartPC \cap (BirthPC \cup {"deps", "dep_schedule"}) = {}
    /\ {"deps", "dep_schedule"} \cap (UpPC \cup BirthPC) = {}
    /\ UpPC \subseteq NeutralPC \cup {"cand_begin"}
    /\ DownLoopPC \cup {"down_quarantine", "down_final"} \subseteq DownPC
    /\ {"restart", "restart_begin"} \subseteq NeutralPC
    /\ "restart_invoke" \notin UpPC
BY DEF NeutralPC, StartPC, OnlyStartPC, BirthPC, AbortPC, RestartPC, DownPC,
   DownLoopPC, ShutPC, UpPC

\* What is owned at a neutral position is wanted and committed.
LEMMA NeutralHeld ==
    ASSUME HInv, Calm, NoNewOwned, Neutral(d'),
           \A s \in Services : handle'[s] = "owned" =>
              committed /\ svc[s].desired = "running"
    PROVE  Held'
<1>1. Route(d)' BY DEF Neutral, Route
<1>2. d'.pc \notin DownPC \cup ShutPC \cup RestartPC \cup AbortPC
                   \cup {"cand_begin", "restart_invoke"} /\ ~Starting(d')
      /\ ~(d'.pc \in BirthPC \cup {"deps", "dep_schedule", "restart_invoke"}
           /\ d'.ret = "due")
  BY Positions DEF Neutral, Starting, StartPC
<1>3. Desire'
  BY <1>2 DEF HInv, Held, Desire, Calm
<1>4. Wanted'
  BY DEF Wanted, Calm, committed
<1>5. Bounded'
  BY <1>2, Positions DEF Bounded, Limited
<1>6. Purpose'
  BY <1>2 DEF Purpose, Starting
<1> QED BY <1>1, <1>3, <1>4, <1>5, <1>6 DEF Held

\* Everywhere outside a start, an abort and down this is so.
LEMMA WantedThere ==
    ASSUME HInv, NoNewOwned,
           ~Starting(d), d.pc \notin AbortPC \cup DownPC
    PROVE  \A s \in Services : handle'[s] = "owned" =>
              committed /\ svc[s].desired = "running"
BY DEF HInv, Held, Wanted, NoNewOwned

\* From such a position to a neutral one.
LEMMA ToNeutral ==
    ASSUME HInv, Calm, NoNewOwned, Neutral(d'),
           ~Starting(d), d.pc \notin AbortPC \cup DownPC
    PROVE  Held'
BY NeutralHeld, WantedThere

\* Within the start of one service of an operation.
LEMMA StartingHeld ==
    ASSUME HInv, Calm, NoNewOwned, Starting(d), Starting(d'),
           SameTask(d, d'),
           d.pc \in {"qualify", "mark_running"} =>
              d'.pc \in {"qualify", "mark_running"}
    PROVE  Held'
<1>1. Route(d)'
  BY Positions DEF HInv, Held, Route, Starting, SameTask
<1>2. d'.pc \notin DownPC \cup ShutPC \cup RestartPC \cup AbortPC
                   \cup {"cand_begin", "restart_invoke"}
      /\ d.pc \notin DownPC \cup ShutPC \cup RestartPC \cup AbortPC
                   \cup {"cand_begin", "restart_invoke"}
  BY Positions DEF Starting
<1>3. Desire'
  BY <1>2 DEF HInv, Held, Desire, Calm
<1>4. Wanted'
  BY <1>2 DEF HInv, Held, Wanted, Calm, committed, NoNewOwned
<1>5. Bounded'
  <2>1. May(d) \subseteq May(d')
    BY <1>2 DEF May, SameTask, AbortPC, DownPC, DownLoopPC, ShutPC
  <2>2. Limited(d', op'.candidate) => Limited(d, op.candidate)
    BY <1>2, Positions DEF Limited, Calm
  <2> QED BY <2>1, <2>2 DEF HInv, Held, Bounded, NoNewOwned
<1>6. Purpose'
  <2>1. d'.ret = "start"
    BY DEF Starting
  <2>2. d.cur \in Services /\ ToSet(d.todo) \subseteq Services
    BY ToSetType DEF HInv, Inv, Sound, Control
  <2> QED BY <1>2, <2>1, <2>2
          DEF HInv, Held, Purpose, Calm, SameTask, committed
<1> QED BY <1>1, <1>3, <1>4, <1>5, <1>6 DEF Held

\* To the abort of an operation.
LEMMA ToAbort ==
    ASSUME HInv, Calm, NoNewOwned, d'.pc = "abort", SameTask(d, d'),
           Starting(d) \/ d.pc \in RestartPC,
           d.pc \in {"qualify", "mark_running"} => handle'[d.cur] # "owned"
    PROVE  Held'
<1>0. d'.pc \notin StartPC \cup DownPC \cup ShutPC \cup RestartPC
                   \cup {"cand_begin", "restart_invoke", "restart",
                         "restart_begin"} \cup UpPC
      /\ d'.pc \in AbortPC
  BY DEF StartPC, OnlyStartPC, BirthPC, DownPC, DownLoopPC, ShutPC,
     RestartPC, UpPC, AbortPC
<1>1. Route(d)'
  BY <1>0, Positions DEF HInv, Held, Route, SameTask, StartPC
<1>2. d.pc \notin DownPC \cup ShutPC \cup AbortPC
                   \cup {"cand_begin", "restart_invoke"}
  BY Positions DEF Starting
<1>3. Desire'
  BY <1>0, <1>2 DEF HInv, Held, Desire, Calm
<1>4. Wanted'
  BY <1>0, <1>2 DEF HInv, Held, Wanted, Calm, committed, NoNewOwned
<1>5. Bounded'
  <2>1. May(d') = ToSet(d.started)
    BY DEF May, SameTask
  <2>2. May(d) \subseteq ToSet(d.started) \cup {d.cur}
        /\ (d.pc \notin {"qualify", "mark_running"}
              => May(d) = ToSet(d.started))
    BY <1>2, Positions DEF May, Starting, AbortPC, DownPC, DownLoopPC,
       ShutPC
  <2>3. ASSUME op.candidate, NEW s \in Services, handle'[s] = "owned"
        PROVE  s \in ToSet(d.started)
    <3>1. Limited(d, op.candidate)
      BY <2>3 DEF HInv, Held, Purpose, Limited
    <3>2. handle[s] = "owned" /\ s \in May(d)
      BY <2>3, <3>1 DEF HInv, Held, Bounded, NoNewOwned
    <3> QED BY <2>2, <2>3, <3>2
  <2>4. ASSUME Limited(d', op'.candidate) PROVE op.candidate
    BY <1>0, <2>4, Positions DEF Limited, Calm, Starting
  <2> QED BY <2>1, <2>3, <2>4 DEF Bounded
<1>6. Purpose'
  BY <1>0, <1>2 DEF HInv, Held, Purpose, Calm, SameTask, Starting, StartPC
<1> QED BY <1>1, <1>3, <1>4, <1>5, <1>6 DEF Held

\* Within a scheduled restart.
LEMMA DueHeld ==
    ASSUME HInv, Calm, NoNewOwned, ~Starting(d),
           d.pc \notin AbortPC \cup DownPC,
           d'.pc \in BirthPC \cup {"deps", "dep_schedule", "restart_invoke"},
           d'.ret = "due", d'.job = "up" => d'.def \in Defs,
           committed,
           d'.cur \in Services,
           d'.pc \in BirthPC => svc[d'.cur].desired = "running"
    PROVE  Held'
<1>0. d'.pc \notin OnlyStartPC \cup DownPC \cup ShutPC \cup RestartPC
         \cup AbortPC
         \cup {"cand_begin", "restart", "restart_begin"} \cup UpPC
      /\ ~Starting(d')
  BY Positions DEF Starting
<1>1. Route(d)'
  BY <1>0, Positions DEF Route
<1>3. Desire'
  BY <1>0 DEF HInv, Held, Desire, Calm
<1>4. Wanted'
  BY <1>0, WantedThere DEF Wanted, Calm, committed
<1>5. Bounded'
  BY <1>0, Positions DEF Bounded, Limited
<1>6. Purpose'
  BY <1>0, Positions DEF Purpose, Calm, committed
<1> QED BY <1>1, <1>3, <1>4, <1>5, <1>6 DEF Held

\* A jump to a neutral position that belongs to no particular job.
LEMMA NeutralGoto ==
    ASSUME NEW c \in Control, NEW p \in NeutralPC,
           p \notin UpPC \cup {"restart", "restart_begin"},
           c.job = "up" => c.def \in Defs
    PROVE  Neutral([c EXCEPT !.pc = p]) /\ Neutral(at(p))
<1>0. p \notin OnlyStartPC \cup BirthPC \cup RestartPC \cup AbortPC
         \cup {"deps", "dep_schedule", "restart_invoke"}
  BY Positions
<1>1. /\ [c EXCEPT !.pc = p].pc = p /\ [c EXCEPT !.pc = p].job = c.job
      /\ [c EXCEPT !.pc = p].def = c.def
      /\ at(p).pc = p /\ at(p).job = "none"
  BY DEF Control, at
<1> QED BY <1>0, <1>1, Positions DEF Neutral, Route

\* After the tick, and between two scheduled restarts.
LEMMA NeutralNextDue ==
    ASSUME NEW c \in Control, c.job = "up" => c.def \in Defs
    PROVE  Neutral(next_due(c)) /\ Neutral(at("idle"))
<1>1. {"idle", "due", "down_begin", "up", "restart"} \subseteq NeutralPC
      /\ {"idle", "due", "down_begin"}
            \cap (UpPC \cup {"restart", "restart_begin"}) = {}
  BY DEF NeutralPC, UpPC
<1>2. \A p \in {"idle", "due", "down_begin"} :
         Neutral([c EXCEPT !.pc = p]) /\ Neutral(at(p))
  BY <1>1, NeutralGoto
<1>3. ASSUME NEW p \in {"up", "restart"}, c.job = p
      PROVE  Neutral([c EXCEPT !.pc = p])
  <2>1. p \notin OnlyStartPC \cup BirthPC \cup RestartPC
          \cup {"deps", "dep_schedule", "restart_invoke"}
    BY <1>1, Positions
  <2>2. /\ [c EXCEPT !.pc = p].pc = p /\ [c EXCEPT !.pc = p].job = c.job
        /\ [c EXCEPT !.pc = p].def = c.def
    BY DEF Control
  <2>3. p = "up" => p \notin {"restart", "restart_begin"}
    OBVIOUS
  <2>4. p = "restart" => p \notin UpPC
    BY DEF UpPC
  <2> QED BY <1>1, <1>3, <2>1, <2>2, <2>3, <2>4 DEF Neutral, Route
<1>4. Neutral(after_tick(c))
  BY <1>2, <1>3 DEF after_tick
<1> QED BY <1>2, <1>4 DEF next_due

\* A failed start.
LEMMA StartFailsTo ==
    ASSUME NEW c \in Control, c.job = "up" => c.def \in Defs, NEW e
    PROVE  /\ c.ret # "due" => /\ start_fails(c, e).pc = "abort"
                               /\ SameTask(c, start_fails(c, e))
           /\ c.ret = "due" => Neutral(start_fails(c, e))
<1>1. {"restore", "due_unknown"} \subseteq NeutralPC
      /\ {"restore", "due_unknown"}
            \cap (UpPC \cup {"restart", "restart_begin"}) = {}
  BY DEF NeutralPC, UpPC
<1>2. c.ret = "due" => Neutral(start_fails(c, e))
  BY <1>1, NeutralGoto DEF start_fails
<1>3. c.ret # "due" => /\ start_fails(c, e).pc = "abort"
                       /\ SameTask(c, start_fails(c, e))
  BY DEF start_fails, Control, SameTask
<1> QED BY <1>2, <1>3

\* A failed dependency check.
LEMMA DepsFailedTo ==
    ASSUME NEW c \in Control, c.job = "up" => c.def \in Defs
    PROVE  /\ c.ret = "start" => /\ deps_failed(c).pc = "abort"
                                 /\ SameTask(c, deps_failed(c))
           /\ c.ret # "start" => Neutral(deps_failed(c))
<1>1. [c EXCEPT !.deps = << >>] \in Control
      /\ [c EXCEPT !.deps = << >>].job = c.job
      /\ [c EXCEPT !.deps = << >>].def = c.def
  BY EmptyType DEF Control
<1>2. c.ret # "start" => Neutral(deps_failed(c))
  BY <1>1, NeutralNextDue DEF deps_failed
<1>3. c.ret = "start" => /\ deps_failed(c).pc = "abort"
                         /\ SameTask(c, deps_failed(c))
  BY DEF deps_failed, Control, SameTask
<1> QED BY <1>2, <1>3

\* The next service of a starting operation.
LEMMA StartNextTo ==
    ASSUME NEW c \in Control, NEW q \in Seq(Services)
    PROVE  LET e == start_next(c, q) IN
           /\ e.pc \in {"finish", "cand_svc", "deps"}
           /\ e.job = c.job /\ e.def = c.def /\ e.started = c.started
           /\ e.order = c.order
           /\ q = << >> => /\ e.pc = "finish" /\ e.cur = c.cur
                           /\ e.todo = << >> /\ e.ret = c.ret
           /\ q # << >> => /\ e.pc \in {"cand_svc", "deps"}
                           /\ e.cur = Head(q) /\ e.todo = Tail(q)
                           /\ e.ret = "start"
<1>1. CASE q = << >>
  <2>1. start_next(c, q) = [c EXCEPT !.pc = "finish", !.todo = << >>]
    BY <1>1 DEF start_next
  <2> QED BY <1>1, <2>1 DEF Control
<1>2. CASE q # << >>
  <2>1. PICK p \in {"cand_svc", "deps"} :
           start_next(c, q) =
             [c EXCEPT !.pc = p, !.cur = Head(q), !.todo = Tail(q),
                       !.deps = DependsOn[Head(q)], !.ret = "start"]
    BY <1>2 DEF start_next
  <2> QED BY <1>2, <2>1 DEF Control
<1> QED BY <1>1, <1>2

\* Held in the new state, at the next service of an operation, at its end or
\* at its abort.
LEMMA StartHeld ==
    ASSUME \/ d'.pc \in {"finish", "cand_svc", "deps"} /\ d'.ret = "start"
           \/ d'.pc = "abort",
           d'.job = "up" => d'.def \in Defs,
           Desire',
           \A s \in Services : handle'[s] = "owned" =>
              svc'[s].desired = "running" /\ (committed' \/ op'.candidate),
           op'.candidate =>
              /\ d'.job = "up"
              /\ \A s \in Services :
                    handle'[s] = "owned" => s \in ToSet(d'.started),
           committed' \/ op'.candidate,
           svc'[d'.cur].desired = "running",
           \A t \in ToSet(d'.todo) : svc'[t].desired = "running"
    PROVE  Held'
<1>0. /\ d'.pc \notin DownPC \cup DownLoopPC \cup ShutPC \cup RestartPC
                   \cup {"cand_begin", "restart_invoke", "restart",
                         "restart_begin"} \cup UpPC \cup BirthPC
      /\ d'.pc \in AbortPC \/ Starting(d')
      /\ d'.pc \in OnlyStartPC => d'.ret = "start"
      /\ d'.pc \in {"deps", "dep_schedule"} => d'.ret = "start"
  BY DEF StartPC, OnlyStartPC, BirthPC, DownPC, DownLoopPC, ShutPC,
     RestartPC, UpPC, AbortPC, Starting
<1>1. Route(d)'
  BY <1>0 DEF Route
<1>2. Wanted'
  BY <1>0 DEF Wanted
<1>3. May(d') = ToSet(d'.started)
  BY DEF May
<1>4. Bounded'
  BY <1>0, <1>3 DEF Bounded, Limited, DownPC
<1>5. Purpose'
  BY <1>0 DEF Purpose, Starting
<1> QED BY <1>1, <1>2, <1>4, <1>5 DEF Held

\* tick and the scheduled restarts, up to the dependency check.
LEMMA SuperviseHeld ==
    ASSUME HInv, Supervise, Calm, NoNewOwned
    PROVE  Held'
<1>s. d \in Control /\ d.cur \in Services /\ (d.job = "up" => d.def \in Defs)
  BY DEF HInv, Held, Route, Inv, Sound, Control
<1>p. {"tick_child", "tick_schedule", "tick_due", "idle"} \subseteq NeutralPC
      /\ {"tick_child", "tick_schedule", "tick_due", "idle"}
           \cap (UpPC \cup {"restart", "restart_begin"}) = {}
  BY DEF NeutralPC, UpPC
<1>q. d.pc \in NeutralPC \cup {"restart_invoke"}
  BY DEF Supervise, TickUncertain, TickChild, TickSchedule, TickDue, Due,
     RestartInvoke, Restore, Reschedule, DueUnknown, NeutralPC
<1>n. ~Starting(d) /\ d.pc \notin AbortPC \cup DownPC
  BY <1>q, Positions DEF Starting
<1>o. ASSUME Neutral(d') PROVE Held'
  BY <1>n, <1>o, ToNeutral
<1>g. ASSUME NEW c \in Control, c.job = d.job, c.def = d.def,
             \/ d' = next_due(c) \/ d' = at("idle")
             \/ \E p \in {"tick_child", "tick_schedule", "tick_due"} :
                   d' = [c EXCEPT !.pc = p]
      PROVE  Held'
  <2>1. Neutral(d')
    BY <1>s, <1>p, <1>g, NeutralGoto, NeutralNextDue
  <2> QED BY <1>o, <2>1
<1>t. ASSUME d.todo # << >>, tick_next PROVE Held'
  <2>1. [d EXCEPT !.todo = Tail(d.todo)] \in Control
    BY <1>s, <1>t, HeadTail DEF Control
  <2>2. \E p \in {"tick_child", "tick_due"} :
           d' = [[d EXCEPT !.todo = Tail(d.todo)] EXCEPT !.pc = p]
    BY <1>s, <1>t DEF tick_next, Control
  <2>3. [d EXCEPT !.todo = Tail(d.todo)].job = d.job
        /\ [d EXCEPT !.todo = Tail(d.todo)].def = d.def
    BY <1>s DEF Control
  <2> QED BY <1>g, <2>1, <2>2, <2>3
<1>l. d.pc \in {"tick_child", "tick_schedule"} => d.todo # << >>
  BY DEF HInv, Inv, Sound, LoopPC
<1>1. CASE TickUncertain
  <2>1. [d EXCEPT !.todo = Names] \in Control
    BY <1>s, NamesAssumption DEF Control
  <2>2. d' = [[d EXCEPT !.todo = Names] EXCEPT !.pc = "tick_child"]
    BY <1>s, <1>1 DEF TickUncertain, Control
  <2>3. [d EXCEPT !.todo = Names].job = d.job
        /\ [d EXCEPT !.todo = Names].def = d.def
    BY <1>s DEF Control
  <2> QED BY <1>g, <2>1, <2>2, <2>3
<1>2. CASE TickChild
  <2>1. tick_next \/ goto("tick_schedule")
    BY <1>2 DEF TickChild
  <2> QED BY <1>s, <1>g, <1>t, <1>l, <1>2, <2>1 DEF TickChild, goto
<1>3. CASE TickSchedule
  BY <1>t, <1>l, <1>3 DEF TickSchedule
<1>4. CASE TickDue
  <2>1. ASSUME NEW D \in SUBSET Services, d' = next_due([d EXCEPT !.due = D])
        PROVE  Held'
    <3>1. [d EXCEPT !.due = D] \in Control /\ [d EXCEPT !.due = D].job = d.job
          /\ [d EXCEPT !.due = D].def = d.def
      BY <1>s DEF Control
    <3> QED BY <1>g, <2>1, <3>1
  <2>2. CASE d' = at("idle")
    BY <1>s, <1>g, <2>2
  <2> QED BY <1>4, <2>1, <2>2 DEF TickDue, return
<1>5. CASE Due
  <2>1. PICK s \in d.due :
           \/ /\ committed
              /\ d' = [[d EXCEPT !.cur = s, !.due = d.due \ {s}]
                         EXCEPT !.pc = "deps", !.deps = DependsOn[s],
                                !.ret = "due"]
           \/ d' = next_due([d EXCEPT !.cur = s, !.due = d.due \ {s}])
    BY <1>5 DEF Due
  <2> DEFINE c == [d EXCEPT !.cur = s, !.due = d.due \ {s}]
  <2>2. c \in Control /\ c.job = d.job /\ c.def = d.def /\ s \in Services
    BY <1>s DEF Control
  <2>3. CASE /\ committed
             /\ d' = [c EXCEPT !.pc = "deps", !.deps = DependsOn[s],
                               !.ret = "due"]
    <3>1. /\ d'.pc = "deps" /\ d'.ret = "due" /\ d'.cur = s
          /\ d'.job = d.job /\ d'.def = d.def
      BY <1>s, <2>3 DEF Control
    <3>2. "deps" \notin BirthPC
      BY DEF BirthPC
    <3> QED BY <1>s, <1>n, <2>2, <2>3, <3>1, <3>2, DueHeld
  <2> HIDE DEF c
  <2>4. CASE d' = next_due(c)
    BY <1>g, <2>2, <2>4
  <2> QED BY <2>1, <2>3, <2>4 DEF c
<1>6. CASE RestartInvoke
  <2>0. d.ret = "due" /\ committed
    BY <1>6 DEF RestartInvoke, HInv, Held, Route, Purpose
  <2>1. CASE mark_restart_invoked_ok(d.cur) /\ goto("spawn")
    <3>1. /\ d'.pc = "spawn" /\ d'.ret = "due" /\ d'.cur = d.cur
          /\ d'.job = d.job /\ d'.def = d.def
      BY <1>s, <2>0, <2>1 DEF goto, Control
    <3>2. svc[d.cur].desired = "running" /\ "spawn" \in BirthPC
      BY <2>1 DEF mark_restart_invoked_ok, BirthPC
    <3> QED BY <1>s, <1>n, <2>0, <3>1, <3>2, DueHeld
  <2>2. CASE d' = next_due(d)
    BY <1>s, <1>g, <2>2
  <2> QED BY <1>6, <2>1, <2>2 DEF RestartInvoke
<1>7. CASE Restore \/ Reschedule \/ DueUnknown
  BY <1>s, <1>g, <1>7 DEF Restore, Reschedule, DueUnknown
<1> QED BY <1>1, <1>2, <1>3, <1>4, <1>5, <1>6, <1>7 DEF Supervise

\* A journal write of an operation that its error path aborts.
LEMMA JournalHeld ==
    ASSUME HInv, Calm, NoNewOwned, Starting(d),
           d.pc \notin {"qualify", "mark_running"},
           \/ \E e : d' = start_fails(d, e)
           \/ \E p \in StartPC : d' = [d EXCEPT !.pc = p]
    PROVE  Held'
<1>s. d \in Control /\ (d.job = "up" => d.def \in Defs) /\ d.ret = "start"
  BY DEF HInv, Held, Route, Inv, Sound, Starting
<1>1. CASE \E e : d' = start_fails(d, e)
  <2>1. d'.pc = "abort" /\ SameTask(d, d')
    BY <1>s, <1>1, StartFailsTo
  <2> QED BY <2>1, ToAbort
<1>2. ASSUME NEW p \in StartPC, d' = [d EXCEPT !.pc = p]
      PROVE  Held'
  <2>1. d'.pc = p /\ SameTask(d, d')
    BY <1>s, <1>2 DEF Control, SameTask
  <2>2. Starting(d')
    BY <1>s, <2>1 DEF Starting, SameTask
  <2> QED BY <2>1, <2>2, StartingHeld
<1> QED BY <1>1, <1>2

\* The steps of up and of the preparation of a candidate that write no more
\* than the row of one service.
LEMMA PrepareHeld ==
    ASSUME HInv, Prepare, ~Turning, Calm, NoNewOwned
    PROVE  Held'
<1>s. d \in Control /\ (d.job = "up" => d.def \in Defs)
      /\ StoreTypeOK /\ WorldTypeOK
  BY DEF HInv, Held, Route, Inv, Sound
<1>p. {"idle", "up", "up_check", "begin_current"} \subseteq NeutralPC
      /\ {"up", "up_check", "begin_current", "cand_begin"} \subseteq UpPC
      /\ "idle" \notin (UpPC \cup {"restart", "restart_begin"})
  BY DEF NeutralPC, UpPC
<1>i. ASSUME Neutral(d'), d.pc \in NeutralPC PROVE Held'
  BY <1>i, ToNeutral, Positions DEF Starting
<1>k. ASSUME d'.pc = "up_check", d'.job = "up", d'.def = d.def, d.job = "up"
      PROVE  Neutral(d')
  <2>1. d'.pc \notin OnlyStartPC \cup BirthPC \cup RestartPC
          \cup {"deps", "dep_schedule", "restart_invoke", "restart",
                "restart_begin"}
    BY <1>k, <1>p, Positions
  <2> QED BY <1>s, <1>p, <1>k, <2>1 DEF Neutral, Route
<1>r. Neutral(at("idle"))
  BY <1>s, NeutralNextDue
<1>1. CASE Up
  <2>0. d.pc = "up" /\ d.job = "up"
    BY <1>1, <1>p DEF Up, HInv, Held, Route
  <2>1. CASE return
    BY <1>p, <1>i, <1>r, <2>0, <2>1 DEF return
  <2>2. CASE d' = [d EXCEPT !.pc = "up_check", !.todo = Order]
    <3>1. d'.pc = "up_check" /\ d'.job = d.job /\ d'.def = d.def
      BY <1>s, <2>2 DEF Control
    <3> QED BY <1>p, <1>i, <1>k, <2>0, <3>1
  <2>3. CASE \* to a candidate: the stack is not committed, or is stopped
             /\ goto("cand_begin")
             /\ ~(committed /\ stack.desired # "stopped")
    <3>1. d'.pc = "cand_begin" /\ d'.job = "up" /\ d'.def = d.def
      BY <1>s, <2>0, <2>3 DEF goto, Control
    <3>2. ~Starting(d) /\ d.pc \notin AbortPC \cup DownPC
      BY <1>p, <2>0, Positions DEF Starting
    <3>3. \A s \in Services : handle'[s] # "owned"
      BY <2>3, <3>2, WantedThere DEF HInv, Held, Desire
    <3>4. "cand_begin" \notin OnlyStartPC \cup BirthPC \cup RestartPC
             \cup DownPC \cup AbortPC \cup StartPC
             \cup {"restart_invoke", "restart", "restart_begin", "deps",
                   "dep_schedule"}
      BY Positions
    <3>5. Route(d)'
      BY <1>s, <2>0, <3>1, <3>4 DEF Route
    <3>6. Desire'
      BY <3>1, <3>4 DEF HInv, Held, Desire, Calm
    <3>7. Wanted' /\ Bounded'
      BY <3>3 DEF Wanted, Bounded
    <3>8. Purpose'
      BY <3>1, <3>4 DEF Purpose, Starting
    <3> QED BY <3>5, <3>6, <3>7, <3>8 DEF Held
  <2>4. /\ stack.desired \in {"running", "stopped"}
        /\ \/ return
           \/ d' = [d EXCEPT !.pc = "up_check", !.todo = Order]
           \/ /\ goto("cand_begin")
              /\ ~(committed /\ stack.desired # "stopped")
    BY <1>1, <1>s DEF Up, StoreTypeOK, StackRow, Desired
  <2> QED BY <2>1, <2>2, <2>3, <2>4
<1>2. CASE UpCheck
  <2>0. d.pc = "up_check" /\ d.job = "up"
    BY <1>2, <1>p DEF UpCheck, HInv, Held, Route
  <2>1. CASE return
    BY <1>p, <1>i, <1>r, <2>0, <2>1 DEF return
  <2>2. CASE d' = [d EXCEPT !.order = Append(d.order, Head(d.todo)),
                            !.todo = Tail(d.todo)]
    <3>1. d'.pc = "up_check" /\ d'.job = d.job /\ d'.def = d.def
      BY <1>s, <2>0, <2>2 DEF Control
    <3> QED BY <1>p, <1>i, <1>k, <2>0, <3>1
  <2>3. CASE d' = [d EXCEPT !.pc = "deps", !.deps = <<Head(d.todo)>>,
                            !.ret = "up_check"]
    <3>1. d'.pc = "deps" /\ d'.job = d.job /\ d'.def = d.def
          /\ d'.ret = "up_check"
      BY <1>s, <2>3 DEF Control
    <3>2. "deps" \notin OnlyStartPC \cup BirthPC \cup RestartPC
             \cup {"restart_invoke", "restart", "restart_begin"}
      BY Positions
    <3>3. Neutral(d')
      BY <1>s, <2>0, <3>1, <3>2 DEF Neutral, Route
    <3> QED BY <1>p, <1>i, <2>0, <3>3
  <2> QED BY <1>2, <2>1, <2>2, <2>3 DEF UpCheck
<1>j. ASSUME d.pc \in OnlyStartPC PROVE Starting(d)
             /\ d.pc \notin {"qualify", "mark_running"}
  BY <1>j, Positions DEF HInv, Held, Route, Starting, BirthPC
<1>3. CASE \/ CandSvc \/ Install \/ MarkLogsPrepared \/ MarkInstallInvoked
           \/ MarkInstalled \/ MarkRootfsUnknown \/ MarkInstallFailed
  <2>1. d.pc \in OnlyStartPC
    BY <1>3 DEF CandSvc, Install, MarkLogsPrepared, MarkInstallInvoked,
       MarkInstalled, MarkRootfsUnknown, MarkInstallFailed, Journal,
       OnlyStartPC
  <2>2. {"deps", "logs", "install_invoke", "install", "installed",
         "install_unknown", "install_failed"} \subseteq StartPC
    BY DEF StartPC, OnlyStartPC
  <2>3. \/ \E e : d' = start_fails(d, e)
        \/ \E p \in StartPC : d' = [d EXCEPT !.pc = p]
    BY <1>3, <2>2 DEF CandSvc, Install, MarkLogsPrepared,
       MarkInstallInvoked, MarkInstalled, MarkRootfsUnknown,
       MarkInstallFailed, Journal, goto
  <2> QED BY <1>j, <2>1, <2>3, JournalHeld
<1> QED BY <1>1, <1>2, <1>3 DEF Prepare, Turning

\* The dependency check.
LEMMA DependHeld ==
    ASSUME HInv, Depend, Calm, NoNewOwned
    PROVE  Held'
<1>s. d \in Control /\ (d.job = "up" => d.def \in Defs) /\ d.cur \in Services
      /\ d.ret \in {"start", "up_check", "pre_restart", "due"}
  BY DEF HInv, Held, Route, Inv, Sound, Control
<1>q. d.pc \in {"deps", "dep_schedule"}
  BY DEF Depend, DepsDone, DepAbsent, DepValid, DepUnqualified,
     DepExitAmbiguous, DepExited, DepSchedule
<1>b. d.pc \notin BirthPC \cup AbortPC \cup DownPC /\ d.pc \in StartPC
      /\ d.pc \notin {"qualify", "mark_running"}
  BY <1>q, Positions DEF BirthPC
<1>n. d.ret # "start" => ~Starting(d)
  BY DEF Starting
<1>f. ASSUME d' = deps_failed(d) PROVE Held'
  <2>1. CASE d.ret = "start"
    <3>1. d'.pc = "abort" /\ SameTask(d, d')
      BY <1>s, <1>f, <2>1, DepsFailedTo
    <3> QED BY <1>b, <2>1, <3>1, ToAbort DEF Starting
  <2>2. CASE d.ret # "start"
    BY <1>s, <1>f, <1>b, <1>n, <2>2, DepsFailedTo, ToNeutral
  <2> QED BY <2>1, <2>2
<1>k. ASSUME d'.pc \in {"deps", "dep_schedule"}, SameTask(d, d')
      PROVE  Held'
  <2>1. d'.pc \in StartPC /\ d'.pc \notin BirthPC
    BY <1>k, Positions
  <2>2. CASE d.ret = "start"
    BY <1>b, <2>1, <2>2, <1>k, StartingHeld DEF Starting, SameTask
  <2>3. CASE d.ret = "due"
    <3>1. committed
      BY <1>q, <2>3 DEF HInv, Held, Purpose
    <3> QED BY <1>s, <1>b, <1>n, <1>k, <2>1, <2>3, <3>1, DueHeld
            DEF SameTask
  <2>4. CASE d.ret \in {"up_check", "pre_restart"}
    <3>1. d'.pc \notin OnlyStartPC \cup BirthPC \cup RestartPC \cup UpPC
             \cup {"restart_invoke", "restart", "restart_begin"}
      BY <1>k, Positions
    <3>2. Route(d')
      BY <1>s, <1>q, <1>k, <2>4, <3>1 DEF HInv, Held, Route, SameTask
    <3>3. Neutral(d')
      BY <1>k, <2>4, <3>2 DEF Neutral, SameTask
    <3> QED BY <1>b, <1>n, <2>4, <3>3, ToNeutral
  <2> QED BY <1>s, <2>2, <2>3, <2>4
<1>1. CASE DepsDone
  <2>1. CASE d.ret = "start"
    <3>1. d' = [d EXCEPT !.pc = "start_invoke"]
      BY <1>1, <2>1 DEF DepsDone, deps_done
    <3>2. "start_invoke" \in StartPC
      BY DEF StartPC, OnlyStartPC
    <3> QED BY <1>b, <2>1, <3>1, <3>2, JournalHeld DEF Starting
  <2>2. CASE d.ret = "due"
    <3>1. d' = [d EXCEPT !.pc = "restart_invoke"]
      BY <1>1, <2>2 DEF DepsDone, deps_done
    <3>2. d'.pc = "restart_invoke" /\ SameTask(d, d')
      BY <1>s, <3>1 DEF Control, SameTask
    <3>3. committed /\ "restart_invoke" \notin BirthPC
      BY <1>q, <2>2, Positions DEF HInv, Held, Purpose
    <3> QED BY <1>s, <1>b, <1>n, <2>2, <3>2, <3>3, DueHeld DEF SameTask
  <2>3. CASE d.ret = "pre_restart"
    <3>1. d' = [d EXCEPT !.pc = "restart_begin"]
      BY <1>1, <2>3 DEF DepsDone, deps_done
    <3>2. d'.pc = "restart_begin" /\ SameTask(d, d')
      BY <1>s, <3>1 DEF Control, SameTask
    <3>3. d.job = "restart"
      BY <1>q, <2>3 DEF HInv, Held, Route
    <3>4. "restart_begin" \in NeutralPC
          /\ "restart_begin" \notin OnlyStartPC \cup BirthPC \cup UpPC
               \cup {"restart_invoke", "deps", "dep_schedule"}
      BY Positions DEF UpPC
    <3>5. Neutral(d')
      BY <2>3, <3>2, <3>3, <3>4 DEF Neutral, Route, SameTask
    <3> QED BY <1>b, <1>n, <2>3, <3>5, ToNeutral
  <2>4. CASE d.ret = "up_check"
    <3>1. d' = [d EXCEPT !.pc = "up_check", !.todo = Tail(d.todo)]
      BY <1>1, <2>4 DEF DepsDone, deps_done
    <3>2. d'.pc = "up_check" /\ d'.job = d.job /\ d'.def = d.def
      BY <1>s, <3>1 DEF Control
    <3>3. d.job = "up"
      BY <1>q, <2>4 DEF HInv, Held, Route
    <3>4. "up_check" \in NeutralPC
          /\ "up_check" \notin OnlyStartPC \cup BirthPC \cup RestartPC
               \cup {"restart_invoke", "deps", "dep_schedule", "restart",
                     "restart_begin"}
      BY Positions DEF NeutralPC
    <3>5. Neutral(d')
      BY <1>s, <3>2, <3>3, <3>4 DEF Neutral, Route
    <3> QED BY <1>b, <1>n, <2>4, <3>5, ToNeutral
  <2> QED BY <1>s, <2>1, <2>2, <2>3, <2>4
<1>2. CASE DepAbsent \/ DepUnqualified \/ DepExitAmbiguous \/ DepSchedule
  BY <1>2, <1>f DEF DepAbsent, DepUnqualified, DepExitAmbiguous, DepSchedule
<1>3. CASE DepValid
  <2>1. d'.pc = "deps" /\ SameTask(d, d')
    BY <1>s, <1>3 DEF DepValid, Control, SameTask
  <2> QED BY <1>k, <2>1
<1>4. CASE DepExited
  <2>1. CASE goto("dep_schedule")
    <3>1. d'.pc = "dep_schedule" /\ SameTask(d, d')
      BY <1>s, <2>1 DEF goto, Control, SameTask
    <3> QED BY <1>k, <3>1
  <2> QED BY <1>4, <1>f, <2>1 DEF DepExited
<1> QED BY <1>1, <1>2, <1>3, <1>4 DEF Depend

\* A work list consists of its first element and of the rest.
LEMMA Parts ==
    ASSUME NEW q \in Seq(Services), q # << >>
    PROVE  ToSet(q) = {Head(q)} \cup ToSet(Tail(q))
<1>1. Head(q) = q[1] /\ 1 \in DOMAIN q
  OBVIOUS
<1>2. ASSUME NEW i \in DOMAIN Tail(q)
      PROVE  i + 1 \in DOMAIN q /\ Tail(q)[i] = q[i + 1]
  <2>1. Len(q) \in Nat /\ Len(q) > 0 /\ DOMAIN q = 1..Len(q)
    OBVIOUS
  <2>2. i \in 1..(Len(q) - 1)
    <3>1. Tail(q) \in Seq(Services) /\ Len(Tail(q)) = Len(q) - 1
      OBVIOUS
    <3>2. DOMAIN Tail(q) = 1..Len(Tail(q))
      BY <3>1
    <3> QED BY <3>1, <3>2
  <2>3. Tail(q)[i] = q[i + 1]
    BY <2>2
  <2> QED BY <2>1, <2>2, <2>3
<1>3. Head(q) \in ToSet(q) /\ ToSet(Tail(q)) \subseteq ToSet(q)
  BY <1>1, <1>2 DEF ToSet
<1> QED BY <1>3, HeadTail

\* A service is added to a list.
LEMMA AppendSet ==
    ASSUME NEW q \in Seq(Services), NEW s \in Services
    PROVE  /\ ToSet(Append(q, s)) = ToSet(q) \cup {s}
           /\ Append(q, s) \in Seq(Services)
<1>1. /\ DOMAIN Append(q, s) = 1..(Len(q) + 1)
      /\ DOMAIN q = 1..Len(q)
      /\ Append(q, s)[Len(q) + 1] = s
      /\ \A i \in 1..Len(q) : Append(q, s)[i] = q[i]
  OBVIOUS
<1>2. Len(q) \in Nat
  OBVIOUS
<1>3. ASSUME NEW i \in 1..(Len(q) + 1)
      PROVE  Append(q, s)[i] \in ToSet(q) \cup {s}
  <2>1. i \in 1..Len(q) \/ i = Len(q) + 1
    BY <1>2
  <2> QED BY <1>1, <2>1 DEF ToSet
<1>4. ASSUME NEW i \in 1..Len(q)
      PROVE  i \in 1..(Len(q) + 1) /\ q[i] = Append(q, s)[i]
  BY <1>1, <1>2
<1>5. Len(q) + 1 \in 1..(Len(q) + 1)
  BY <1>2
<1> QED BY <1>1, <1>3, <1>4, <1>5 DEF ToSet

\* A reversed list has the same elements.
LEMMA ReverseSet ==
    ASSUME NEW q \in Seq(Services)
    PROVE  ToSet(Reverse(q)) = ToSet(q)
<1>1. /\ DOMAIN q = 1..Len(q) /\ Len(q) \in Nat
      /\ DOMAIN Reverse(q) = 1..Len(q)
      /\ \A i \in 1..Len(q) : Reverse(q)[i] = q[(Len(q) - i) + 1]
  BY DEF Reverse
<1>2. \A i \in 1..Len(q) : /\ (Len(q) - i) + 1 \in 1..Len(q)
                           /\ (Len(q) - ((Len(q) - i) + 1)) + 1 = i
  BY <1>1
<1> QED BY <1>1, <1>2 DEF ToSet

\* The lists that down and shutdown visit.
LEMMA StopOrderSet ==
    ASSUME NEW manifest \in BOOLEAN
    PROVE  ToSet(StopOrder(manifest)) = Services
BY ReverseSet, OrderAssumption, NamesAssumption DEF StopOrder

\* From the intent of a start to its result.
LEMMA StartOneHeld ==
    ASSUME HInv, StartOne, ~Finish, Calm, NoNewOwned \/ JournalChild
    PROVE  Held'
<1>s. /\ d \in Control /\ (d.job = "up" => d.def \in Defs)
      /\ d.cur \in Services /\ d.todo \in Seq(Services)
      /\ d.started \in Seq(Services)
      /\ WorldTypeOK
  BY DEF HInv, Held, Route, Inv, Sound, Control
<1>q. d.pc \in BirthPC \cup {"start_invoke"}
  BY DEF StartOne, MarkStartInvoked, Spawn, SpawnRefused, JournalChild,
     Contain, Qualify, QualifyFails, QualifyExited, MarkRunning, BirthPC
<1>b. d.pc \in StartPC /\ d.pc \notin AbortPC \cup DownPC
      /\ "start_invoke" \in OnlyStartPC
  BY <1>q, Positions DEF OnlyStartPC
<1>r. d.ret \in {"start", "due"}
  BY <1>q, <1>b DEF HInv, Held, Route
<1>d. d.ret = "due" => ~Starting(d)
      /\ (d.pc \in BirthPC =>
            committed /\ svc[d.cur].desired = "running")
  BY DEF HInv, Held, Purpose, Starting
<1>w. d.pc = "start_invoke" => d.ret = "start"
  BY <1>b DEF HInv, Held, Route
<1>k. ASSUME NEW p \in BirthPC, goto(p), NoNewOwned,
             d.pc \in {"qualify", "mark_running"} =>
                p \in {"qualify", "mark_running"}
      PROVE  Held'
  <2>1. d'.pc = p /\ SameTask(d, d')
    BY <1>s, <1>k DEF goto, Control, SameTask
  <2>2. p \in StartPC
    BY Positions
  <2>3. CASE d.ret = "start"
    <3>1. Starting(d) /\ Starting(d')
      BY <1>b, <2>1, <2>2, <2>3 DEF Starting, SameTask
    <3> QED BY <1>k, <2>1, <3>1, StartingHeld
  <2>4. CASE d.ret = "due"
    <3>1. d.pc \in BirthPC
      BY <1>q, <1>w, <2>4
    <3> QED BY <1>s, <1>b, <1>d, <1>k, <2>1, <2>4, <3>1, DueHeld DEF SameTask
  <2> QED BY <1>r, <2>3, <2>4
<1>m. ASSUME d.ret = "due", Neutral(d'), NoNewOwned
      PROVE  Held'
  BY <1>b, <1>d, <1>m, ToNeutral
<1>f. ASSUME NEW e, d' = start_fails(d, e), NoNewOwned,
             d.pc \in {"qualify", "mark_running"} => handle'[d.cur] # "owned"
      PROVE  Held'
  <2>1. CASE d.ret = "start"
    <3>1. d'.pc = "abort" /\ SameTask(d, d')
      BY <1>s, <1>f, <2>1, StartFailsTo
    <3> QED BY <1>b, <1>f, <2>1, <3>1, ToAbort DEF Starting
  <2>2. CASE d.ret = "due"
    BY <1>s, <1>f, <1>m, <2>2, StartFailsTo
  <2> QED BY <1>r, <2>1, <2>2
<1>1. CASE MarkStartInvoked
  <2>1. NoNewOwned /\ d.pc = "start_invoke"
    BY <1>s, <1>1, KeepsOwned DEF MarkStartInvoked
  <2>2. goto("spawn") \/ \E e : d' = start_fails(d, e)
    BY <1>1 DEF MarkStartInvoked
  <2>3. "spawn" \in BirthPC
    BY DEF BirthPC
  <2> QED BY <1>k, <1>f, <2>1, <2>2, <2>3
<1>2. CASE Spawn \/ SpawnRefused
  <2>1. d.pc = "spawn"
    BY <1>2 DEF Spawn, SpawnRefused
  <2>2. goto("journal") \/ \E e : d' = start_fails(d, e)
    BY <1>2 DEF Spawn, SpawnRefused
  <2>3. "journal" \in BirthPC
    BY DEF BirthPC
  <2>4. NoNewOwned
    BY <1>s, <1>2, KeepsOwned DEF Spawn, SpawnRefused
  <2> QED BY <1>k, <1>f, <2>1, <2>2, <2>3, <2>4
<1>3. CASE JournalChild
  <2>0. d.pc = "journal" /\ d.pc \in BirthPC
    BY <1>3 DEF JournalChild, BirthPC
  <2>1. CASE goto("contain") /\ UNCHANGED handle
    <3>1. NoNewOwned /\ "contain" \in BirthPC
      BY <2>1 DEF NoNewOwned, BirthPC
    <3> QED BY <1>k, <2>0, <2>1, <3>1
  <2>2. CASE goto("qualify") /\ handle' = [handle EXCEPT ![d.cur] = "owned"]
    <3>1. d'.pc = "qualify" /\ SameTask(d, d') /\ d'.pc \in BirthPC
      BY <1>s, <2>2 DEF goto, Control, SameTask, BirthPC
    <3>2. d'.pc \notin OnlyStartPC \cup {"deps", "dep_schedule"} \cup UpPC
             \cup DownPC \cup DownLoopPC \cup ShutPC \cup RestartPC
             \cup AbortPC \cup {"cand_begin", "restart_invoke", "restart",
             "restart_begin"}
      BY <3>1, Positions
    <3>3. d'.pc \in StartPC /\ (Starting(d') <=> Starting(d))
      BY <1>b, <3>1, Positions DEF Starting, SameTask
    <3>4. Route(d)'
      BY <1>s, <1>r, <3>1, <3>2 DEF Route, SameTask
    <3>5. Desire'
      BY <3>2 DEF HInv, Held, Desire, Calm
    <3>6. /\ Starting(d) \/ d.ret = "due"
          /\ svc[d.cur].desired = "running"
          /\ committed \/ (op.candidate /\ Starting(d))
      BY <1>b, <1>r, <1>d, <2>0 DEF HInv, Held, Purpose, Starting
    <3>7. \A s \in Services : handle'[s] = "owned" =>
             handle[s] = "owned" \/ s = d.cur
      BY <1>s, <2>2 DEF WorldTypeOK
    <3>8. Wanted'
      <4> SUFFICES ASSUME NEW s \in Services, handle'[s] = "owned"
                   PROVE  /\ svc'[s].desired = "running"
                          /\ committed' \/ (op'.candidate /\ Starting(d'))
        BY DEF Wanted
      <4>1. CASE s = d.cur
        BY <1>s, <3>3, <3>6, <4>1 DEF Calm, committed
      <4>2. CASE handle[s] = "owned"
        BY <1>b, <3>3, <4>2 DEF HInv, Held, Wanted, Calm, committed
      <4> QED BY <3>7, <4>1, <4>2
    <3>9. Bounded'
      <4>1. Limited(d', op'.candidate) => Limited(d, op.candidate)
        BY <3>2, <3>3, Positions DEF Limited, Calm
      <4>2. May(d') = ToSet(d.started) \cup {d.cur}
            /\ May(d) = ToSet(d.started)
        BY <2>0, <3>1 DEF May, SameTask
      <4> QED BY <3>7, <4>1, <4>2 DEF HInv, Held, Bounded
    <3>10. Purpose'
      <4>1. ToSet(d.todo) \subseteq Services
        BY <1>s, ToSetType
      <4> QED BY <1>s, <2>0, <3>1, <3>2, <3>3, <4>1
              DEF HInv, Held, Purpose, Calm, SameTask, committed
    <3> QED BY <3>4, <3>5, <3>8, <3>9, <3>10 DEF Held
  <2> QED BY <1>3, <2>1, <2>2 DEF JournalChild
<1>4. CASE Contain
  <2>1. d.pc = "contain" /\ \E e : d' = start_fails(d, e)
    BY <1>4 DEF Contain
  <2>2. NoNewOwned
    BY <2>1, <1>4 DEF JournalChild
  <2> QED BY <1>f, <2>1, <2>2
<1>5. CASE Qualify
  <2>1. d.pc = "qualify" /\ "mark_running" \in BirthPC
    BY <1>5 DEF Qualify, BirthPC
  <2>2. NoNewOwned
    BY <2>1, <1>5 DEF JournalChild
  <2> QED BY <1>k, <1>5, <2>1, <2>2 DEF Qualify
<1>6. CASE QualifyFails
  <2>1. d.pc = "qualify" /\ handle'[d.cur] # "owned"
    BY <1>s, <1>6 DEF QualifyFails, quarantine, WorldTypeOK
  <2>2. NoNewOwned
    BY <2>1, <1>6 DEF JournalChild
  <2> QED BY <1>f, <1>6, <2>1, <2>2 DEF QualifyFails
<1>7. CASE QualifyExited
  <2>1. d.pc = "qualify" /\ handle'[d.cur] # "owned"
    BY <1>s, <1>7 DEF QualifyExited, let_go, WorldTypeOK
  <2>2. NoNewOwned
    BY <2>1, <1>7 DEF JournalChild
  <2>3. \/ \E e : d' = start_fails(d, e)
        \/ d.ret = "due" /\ (d' = [d EXCEPT !.pc = "reschedule"]
                             \/ d' = next_due(d))
    BY <1>r, <1>7 DEF QualifyExited
  <2>4. "reschedule" \in NeutralPC
        /\ "reschedule" \notin UpPC \cup {"restart", "restart_begin"}
    BY DEF NeutralPC, UpPC
  <2>5. Neutral([d EXCEPT !.pc = "reschedule"]) /\ Neutral(next_due(d))
    BY <1>s, <2>4, NeutralGoto, NeutralNextDue
  <2> QED BY <1>f, <1>m, <2>1, <2>2, <2>3, <2>5
<1>8. CASE MarkRunning
  <2>0. d.pc = "mark_running"
    BY <1>8 DEF MarkRunning
  <2>1. NoNewOwned
    BY <2>0, <1>8 DEF JournalChild
  <2>2. CASE quarantine(d.cur) /\ d' = start_fails(d, "store")
    <3>1. handle'[d.cur] # "owned"
      BY <1>s, <2>2 DEF quarantine, WorldTypeOK
    <3> QED BY <1>f, <2>1, <2>2, <3>1
  <2>3. CASE d.ret = "due" /\ d' = next_due(d)
    BY <1>s, <1>m, <2>1, <2>3, NeutralNextDue
  <2>4. CASE /\ d.ret = "start"
             /\ d' = start_next([d EXCEPT
                        !.started = Append(d.started, d.cur)], d.todo)
    <3> DEFINE c == [d EXCEPT !.started = Append(d.started, d.cur)]
    <3>1. /\ c \in Control /\ c.job = d.job /\ c.def = d.def
          /\ c.cur = d.cur /\ c.ret = d.ret
          /\ c.started = Append(d.started, d.cur) /\ d.ret = "start"
      BY <1>s, <2>4, AppendSet DEF Control
    <3>2. d' = start_next(c, d.todo)
      BY <2>4
    <3> HIDE DEF c
    <3>3. /\ d'.pc \in {"finish", "cand_svc", "deps"} /\ d'.ret = "start"
          /\ d'.job = d.job /\ d'.def = d.def
          /\ d'.started = Append(d.started, d.cur)
          /\ \/ d'.cur = d.cur /\ d'.todo = << >>
             \/ d.todo # << >> /\ d'.cur = Head(d.todo)
                /\ d'.todo = Tail(d.todo)
      BY <1>s, <3>1, <3>2, StartNextTo
    <3>4. {d'.cur} \cup ToSet(d'.todo) \subseteq {d.cur} \cup ToSet(d.todo)
      <4>1. ToSet(<< >>) = {}
        BY DEF ToSet
      <4> QED BY <1>s, <3>3, <4>1, Parts
    <3>5. Starting(d)
      BY <1>b, <2>4 DEF Starting
    <3>6. /\ svc[d.cur].desired = "running" /\ (committed \/ op.candidate)
          /\ \A t \in ToSet(d.todo) : svc[t].desired = "running"
          /\ op.candidate => d.job = "up"
      BY <3>5 DEF HInv, Held, Purpose
    <3>7. {d.cur} \cup ToSet(d.todo) \subseteq Services
      BY <1>s, ToSetType
    <3>8. \A t \in {d.cur} \cup ToSet(d.todo) : svc'[t].desired = "running"
      BY <3>6, <3>7 DEF Calm
    <3>9. Desire'
      <4>1. d'.pc \notin DownPC
        BY <3>3 DEF DownPC, DownLoopPC
      <4> QED BY <4>1 DEF HInv, Held, Desire, Calm
    <3>10. \A s \in Services : handle'[s] = "owned" =>
              svc'[s].desired = "running" /\ (committed' \/ op'.candidate)
      BY <1>b, <2>1 DEF HInv, Held, Wanted, Calm, committed, NoNewOwned
    <3>11. op.candidate => \A s \in Services :
              handle'[s] = "owned" => s \in ToSet(d.started) \cup {d.cur}
      <4>1. op.candidate => Limited(d, op.candidate)
        BY <3>5 DEF Limited
      <4>2. May(d) = ToSet(d.started) \cup {d.cur}
        BY <2>0 DEF May
      <4> QED BY <2>1, <4>1, <4>2 DEF HInv, Held, Bounded, NoNewOwned
    <3>12. ToSet(d'.started) = ToSet(d.started) \cup {d.cur}
      BY <1>s, <3>3, AppendSet
    <3> QED BY <1>s, <3>3, <3>4, <3>6, <3>8, <3>9, <3>10, <3>11, <3>12,
            StartHeld DEF Calm, committed
  <2> QED BY <1>r, <1>8, <2>2, <2>3, <2>4 DEF MarkRunning
<1> QED BY <1>1, <1>2, <1>3, <1>4, <1>5, <1>6, <1>7, <1>8 DEF StartOne

\* The loops of an abort: where they go, and who may be owned there.
LEMMA AbortLoops ==
    ASSUME NEW c \in Control, NEW q \in Seq(Services)
    PROVE  /\ \A e \in {cleanup_next(c, q), survivors_next(c, q)} :
                 /\ e.pc \in AbortPC \ {"abort"}
                 /\ e.job = c.job /\ e.def = c.def
                 /\ May(e) = ToSet(q)
           /\ LET e == abort_others_next(c, q) IN
                 /\ e.pc \in AbortPC \ {"abort"}
                 /\ e.job = c.job /\ e.def = c.def
                 /\ May(e) = ToSet(c.started)
<1>0. ToSet(<< >>) = {}
  BY DEF ToSet
<1>1. ASSUME NEW r \in Seq(Services)
      PROVE  /\ cleanup_next(c, r).pc \in AbortPC \ {"abort"}
             /\ cleanup_next(c, r).job = c.job
             /\ cleanup_next(c, r).def = c.def
             /\ May(cleanup_next(c, r)) = ToSet(r)
  <2>1. CASE r = << >>
    <3>1. cleanup_next(c, r) = [c EXCEPT !.pc = "finalize", !.todo = << >>]
      BY <2>1 DEF cleanup_next
    <3> QED BY <1>0, <2>1, <3>1 DEF Control, May, AbortPC
  <2>2. CASE r # << >>
    <3>1. cleanup_next(c, r) = [c EXCEPT !.pc = "cleanup", !.todo = r]
      BY <2>2 DEF cleanup_next
    <3> QED BY <3>1 DEF Control, May, AbortPC
  <2> QED BY <2>1, <2>2
<1>2. /\ survivors_next(c, q).pc \in AbortPC \ {"abort"}
      /\ survivors_next(c, q).job = c.job
      /\ survivors_next(c, q).def = c.def
      /\ May(survivors_next(c, q)) = ToSet(q)
  <2>1. CASE q = << >>
    <3>1. survivors_next(c, q) = [c EXCEPT !.pc = "finalize", !.todo = << >>]
      BY <2>1 DEF survivors_next
    <3> QED BY <1>0, <2>1, <3>1 DEF Control, May, AbortPC
  <2>2. CASE q # << >>
    <3>1. survivors_next(c, q) = [c EXCEPT !.pc = "survivors", !.todo = q]
      BY <2>2 DEF survivors_next
    <3> QED BY <3>1 DEF Control, May, AbortPC
  <2> QED BY <2>1, <2>2
<1>3. /\ abort_others_next(c, q).pc \in AbortPC \ {"abort"}
      /\ abort_others_next(c, q).job = c.job
      /\ abort_others_next(c, q).def = c.def
      /\ May(abort_others_next(c, q)) = ToSet(c.started)
  <2>1. CASE q = << >>
    <3>1. abort_others_next(c, q) = cleanup_next(c, Reverse(c.started))
      BY <2>1 DEF abort_others_next
    <3>2. /\ Reverse(c.started) \in Seq(Services)
          /\ ToSet(Reverse(c.started)) = ToSet(c.started)
      BY ReverseType, ReverseSet DEF Control
    <3> QED BY <1>1, <3>1, <3>2
  <2>2. CASE q # << >>
    <3>1. abort_others_next(c, q) = [c EXCEPT !.pc = "abort_others",
                                              !.todo = q]
      BY <2>2 DEF abort_others_next
    <3> QED BY <3>1 DEF Control, May, AbortPC
  <2> QED BY <2>1, <2>2
<1> QED BY <1>1, <1>2, <1>3

\* Within an abort.
LEMMA AbortStepHeld ==
    ASSUME HInv, Calm, NoNewOwned, d.pc \in AbortPC,
           d'.pc \in AbortPC \ {"abort"}, d'.job = d.job, d'.def = d.def,
           op.candidate => \A s \in Services :
              handle'[s] = "owned" => s \in May(d')
    PROVE  Held'
<1>0. d'.pc \notin OnlyStartPC \cup BirthPC \cup StartPC \cup DownPC
         \cup DownLoopPC \cup ShutPC \cup RestartPC \cup UpPC
         \cup {"deps", "dep_schedule", "cand_begin", "restart_invoke",
               "restart", "restart_begin"}
      /\ d.pc \notin DownPC
  BY Positions
<1>1. Route(d)'
  BY <1>0 DEF HInv, Held, Route
<1>2. Desire'
  BY <1>0 DEF HInv, Held, Desire, Calm
<1>3. Wanted'
  BY <1>0 DEF HInv, Held, Wanted, Calm, committed, NoNewOwned
<1>4. Bounded'
  <2>1. Limited(d', op'.candidate) => op.candidate
    BY <1>0, Positions DEF Limited, Calm
  <2> QED BY <2>1 DEF Bounded
<1>5. Purpose'
  BY <1>0 DEF HInv, Held, Purpose, Calm, Starting
<1> QED BY <1>1, <1>2, <1>3, <1>4, <1>5 DEF Held

\* A shutdown begins.
LEMMA ShutdownBegins ==
    ASSUME HInv, Calm, NoNewOwned, NEW again, begin_shutdown(again),
           \A s \in Services : handle'[s] = "owned" =>
              committed /\ svc[s].desired = "running"
    PROVE  Held'
<1>1. PICK m \in BOOLEAN, e \in {"store"} :
         \/ d' = [at("shutdown") EXCEPT !.todo = StopOrder(m), !.again = again]
         \/ d' = [at("shutdown") EXCEPT !.todo = StopOrder(m), !.again = again,
                                        !.err = e]
  <2>1. committed \in BOOLEAN
    BY DEF committed
  <2> QED BY <2>1 DEF begin_shutdown
<1>2. d'.pc = "shutdown" /\ d'.job = "none" /\ d'.todo = StopOrder(m)
  BY <1>1 DEF at
<1>3. d'.pc \in ShutPC
  BY <1>2 DEF ShutPC
<1>4. d'.pc \notin OnlyStartPC \cup BirthPC \cup StartPC \cup DownPC
         \cup DownLoopPC \cup AbortPC \cup RestartPC \cup UpPC
         \cup {"deps", "dep_schedule", "cand_begin", "restart_invoke",
               "restart", "restart_begin"}
  BY <1>2, <1>3, Positions DEF NeutralPC, ShutPC
<1>5. Route(d)'
  BY <1>2, <1>4 DEF Route
<1>6. Desire'
  BY <1>4 DEF HInv, Held, Desire, Calm
<1>7. Wanted'
  BY <1>4 DEF Wanted, Calm, committed
<1>8. Bounded'
  <2>1. May(d') = Services
    BY <1>2, StopOrderSet DEF May
  <2> QED BY <2>1 DEF Bounded
<1>9. Purpose'
  BY <1>4 DEF Purpose, Starting
<1> QED BY <1>5, <1>6, <1>7, <1>8, <1>9 DEF Held

\* The abort of an operation.
LEMMA AbortHeld ==
    ASSUME HInv, AbortStart, Calm, NoNewOwned
    PROVE  Held'
<1>s. /\ d \in Control /\ d.cur \in Services /\ d.todo \in Seq(Services)
      /\ d.started \in Seq(Services) /\ d.order \in Seq(Services)
      /\ WorldTypeOK
      /\ d.pc \in LoopPC => d.todo # << >>
  BY DEF HInv, Inv, Sound, Control
<1>q. d.pc \in AbortPC
  BY DEF AbortStart, Abort, AbortOthers, Cleanup, CleanupExit, CleanupMark,
     Survivors, Finalize, AbortPC
<1>m. op.candidate => /\ d.job = "up"
                      /\ \A s \in Services :
                            handle'[s] = "owned" =>
                               handle[s] = "owned" /\ s \in May(d)
  BY <1>q DEF HInv, Held, Purpose, Bounded, Limited, NoNewOwned
<1>h. d.todo # << >> => /\ Head(d.todo) \in Services
                        /\ Tail(d.todo) \in Seq(Services)
                        /\ ToSet(d.todo)
                              = {Head(d.todo)} \cup ToSet(Tail(d.todo))
  BY <1>s, HeadTail, Parts
<1>g. d.pc \in LoopPC => /\ Reverse(Tail(d.todo)) \in Seq(Services)
                         /\ ToSet(Reverse(Tail(d.todo))) = ToSet(Tail(d.todo))
  BY <1>s, <1>h, ReverseType, ReverseSet
<1>1. CASE Abort
  <2>0. May(d) = ToSet(d.started)
    BY <1>1 DEF Abort, May
  <2>1. CASE d.job # "restart"
    <3>1. d' = abort_others_next(d, d.order)
      BY <1>1, <2>1 DEF Abort
    <3> QED BY <1>s, <1>q, <1>m, <2>0, <3>1, AbortLoops, AbortStepHeld
  <2>2. CASE d.job = "restart"
    <3>1. \E r \in Seq(Services) :
             d' \in {cleanup_next(d, r), survivors_next(d, r)}
      <4>1. << >> \in Seq(Services) /\ <<d.cur>> \in Seq(Services)
        BY <1>s
      <4> QED BY <1>1, <2>2, <4>1 DEF Abort
    <3> QED BY <1>s, <1>q, <1>m, <2>2, <3>1, AbortLoops, AbortStepHeld
  <2> QED BY <2>1, <2>2
<1>2. CASE AbortOthers
  <2>1. d.pc = "abort_others" /\ d' = abort_others_next(d, Tail(d.todo))
    BY <1>2 DEF AbortOthers
  <2>2. May(d) = ToSet(d.started) /\ Tail(d.todo) \in Seq(Services)
    BY <1>s, <1>h, <2>1 DEF May, LoopPC
  <2> QED BY <1>s, <1>q, <1>m, <2>1, <2>2, AbortLoops, AbortStepHeld
<1>3. CASE Cleanup
  <2>0. d.pc = "cleanup" /\ d.pc \in LoopPC /\ May(d) = ToSet(d.todo)
    BY <1>3 DEF Cleanup, LoopPC, May
  <2>1. handle'[Head(d.todo)] # "owned"
    BY <1>s, <1>h, <1>3, <2>0 DEF Cleanup, stop_owned_child, drained,
       quarantine_if_owned, quarantine, worldVars, WorldTypeOK
  <2>3. /\ d'.pc \in {"cleanup_exit", "cleanup_mark"}
        /\ d'.job = d.job /\ d'.def = d.def /\ d'.todo = d.todo
    <3>1. CASE goto("cleanup_exit")
      BY <1>s, <3>1 DEF goto, Control
    <3>2. ASSUME NEW e, d' = [d EXCEPT !.pc = "cleanup_mark", !.err = e]
          PROVE  /\ d'.pc \in {"cleanup_exit", "cleanup_mark"}
                 /\ d'.job = d.job /\ d'.def = d.def /\ d'.todo = d.todo
      BY <1>s, <3>2 DEF Control
    <3> QED BY <1>3, <3>1, <3>2 DEF Cleanup
  <2>4. May(d') = ToSet(Tail(d.todo)) /\ d'.pc \in AbortPC \ {"abort"}
    BY <2>3 DEF May, AbortPC
  <2>5. op.candidate => \A s \in Services :
           handle'[s] = "owned" => s \in May(d')
    BY <1>s, <1>m, <1>h, <2>0, <2>1, <2>4
  <2> QED BY <1>q, <2>3, <2>4, <2>5, AbortStepHeld
<1>4. CASE CleanupExit \/ CleanupMark
  <2>0. d.pc \in LoopPC /\ May(d) = ToSet(Tail(d.todo))
    BY <1>4 DEF CleanupExit, CleanupMark, LoopPC, May
  <2>1. \/ d' = cleanup_next(d, Tail(d.todo))
        \/ d' = survivors_next(d, Reverse(Tail(d.todo)))
    BY <1>4 DEF CleanupExit, CleanupMark
  <2>2. /\ d'.pc \in AbortPC \ {"abort"} /\ d'.job = d.job
        /\ d'.def = d.def /\ May(d') = ToSet(Tail(d.todo))
    <3>1. CASE d' = cleanup_next(d, Tail(d.todo))
      BY <1>s, <1>h, <2>0, <3>1, AbortLoops
    <3>2. CASE d' = survivors_next(d, Reverse(Tail(d.todo)))
      BY <1>s, <1>g, <2>0, <3>2, AbortLoops
    <3> QED BY <2>1, <3>1, <3>2
  <2> QED BY <1>q, <1>m, <2>0, <2>2, AbortStepHeld
<1>5. CASE Survivors
  <2>0. d.pc \in LoopPC /\ May(d) = ToSet(d.todo)
    BY <1>5 DEF Survivors, LoopPC, May
  <2>1. handle'[Head(d.todo)] # "owned"
    BY <1>s, <1>h, <1>5, <2>0 DEF Survivors, quarantine_if_owned,
       quarantine, worldVars, WorldTypeOK
  <2>2. d' = survivors_next(d, Tail(d.todo))
    BY <1>5 DEF Survivors
  <2>3. /\ d'.pc \in AbortPC \ {"abort"} /\ d'.job = d.job
        /\ d'.def = d.def /\ May(d') = ToSet(Tail(d.todo))
    BY <1>s, <1>h, <2>0, <2>2, AbortLoops
  <2>4. ASSUME op.candidate, NEW s \in Services, handle'[s] = "owned"
        PROVE  s \in May(d')
    <3>1. s \in ToSet(d.todo)
      BY <1>m, <2>0, <2>4
    <3>2. ToSet(d.todo) = {Head(d.todo)} \cup ToSet(Tail(d.todo))
      BY <1>s, <1>h, <2>0
    <3> QED BY <2>1, <2>3, <2>4, <3>1, <3>2
  <2> QED BY <1>q, <1>m, <2>0, <2>3, <2>4, AbortStepHeld
<1>6. CASE Finalize
  <2>1. May(d) = {}
    BY <1>6 DEF Finalize, May
  <2>2. \A s \in Services : handle'[s] = "owned" =>
              committed /\ svc[s].desired = "running"
    <3>1. d.pc \notin DownPC
      BY <1>q, Positions
    <3> QED BY <1>m, <2>1, <3>1 DEF HInv, Held, Wanted, NoNewOwned
  <2>3. Neutral(at("idle")) /\ Neutral(at("dead"))
    <3>1. {"idle", "dead"} \subseteq NeutralPC
          /\ {"idle", "dead"} \cap (UpPC \cup {"restart", "restart_begin"})
                = {}
      BY DEF NeutralPC, UpPC
    <3>2. d.job = "up" => d.def \in Defs
      BY DEF HInv, Held, Route
    <3> QED BY <1>s, <3>1, <3>2, NeutralGoto
  <2>4. CASE d' \in {at("idle"), at("dead")}
    BY <2>2, <2>3, <2>4, NeutralHeld
  <2>5. CASE begin_shutdown(FALSE)
    BY <2>2, <2>5, ShutdownBegins
  <2> QED BY <1>6, <2>4, <2>5 DEF Finalize, return
<1> QED BY <1>1, <1>2, <1>3, <1>4, <1>5, <1>6 DEF AbortStart

\* A neutral position, whatever the step did to the operation.
LEMMA NeutralAny ==
    ASSUME Neutral(d'), Desire',
           \A s \in Services : handle'[s] = "owned" =>
              committed' /\ svc'[s].desired = "running"
    PROVE  Held'
<1>1. Route(d)' BY DEF Neutral, Route
<1>2. d'.pc \notin DownPC \cup ShutPC \cup RestartPC \cup AbortPC
                   \cup {"cand_begin", "restart_invoke"} /\ ~Starting(d')
      /\ ~(d'.pc \in BirthPC \cup {"deps", "dep_schedule", "restart_invoke"}
           /\ d'.ret = "due")
  BY Positions DEF Neutral, Starting, StartPC
<1>4. Wanted'
  BY DEF Wanted
<1>5. Bounded'
  BY <1>2, Positions DEF Bounded, Limited
<1>6. Purpose'
  BY <1>2 DEF Purpose, Starting
<1> QED BY <1>1, <1>4, <1>5, <1>6 DEF Held

\* Within down.
LEMMA DownTo ==
    ASSUME HInv, d'.pc \in DownPC, d'.job = d.job, d'.def = d.def,
           \A s \in Services : svc'[s].desired = "stopped",
           op'.candidate => op'.def # NoDef,
           \A s \in Services : handle'[s] = "owned" => committed',
           d'.pc \in DownLoopPC \cup {"down_final"} =>
              \A s \in Services : handle'[s] = "owned" => s \in May(d')
    PROVE  Held'
<1>0. d'.pc \notin OnlyStartPC \cup BirthPC \cup StartPC \cup AbortPC
         \cup ShutPC \cup RestartPC \cup UpPC
         \cup {"deps", "dep_schedule", "cand_begin", "restart_invoke",
               "restart", "restart_begin"}
  BY Positions
<1>1. Route(d)'
  BY <1>0 DEF HInv, Held, Route
<1>2. Desire'
  BY DEF Desire
<1>3. Wanted'
  BY DEF Wanted
<1>4. Bounded'
  BY <1>0 DEF Bounded, Limited, Starting
<1>5. Purpose'
  BY <1>0 DEF Purpose, Starting
<1> QED BY <1>1, <1>2, <1>3, <1>4, <1>5 DEF Held

\* The steps of down.
LEMMA DownHeld ==
    ASSUME HInv, NoNewOwned,
           \/ DownBegin \/ DownSvc \/ DownStop \/ DownStopped \/ DownFinish
           \/ DownQuarantine \/ DownFinal,
           Turning \/ Calm
    PROVE  Held'
<1>s. /\ d \in Control /\ d.todo \in Seq(Services) /\ StoreTypeOK
      /\ WorldTypeOK
      /\ d.pc \in LoopPC => d.todo # << >>
      /\ d.job = "up" => d.def \in Defs
  BY DEF HInv, Held, Route, Inv, Sound, Control
<1>h. d.todo # << >> => /\ Head(d.todo) \in Services
                        /\ Tail(d.todo) \in Seq(Services)
                        /\ ToSet(d.todo)
                              = {Head(d.todo)} \cup ToSet(Tail(d.todo))
  BY <1>s, HeadTail, Parts
<1>r. Neutral(at("idle"))
  BY <1>s, NeutralNextDue
<1>d. d.pc \in DownPC =>
         /\ \A s \in Services : svc[s].desired = "stopped"
         /\ \A s \in Services : handle[s] = "owned" => committed
         /\ op.candidate => op.def # NoDef
  BY Positions DEF HInv, Held, Desire, Wanted, Starting
<1>b. d.pc \in DownLoopPC \cup {"down_final"} =>
         \A s \in Services : handle[s] = "owned" => s \in May(d)
  BY DEF HInv, Held, Bounded, Limited
<1>g. ASSUME d.pc \in DownPC, Calm, d'.pc \in DownPC,
             d'.job = d.job, d'.def = d.def,
             d'.pc \in DownLoopPC \cup {"down_final"} =>
                \A s \in Services : handle'[s] = "owned" => s \in May(d')
      PROVE  Held'
  BY <1>d, <1>g, DownTo DEF Calm, NoNewOwned, committed
<1>p. /\ {"down_svc", "down_stop", "down_stopped", "down_quarantine",
          "down_final"} \subseteq DownPC
      /\ "down_quarantine" \notin DownLoopPC \cup {"down_final"}
  BY DEF DownPC, DownLoopPC
<1>q. ASSUME d.pc \in DownPC, Calm, goto("down_quarantine") PROVE Held'
  <2>1. /\ d'.pc = "down_quarantine" /\ d'.job = d.job /\ d'.def = d.def
    BY <1>s, <1>q DEF goto, Control
  <2> QED BY <1>p, <1>g, <1>q, <2>1
<1>u. ASSUME UNCHANGED dbVars PROVE Calm
  BY <1>u DEF Calm, dbVars
<1>1. CASE DownBegin
  <2>0. d.pc = "down_begin" /\ "down_begin" \in NeutralPC
        /\ UNCHANGED handle
    BY <1>1 DEF DownBegin, NeutralPC, worldVars
  <2>1. ~Starting(d) /\ d.pc \notin AbortPC \cup DownPC
    BY <2>0, Positions DEF Starting
  <2>2. CASE UNCHANGED dbVars /\ d' = at("idle")
    BY <1>r, <1>u, <2>1, <2>2, ToNeutral
  <2>3. CASE /\ begin_down
             /\ \/ d' = [d EXCEPT !.pc = "down_svc",
                                  !.todo = StopOrder(committed)]
                \/ goto("down_quarantine")
    <3>1. \A s \in Services : svc'[s].desired = "stopped"
      <4>1. \A r \in ServiceRow : down_row(r).desired = "stopped"
        BY DEF down_row, ServiceRow
      <4> QED BY <1>s, <2>3, <4>1 DEF begin_down, StoreTypeOK
    <3>2. ~op'.candidate
      BY <2>3 DEF begin_down
    <3>3. committed' <=> committed
      BY <1>s, <2>3 DEF begin_down, StoreTypeOK, StackRow, committed
    <3>4. \A s \in Services : handle'[s] = "owned" => committed'
      BY <2>1, <3>3, WantedThere
    <3>5. CASE goto("down_quarantine")
      <4>1. d'.pc = "down_quarantine" /\ d'.job = d.job /\ d'.def = d.def
        BY <1>s, <3>5 DEF goto, Control
      <4> QED BY <1>p, <3>1, <3>2, <3>4, <4>1, DownTo
    <3>6. CASE d' = [d EXCEPT !.pc = "down_svc", !.todo = StopOrder(committed)]
      <4>1. /\ d'.pc = "down_svc" /\ d'.job = d.job /\ d'.def = d.def
            /\ d'.todo = StopOrder(committed)
        BY <1>s, <3>6 DEF Control
      <4>2. May(d') = Services
        <5>1. committed \in BOOLEAN
          BY DEF committed
        <5> QED BY <4>1, <5>1, StopOrderSet DEF May
      <4> QED BY <1>p, <3>1, <3>2, <3>4, <4>1, <4>2, DownTo
    <3> QED BY <2>3, <3>5, <3>6
  <2> QED BY <1>1, <2>2, <2>3 DEF DownBegin, StoreFails, return
<1>2. CASE DownSvc
  <2>0. /\ d.pc = "down_svc" /\ d.pc \in DownPC /\ d.pc \in DownLoopPC
        /\ May(d) = ToSet(d.todo) /\ d.todo # << >>
    BY <1>2 DEF DownSvc, DownPC, DownLoopPC, May
  <2>1. Calm
    BY <2>0 DEF Turning, BeginCurrent, CandBegin, UpConverge, Finish,
       Finalize, DownBegin, DownStopped, DownFinish, DownFinal,
       RestartBegin, Reconcile, Resume
  <2>2. CASE goto("down_quarantine")
    BY <1>q, <2>0, <2>1, <2>2
  <2>3. CASE goto("down_stop")
    <3>1. /\ d'.pc = "down_stop" /\ d'.job = d.job /\ d'.def = d.def
          /\ d'.todo = d.todo
      BY <1>s, <2>3 DEF goto, Control
    <3>2. May(d') = May(d)
      BY <2>0, <3>1 DEF May
    <3> QED BY <1>b, <1>g, <1>p, <2>0, <2>1, <3>1, <3>2 DEF NoNewOwned
  <2>4. CASE handle[Head(d.todo)] # "owned" /\ UNCHANGED worldVars
             /\ d' = [d EXCEPT !.todo = Tail(d.todo)]
    <3>1. /\ d'.pc = "down_svc" /\ d'.job = d.job /\ d'.def = d.def
          /\ d'.todo = Tail(d.todo)
      BY <1>s, <2>0, <2>4 DEF Control
    <3>2. May(d') = ToSet(Tail(d.todo))
      BY <3>1 DEF May
    <3>3. \A s \in Services : handle'[s] = "owned" => s \in May(d')
      BY <1>b, <1>h, <2>0, <2>4, <3>2 DEF worldVars
    <3> QED BY <1>g, <1>p, <2>0, <2>1, <3>1, <3>3
  <2> QED BY <1>2, <2>2, <2>3, <2>4 DEF DownSvc, goto
<1>3. CASE DownStop
  <2>0. /\ d.pc = "down_stop" /\ d.pc \in DownPC /\ d.pc \in DownLoopPC
        /\ May(d) = ToSet(d.todo) /\ d.todo # << >>
    BY <1>s, <1>3 DEF DownStop, DownPC, DownLoopPC, May, LoopPC
  <2>1. Calm
    BY <1>u, <1>3 DEF DownStop
  <2>2. CASE goto("down_quarantine")
    BY <1>q, <2>0, <2>1, <2>2
  <2>3. CASE stop_owned_child(Head(d.todo)) /\ goto("down_stopped")
    <3>1. /\ d'.pc = "down_stopped" /\ d'.job = d.job /\ d'.def = d.def
          /\ d'.todo = d.todo
      BY <1>s, <2>3 DEF goto, Control
    <3>2. May(d') = ToSet(Tail(d.todo))
      BY <3>1 DEF May
    <3>3. handle'[Head(d.todo)] # "owned"
      BY <1>s, <1>h, <2>0, <2>3 DEF stop_owned_child, drained, WorldTypeOK
    <3>4. \A s \in Services : handle'[s] = "owned" => s \in May(d')
      BY <1>b, <1>h, <2>0, <3>2, <3>3 DEF NoNewOwned
    <3> QED BY <1>g, <1>p, <2>0, <2>1, <3>1, <3>4
  <2> QED BY <1>3, <2>2, <2>3 DEF DownStop
<1>4. CASE DownStopped
  <2>0. /\ d.pc = "down_stopped" /\ d.pc \in DownPC /\ d.pc \in DownLoopPC
        /\ May(d) = ToSet(Tail(d.todo)) /\ d.todo # << >>
        /\ UNCHANGED handle
    BY <1>s, <1>4 DEF DownStopped, DownPC, DownLoopPC, May, LoopPC, worldVars
  <2>1. CASE UNCHANGED dbVars /\ goto("down_quarantine")
    BY <1>q, <1>u, <2>0, <2>1
  <2>2. CASE /\ mark_stopped(Head(d.todo))
             /\ d' = [d EXCEPT !.pc = "down_svc", !.todo = Tail(d.todo)]
    <3>1. /\ d'.pc = "down_svc" /\ d'.job = d.job /\ d'.def = d.def
          /\ d'.todo = Tail(d.todo)
      BY <1>s, <2>2 DEF Control
    <3>2. May(d') = ToSet(Tail(d.todo))
      BY <3>1 DEF May
    <3> DEFINE s == Head(d.todo)
               r == [proven_row(svc[s], "stopped", "stopped")
                       EXCEPT !.desired = "stopped"]
    <3>3. r.desired = "stopped"
      BY <1>s, <1>h, <2>0 DEF StoreTypeOK, ServiceRow, proven_row
    <3>4. svc' = [svc EXCEPT ![s] = r] /\ UNCHANGED op
          /\ \E o : stack' = [stack EXCEPT !.observed = o]
      BY <2>2 DEF mark_stopped, write_refreshed
    <3> HIDE DEF r, s
    <3>5. \A t \in Services : svc'[t].desired = "stopped"
      BY <1>s, <1>d, <2>0, <3>3, <3>4 DEF StoreTypeOK
    <3>6. committed' <=> committed
      BY <1>s, <3>4 DEF StoreTypeOK, StackRow, committed
    <3> QED BY <1>b, <1>d, <1>p, <2>0, <3>1, <3>2, <3>4, <3>5, <3>6, DownTo
  <2> QED BY <1>4, <2>1, <2>2 DEF DownStopped, StoreFails
<1>n. ASSUME \A s \in Services : handle[s] # "owned", d.pc \in DownPC,
             d' = at("idle"),
             \A s \in Services : svc'[s].desired = "stopped",
             op'.candidate = op.candidate, op'.def = op.def
      PROVE  Held'
  <2>1. Neutral(d')
    BY <1>r, <1>n
  <2>2. d'.pc \notin DownPC
    BY <1>n DEF at, DownPC, DownLoopPC
  <2>3. Desire'
    BY <1>d, <1>n, <2>2 DEF Desire
  <2> QED BY <1>n, <2>1, <2>3, NeutralAny DEF NoNewOwned
<1>5. CASE DownFinish
  <2>0. /\ d.pc = "down_svc" /\ d.pc \in DownPC /\ d.pc \in DownLoopPC
        /\ d.todo = << >>
    BY <1>5 DEF DownFinish, DownPC, DownLoopPC
  <2>1. May(d) = {}
    BY <2>0 DEF May, ToSet
  <2>2. CASE UNCHANGED dbVars /\ goto("down_quarantine")
    BY <1>q, <1>u, <2>0, <2>2
  <2>3. CASE finish_down /\ d' = at("idle")
    <3>1. op'.candidate = op.candidate /\ op'.def = op.def /\ svc' = svc
      BY <1>s, <2>3 DEF finish_down, StoreTypeOK, Operation
    <3> QED BY <1>b, <1>d, <1>n, <2>0, <2>1, <2>3, <3>1
  <2> QED BY <1>5, <2>2, <2>3 DEF DownFinish, StoreFails, return
<1>6. CASE DownQuarantine
  <2>0. /\ d.pc = "down_quarantine" /\ d.pc \in DownPC
    BY <1>6 DEF DownQuarantine, DownPC
  <2>1. Calm
    BY <2>0 DEF Turning, BeginCurrent, CandBegin, UpConverge, Finish,
       Finalize, DownBegin, DownStopped, DownFinish, DownFinal,
       RestartBegin, Reconcile, Resume
  <2>2. CASE UNCHANGED d
    BY <1>g, <1>p, <2>0, <2>1, <2>2
  <2>3. CASE /\ \A s \in Services : handle[s] # "owned"
             /\ goto("down_final")
    <3>1. d'.pc = "down_final" /\ d'.job = d.job /\ d'.def = d.def
      BY <1>s, <2>3 DEF goto, Control
    <3> QED BY <1>g, <1>p, <2>0, <2>1, <2>3, <3>1 DEF NoNewOwned
  <2> QED BY <1>6, <2>2, <2>3 DEF DownQuarantine
<1>7. CASE DownFinal
  <2>0. d.pc = "down_final" /\ d.pc \in DownPC /\ d' = at("idle")
    BY <1>7 DEF DownFinal, DownPC, return
  <2>1. May(d) = {}
    BY <2>0 DEF May
  <2>2. CASE UNCHANGED dbVars
    BY <1>b, <1>d, <1>n, <2>0, <2>1, <2>2 DEF dbVars
  <2>3. CASE finalize_down_failure
    <3>1. op'.candidate = op.candidate /\ op'.def = op.def
      BY <1>s, <2>3 DEF finalize_down_failure, StoreTypeOK, Operation
    <3>2. \A s \in Services : svc'[s].desired = "stopped"
      BY <1>s, <1>d, <2>0, <2>3
         DEF finalize_down_failure, StoreTypeOK, ServiceRow
    <3> QED BY <1>b, <1>n, <2>0, <2>1, <3>1, <3>2
  <2> QED BY <1>7, <2>2, <2>3 DEF DownFinal, StoreFails
<1> QED BY <1>1, <1>2, <1>3, <1>4, <1>5, <1>6, <1>7

\* Where the loop of a starting operation begins.
LEMMA BeginStartingTo ==
    ASSUME NEW c \in Control, NEW q \in Seq(Services), q # << >>,
           begin_starting(c, q)
    PROVE  /\ \/ d'.pc \in {"finish", "cand_svc", "deps"} /\ d'.ret = "start"
              \/ d'.pc = "abort"
           /\ d'.job = c.job /\ d'.def = c.def /\ d'.started = c.started
           /\ d'.order = c.order
           /\ d'.cur = Head(q) /\ d'.todo = Tail(q)
<1> DEFINE e == start_next(c, q)
<1>1. /\ e.pc \in {"cand_svc", "deps"} /\ e.ret = "start"
      /\ e.job = c.job /\ e.def = c.def /\ e.started = c.started
      /\ e.order = c.order
      /\ e.cur = Head(q) /\ e.todo = Tail(q)
  BY StartNextTo
<1>2. PICK p \in {"cand_svc", "deps"} :
           e = [c EXCEPT !.pc = p, !.cur = Head(q), !.todo = Tail(q),
                         !.deps = DependsOn[Head(q)], !.ret = "start"]
  BY DEF start_next
<1>3. CASE d' = e
  BY <1>1, <1>3
<1>4. CASE d' = [e EXCEPT !.pc = "abort", !.err = "store"]
  <2> DEFINE f == [c EXCEPT !.pc = p, !.cur = Head(q), !.todo = Tail(q),
                            !.deps = DependsOn[Head(q)], !.ret = "start"]
  <2>1. /\ [f EXCEPT !.pc = "abort", !.err = "store"].pc = "abort"
        /\ [f EXCEPT !.pc = "abort", !.err = "store"].job = c.job
        /\ [f EXCEPT !.pc = "abort", !.err = "store"].def = c.def
        /\ [f EXCEPT !.pc = "abort", !.err = "store"].started = c.started
        /\ [f EXCEPT !.pc = "abort", !.err = "store"].order = c.order
        /\ [f EXCEPT !.pc = "abort", !.err = "store"].cur = Head(q)
        /\ [f EXCEPT !.pc = "abort", !.err = "store"].todo = Tail(q)
    BY DEF Control
  <2> QED BY <1>2, <1>4, <2>1
<1> QED BY <1>3, <1>4 DEF begin_starting

\* Within the stop of a restart.
LEMMA RestartTo ==
    ASSUME HInv, NoNewOwned, d'.pc \in RestartPC, SameTask(d, d'),
           d.ret = "pre_restart", d.job = "restart",
           ~Starting(d), d.pc \notin AbortPC \cup DownPC,
           \A s \in Services : svc'[s].desired = svc[s].desired,
           stack'.desired = stack.desired, committed' <=> committed,
           committed, ~op'.candidate, svc[d.cur].desired = "running"
    PROVE  Held'
<1>0. d'.pc \notin OnlyStartPC \cup BirthPC \cup StartPC \cup AbortPC
         \cup ShutPC \cup DownPC \cup UpPC
         \cup {"deps", "dep_schedule", "cand_begin", "restart_invoke"}
  BY Positions
<1>1. Route(d)'
  BY <1>0 DEF HInv, Held, Route, SameTask
<1>2. Desire'
  BY <1>0 DEF HInv, Held, Desire
<1>3. Wanted'
  BY WantedThere DEF Wanted
<1>4. Bounded'
  BY <1>0, Positions DEF Bounded, Limited
<1>5. Purpose'
  <2>1. d.cur \in Services
    BY DEF HInv, Inv, Sound, Control
  <2> QED BY <1>0, <2>1 DEF Purpose, Starting, SameTask
<1> QED BY <1>1, <1>2, <1>3, <1>4, <1>5 DEF Held

\* The steps of restart.
LEMMA RestartHeld ==
    ASSUME HInv, NoNewOwned,
           \/ Restart \/ RestartBegin \/ RestartStopInvoke \/ RestartStop
           \/ RestartStopped,
           Turning \/ Calm
    PROVE  Held'
<1>s. /\ d \in Control /\ d.cur \in Services /\ StoreTypeOK /\ WorldTypeOK
      /\ d.job = "up" => d.def \in Defs
  BY DEF HInv, Held, Route, Inv, Sound, Control
<1>r. Neutral(at("idle"))
  BY <1>s, NeutralNextDue
<1>q. d.pc \in RestartPC \cup {"restart", "restart_begin"}
  BY DEF Restart, RestartBegin, RestartStopInvoke, RestartStop,
     RestartStopped, Journal, RestartPC
<1>n. ~Starting(d) /\ d.pc \notin AbortPC \cup DownPC /\ d.job = "restart"
      /\ (d.pc # "restart" => d.ret = "pre_restart")
  BY <1>q, Positions DEF HInv, Held, Route, Starting
<1>u. ASSUME UNCHANGED dbVars PROVE Calm
  BY <1>u DEF Calm, dbVars
<1>i. ASSUME UNCHANGED dbVars, d' = at("idle") PROVE Held'
  BY <1>i, <1>r, <1>n, <1>u, ToNeutral
<1>p. d.pc \in RestartPC => committed /\ ~op.candidate
                            /\ svc[d.cur].desired = "running"
  BY DEF HInv, Held, Purpose
<1>k. ASSUME Calm, d.pc \in RestartPC, NEW p \in RestartPC, goto(p)
      PROVE  Held'
  <2>1. d'.pc = p /\ SameTask(d, d')
    BY <1>s, <1>k DEF goto, Control, SameTask
  <2>2. d.pc # "restart"
    BY <1>k DEF RestartPC
  <2> QED BY <1>n, <1>p, <1>k, <2>1, <2>2, RestartTo DEF Calm, committed
<1>f. ASSUME Calm, d.pc \in RestartPC, NEW e, d' = start_fails(d, e)
      PROVE  Held'
  <2>1. d.pc # "restart" /\ d.pc \notin {"qualify", "mark_running"}
    BY <1>f DEF RestartPC
  <2>2. d'.pc = "abort" /\ SameTask(d, d')
    BY <1>s, <1>n, <1>f, <2>1, StartFailsTo
  <2> QED BY <1>f, <2>1, <2>2, ToAbort
<1>c. ~(BeginCurrent \/ CandBegin \/ UpConverge \/ Finish \/ Finalize
        \/ DownBegin \/ DownStopped \/ DownFinish \/ DownFinal \/ Reconcile
        \/ Resume)
  BY <1>q DEF BeginCurrent, CandBegin, UpConverge, Finish,
       Finalize, DownBegin, DownStopped, DownFinish, DownFinal,
       Reconcile, Resume, RestartPC
<1>1. CASE Restart
  <2>1. CASE committed /\ d' = [d EXCEPT !.pc = "deps", !.ret = "pre_restart",
                                        !.deps = DependsOn[d.cur]]
    <3>1. d'.pc = "deps" /\ d'.ret = "pre_restart" /\ d'.job = "restart"
      BY <1>s, <1>n, <2>1 DEF Control
    <3>2. d'.pc \notin OnlyStartPC \cup BirthPC \cup RestartPC \cup UpPC
             \cup {"restart_invoke", "restart", "restart_begin"}
      BY <3>1, Positions
    <3>3. Neutral(d')
      BY <3>1, <3>2 DEF Neutral, Route
    <3>4. Calm
      BY <1>u, <1>1 DEF Restart
    <3> QED BY <1>n, <3>3, <3>4, ToNeutral
  <2> QED BY <1>1, <1>i, <2>1 DEF Restart
<1>2. CASE RestartBegin
  <2>1. CASE UNCHANGED dbVars /\ return
    BY <1>i, <2>1 DEF return
  <2>2. CASE begin_restart_ok(d.cur) /\ begin_restart(d.cur)
             /\ goto("restart_stop_invoke")
    <3>1. d'.pc = "restart_stop_invoke" /\ SameTask(d, d')
          /\ d'.pc \in RestartPC /\ d.pc # "restart"
      BY <1>s, <1>2, <2>2
         DEF goto, Control, SameTask, RestartPC, RestartBegin
    <3>2. [svc[d.cur] EXCEPT !.phase = "restart_stop_intent"].desired
             = svc[d.cur].desired
      BY <1>s DEF StoreTypeOK, ServiceRow
    <3>3. \A s \in Services : svc'[s].desired = svc[s].desired
      BY <1>s, <2>2, <3>2 DEF begin_restart, write_row, StoreTypeOK
    <3>4. stack' = stack /\ ~op'.candidate
      BY <2>2 DEF begin_restart, write_row
    <3>5. committed /\ svc[d.cur].desired = "running"
      BY <2>2 DEF begin_restart_ok
    <3> QED BY <1>n, <3>1, <3>3, <3>4, <3>5, RestartTo DEF committed
  <2> QED BY <1>2, <2>1, <2>2 DEF RestartBegin, StoreFails
<1>3. CASE RestartStopInvoke
  <2>1. d.pc = "restart_stop_invoke" /\ d.pc \in RestartPC
        /\ "restart_stop" \in RestartPC
    BY <1>3 DEF RestartStopInvoke, Journal, RestartPC
  <2>2. Calm
    BY <1>c, <2>1 DEF Turning, RestartBegin
  <2>3. goto("restart_stop") \/ d' = start_fails(d, "store")
    BY <1>3 DEF RestartStopInvoke, Journal
  <2> QED BY <1>k, <1>f, <2>1, <2>2, <2>3
<1>4. CASE RestartStop
  <2>1. d.pc = "restart_stop" /\ d.pc \in RestartPC
        /\ "restart_stopped" \in RestartPC
    BY <1>4 DEF RestartStop, RestartPC
  <2>2. Calm
    BY <1>u, <1>4 DEF RestartStop
  <2>3. goto("restart_stopped") \/ \E e : d' = start_fails(d, e)
    BY <1>4 DEF RestartStop
  <2> QED BY <1>k, <1>f, <2>1, <2>2, <2>3
<1>5. CASE RestartStopped
  <2>1. d.pc = "restart_stopped" /\ d.pc \in RestartPC
    BY <1>5 DEF RestartStopped, RestartPC
  <2>2. Calm
    BY <1>c, <2>1 DEF Turning, RestartBegin
  <2>3. CASE begin_starting(d, <<d.cur>>)
    <3>1. <<d.cur>> \in Seq(Services) /\ <<d.cur>> # << >>
          /\ Head(<<d.cur>>) = d.cur /\ Tail(<<d.cur>>) = << >>
      BY <1>s
    <3>2. /\ \/ d'.pc \in {"finish", "cand_svc", "deps"} /\ d'.ret = "start"
             \/ d'.pc = "abort"
          /\ d'.job = d.job /\ d'.def = d.def
          /\ d'.cur = d.cur /\ d'.todo = << >>
      BY <1>s, <2>3, <3>1, BeginStartingTo
    <3>3. Desire'
      <4>1. d'.pc \notin DownPC
        BY <3>2 DEF DownPC, DownLoopPC
      <4> QED BY <2>2, <4>1 DEF HInv, Held, Desire, Calm
    <3>4. committed /\ ~op.candidate /\ svc[d.cur].desired = "running"
      BY <1>p, <2>1
    <3>5. \A s \in Services : handle'[s] = "owned" =>
              svc'[s].desired = "running" /\ committed'
      BY <1>n, <2>2, WantedThere DEF Calm, committed
    <3>6. ToSet(<< >>) = {}
      BY DEF ToSet
    <3> QED BY <1>s, <2>2, <3>2, <3>3, <3>4, <3>5, <3>6, StartHeld
            DEF Calm, committed
  <2> QED BY <1>f, <1>5, <2>1, <2>2, <2>3 DEF RestartStopped
<1> QED BY <1>1, <1>2, <1>3, <1>4, <1>5

\* The passes of shutdown.
LEMMA ShutdownHeld ==
    ASSUME HInv, NoNewOwned, Calm,
           ShutdownAbsent \/ ShutdownStop \/ ShutdownRecord \/ ShutdownEnd
    PROVE  Held'
<1>s. /\ d \in Control /\ d.todo \in Seq(Services) /\ WorldTypeOK
      /\ d.pc \in LoopPC => d.todo # << >>
      /\ d.job = "up" => d.def \in Defs
  BY DEF HInv, Held, Route, Inv, Sound, Control
<1>h. d.todo # << >> => /\ Head(d.todo) \in Services
                        /\ Tail(d.todo) \in Seq(Services)
                        /\ ToSet(d.todo)
                              = {Head(d.todo)} \cup ToSet(Tail(d.todo))
  BY <1>s, HeadTail, Parts
<1>q. d.pc \in ShutPC \cup {"shutdown_end"}
  BY DEF ShutdownAbsent, ShutdownStop, ShutdownRecord, ShutdownEnd, ShutPC
<1>n. ~Starting(d) /\ d.pc \notin AbortPC \cup DownPC
  BY <1>q, Positions DEF Starting, NeutralPC
<1>b. d.pc \in ShutPC =>
         \A s \in Services : handle'[s] = "owned" =>
            handle[s] = "owned" /\ s \in May(d)
  BY DEF HInv, Held, Bounded, Limited, NoNewOwned
<1>e. ASSUME goto("shutdown_end") PROVE Held'
  <2>1. "shutdown_end" \in NeutralPC
        /\ "shutdown_end" \notin UpPC \cup {"restart", "restart_begin"}
    BY DEF NeutralPC, UpPC
  <2>2. Neutral(d')
    BY <1>s, <1>e, <2>1, NeutralGoto DEF goto
  <2> QED BY <1>n, <2>2, ToNeutral
<1>g. ASSUME d'.pc \in ShutPC, d'.job = d.job, d'.def = d.def,
             \A s \in Services : handle'[s] = "owned" => s \in May(d')
      PROVE  Held'
  <2>0. d'.pc \notin OnlyStartPC \cup BirthPC \cup StartPC \cup DownPC
         \cup AbortPC \cup RestartPC \cup UpPC
         \cup {"deps", "dep_schedule", "cand_begin", "restart_invoke",
               "restart", "restart_begin"}
    BY <1>g, Positions
  <2>1. Route(d)'
    BY <1>s, <1>g, <2>0 DEF Route
  <2>2. Desire'
    BY <2>0 DEF HInv, Held, Desire, Calm
  <2>3. Wanted'
    BY <1>n, WantedThere DEF Wanted, Calm, committed
  <2>4. Bounded'
    BY <1>g DEF Bounded
  <2>5. Purpose'
    BY <2>0 DEF Purpose, Starting
  <2> QED BY <2>1, <2>2, <2>3, <2>4, <2>5 DEF Held
<1>t. ASSUME shutdown_next, d.pc \in ShutPC,
             \A s \in Services :
                handle'[s] = "owned" => s \in ToSet(Tail(d.todo))
      PROVE  Held'
  <2>1. /\ d'.pc = "shutdown" /\ d'.job = d.job /\ d'.def = d.def
        /\ d'.todo = Tail(d.todo)
    BY <1>s, <1>t DEF shutdown_next, Control
  <2>2. May(d') = ToSet(Tail(d.todo)) /\ d'.pc \in ShutPC
    BY <2>1 DEF May, ShutPC
  <2> QED BY <1>g, <1>t, <2>1, <2>2
<1>1. CASE ShutdownAbsent
  <2>1. /\ d.pc = "shutdown" /\ d.pc \in ShutPC /\ May(d) = ToSet(d.todo)
        /\ d.todo # << >> /\ UNCHANGED handle
    BY <1>1 DEF ShutdownAbsent, May, ShutPC, worldVars
  <2>2. CASE goto("shutdown_end")
    BY <1>e, <2>2
  <2>3. CASE handle[Head(d.todo)] = "none" /\ shutdown_next
    <3>1. \A s \in Services :
             handle'[s] = "owned" => s \in ToSet(Tail(d.todo))
      BY <1>b, <1>h, <2>1, <2>3
    <3> QED BY <1>t, <2>1, <2>3, <3>1
  <2> QED BY <1>1, <2>2, <2>3 DEF ShutdownAbsent
<1>2. CASE ShutdownStop
  <2>1. /\ d.pc = "shutdown" /\ d.pc \in ShutPC /\ May(d) = ToSet(d.todo)
        /\ d.todo # << >>
    BY <1>2 DEF ShutdownStop, May, ShutPC
  <2>2. CASE goto("shutdown_end")
    BY <1>e, <2>2
  <2>3. CASE stop_owned_child(Head(d.todo)) /\ goto("shutdown_record")
    <3>1. /\ d'.pc = "shutdown_record" /\ d'.job = d.job /\ d'.def = d.def
          /\ d'.todo = d.todo
      BY <1>s, <2>3 DEF goto, Control
    <3>2. May(d') = ToSet(Tail(d.todo)) /\ d'.pc \in ShutPC
      BY <3>1 DEF May, ShutPC
    <3>3. handle'[Head(d.todo)] # "owned"
      BY <1>s, <1>h, <2>1, <2>3 DEF stop_owned_child, drained, WorldTypeOK
    <3>4. \A s \in Services : handle'[s] = "owned" => s \in May(d')
      BY <1>b, <1>h, <2>1, <3>2, <3>3
    <3> QED BY <1>g, <3>1, <3>2, <3>4
  <2> QED BY <1>2, <2>2, <2>3 DEF ShutdownStop
<1>3. CASE ShutdownRecord
  <2>1. /\ d.pc = "shutdown_record" /\ d.pc \in ShutPC
        /\ May(d) = ToSet(Tail(d.todo))
    BY <1>3 DEF ShutdownRecord, May, ShutPC
  <2>2. goto("shutdown_end") \/ shutdown_next
    BY <1>3 DEF ShutdownRecord
  <2> QED BY <1>b, <1>e, <1>t, <2>1, <2>2
<1>4. CASE ShutdownEnd
  <2>1. CASE process_ends
    <3>1. d' = at("dead")
      BY <2>1 DEF process_ends
    <3>2. "dead" \in NeutralPC
          /\ "dead" \notin UpPC \cup {"restart", "restart_begin"}
      BY DEF NeutralPC, UpPC
    <3>3. Neutral(d')
      BY <1>s, <3>1, <3>2, NeutralGoto
    <3> QED BY <1>n, <3>3, ToNeutral
  <2>2. CASE begin_shutdown(FALSE)
    BY <1>n, <2>2, WantedThere, ShutdownBegins
  <2> QED BY <1>4, <2>1, <2>2 DEF ShutdownEnd
<1> QED BY <1>1, <1>2, <1>3, <1>4

\* The steps of up that begin or end an operation.
LEMMA UpHeld ==
    ASSUME HInv, NoNewOwned,
           UpConverge \/ BeginCurrent \/ CandBegin \/ Finish
    PROVE  Held'
<1>s. /\ d \in Control /\ d.cur \in Services /\ StoreTypeOK /\ WorldTypeOK
      /\ d.todo \in Seq(Services) /\ d.order \in Seq(Services)
      /\ d.job = "up" => d.def \in Defs
  BY DEF HInv, Held, Route, Inv, Sound, Control
<1>r. Neutral(at("idle")) /\ at("idle").pc \notin DownPC
  BY <1>s, NeutralNextDue DEF at, DownPC, DownLoopPC
<1>u. ASSUME UNCHANGED dbVars PROVE Calm
  BY <1>u DEF Calm, dbVars
<1>i. ASSUME UNCHANGED dbVars, d' = at("idle"), ~Starting(d),
             d.pc \notin AbortPC \cup DownPC
      PROVE  Held'
  BY <1>i, <1>r, <1>u, ToNeutral
<1>e. ToSet(<< >>) = {}
  BY DEF ToSet
<1>1. CASE UpConverge
  <2>0. /\ d.pc = "up_check" /\ d.pc \in UpPC /\ d.job = "up"
        /\ ~Starting(d) /\ d.pc \notin AbortPC \cup DownPC
        /\ "up_check" \in NeutralPC
    BY <1>1, Positions DEF UpConverge, UpPC, HInv, Held, Route, Starting,
       NeutralPC
  <2>1. CASE UNCHANGED dbVars /\ d' = at("idle")
    BY <1>i, <2>0, <2>1
  <2>2. CASE record_noop_up(d.def) /\ d' = at("idle")
    <3>1. svc' = svc /\ stack' = stack
          /\ \/ ~op'.candidate
             \/ op' = op
      BY <2>2 DEF record_noop_up
    <3>2. Desire'
      BY <1>r, <2>2, <3>1 DEF HInv, Held, Desire
    <3>3. \A s \in Services : handle'[s] = "owned" =>
              committed' /\ svc'[s].desired = "running"
      BY <2>0, <3>1, WantedThere DEF committed
    <3> QED BY <1>r, <2>2, <3>2, <3>3, NeutralAny
  <2>3. CASE d.order # << >> /\ goto("begin_current") /\ UNCHANGED dbVars
    <3>1. /\ d'.pc = "begin_current" /\ SameTask(d, d')
      BY <1>s, <2>3 DEF goto, Control, SameTask
    <3>2. "begin_current" \in NeutralPC /\ "begin_current" \in UpPC
      BY DEF NeutralPC, UpPC
    <3>3. d'.pc \notin OnlyStartPC \cup BirthPC \cup RestartPC
             \cup {"restart_invoke", "restart", "restart_begin", "deps",
                   "dep_schedule"}
      BY <3>1, <3>2, Positions
    <3>4. Neutral(d')
      BY <1>s, <2>0, <2>3, <3>1, <3>2, <3>3 DEF Neutral, Route, SameTask
    <3> QED BY <1>u, <2>0, <2>3, <3>4, ToNeutral
  <2> QED BY <1>1, <2>1, <2>2, <2>3 DEF UpConverge, StoreFails, return
<1>2. CASE BeginCurrent
  <2>0. /\ d.pc = "begin_current" /\ d.pc \in UpPC /\ d.job = "up"
        /\ d.order # << >>
        /\ ~Starting(d) /\ d.pc \notin AbortPC \cup DownPC
        /\ "begin_current" \in NeutralPC
    BY <1>2, Positions DEF BeginCurrent, UpPC, HInv, Held, Route, Starting,
       NeutralPC
  <2>1. CASE UNCHANGED dbVars /\ d' = at("idle")
    BY <1>i, <2>0, <2>1
  <2>2. CASE /\ begin_start_current_ok
             /\ begin_start_current("up", ToSet(d.order))
             /\ begin_starting(d, d.order)
    <3>1. /\ \/ d'.pc \in {"finish", "cand_svc", "deps"} /\ d'.ret = "start"
             \/ d'.pc = "abort"
          /\ d'.job = d.job /\ d'.def = d.def
          /\ d'.cur = Head(d.order) /\ d'.todo = Tail(d.order)
      BY <1>s, <2>0, <2>2, BeginStartingTo
    <3>2. {d'.cur} \cup ToSet(d'.todo) \subseteq ToSet(d.order)
          /\ ToSet(d.order) \subseteq Services
      BY <1>s, <2>0, <3>1, Parts, ToSetType
    <3>3. /\ \A s \in ToSet(d.order) : svc'[s].desired = "running"
          /\ \A s \in Services : svc'[s].desired \in
                                    {"running", svc[s].desired}
      BY <1>s, <2>2, <3>2 DEF begin_start_current, fresh_row, StoreTypeOK,
         ServiceRow
    <3>4. stack'.desired = "running" /\ (committed' <=> committed)
          /\ committed /\ ~op'.candidate
      BY <1>s, <2>2 DEF begin_start_current, begin_start_current_ok,
         StoreTypeOK, StackRow, committed
    <3>5. Desire'
      <4>1. d'.pc \notin DownPC
        BY <3>1 DEF DownPC, DownLoopPC
      <4> QED BY <3>4, <4>1 DEF Desire
    <3>6. \A s \in Services : handle'[s] = "owned" =>
              svc'[s].desired = "running" /\ committed'
      BY <2>0, <3>3, <3>4, WantedThere
    <3> QED BY <1>s, <3>1, <3>2, <3>3, <3>4, <3>5, <3>6, StartHeld
  <2> QED BY <1>2, <2>1, <2>2 DEF BeginCurrent, StoreFails, return
<1>3. CASE CandBegin
  <2>0. /\ d.pc = "cand_begin" /\ d.pc \in UpPC /\ d.job = "up"
        /\ ~Starting(d) /\ d.pc \notin AbortPC \cup DownPC
        /\ Limited(d, op.candidate) /\ May(d) = {}
    BY <1>3, Positions DEF CandBegin, UpPC, HInv, Held, Route, Starting,
       Limited, May
  <2>1. CASE UNCHANGED dbVars /\ d' = at("idle")
    BY <1>i, <2>0, <2>1
  <2>2. CASE /\ \E reused : begin_candidate(d.def, reused)
             /\ d' = start_next([d EXCEPT !.order = Order], Order)
    <3> DEFINE c == [d EXCEPT !.order = Order]
    <3>1. /\ c \in Control /\ c.job = d.job /\ c.def = d.def
      BY <1>s, OrderAssumption DEF Control
    <3>2. d' = start_next(c, Order)
      BY <2>2
    <3> HIDE DEF c
    <3>3. Order # << >> /\ Order \in Seq(Services)
      BY OrderAssumption
    <3>4. /\ d'.pc \in {"cand_svc", "deps"} /\ d'.ret = "start"
          /\ d'.job = "up" /\ d'.def = d.def
          /\ d'.cur = Head(Order) /\ d'.todo = Tail(Order)
      BY <2>0, <3>1, <3>2, <3>3, StartNextTo
    <3>5. {d'.cur} \cup ToSet(d'.todo) \subseteq Services
      <4>1. Head(Order) \in Services /\ Tail(Order) \in Seq(Services)
        BY <3>3, HeadTail
      <4>2. ToSet(Tail(Order)) \subseteq Services
        BY <4>1, ToSetType
      <4> QED BY <3>4, <4>1, <4>2
    <3>6. /\ \A s \in Services : svc'[s].desired = "running"
          /\ stack'.desired = "running" /\ op'.candidate /\ op'.def = d.def
      <4>2. svc \in [Services -> ServiceRow] /\ stack \in StackRow
        BY <1>s DEF StoreTypeOK
      <4>3. \A s \in Services : svc'[s].desired = "running"
        <5> SUFFICES ASSUME NEW s \in Services
                     PROVE  svc'[s].desired = "running"
          OBVIOUS
        <5>1. PICK o, p : svc'[s] = [fresh_row(svc[s], o, p)
                                       EXCEPT !.attempts = 0]
          BY <2>2 DEF begin_candidate
        <5> QED BY <4>2, <5>1 DEF fresh_row, ServiceRow
      <4>4. /\ stack' = [stack EXCEPT !.exists = TRUE, !.desired = "running",
                                      !.observed = "starting"]
            /\ op' = [kind |-> "up", candidate |-> TRUE, def |-> d.def,
                      outcome |-> "null"]
        BY <2>2 DEF begin_candidate
      <4> QED BY <4>2, <4>3, <4>4 DEF StackRow
    <3>7. Desire'
      <4>1. d'.pc \notin DownPC
        BY <3>4 DEF DownPC, DownLoopPC
      <4> QED BY <1>s, <2>0, <3>6, <4>1, DefsAssumption DEF Desire
    <3>8. \A s \in Services : handle'[s] # "owned"
      BY <2>0 DEF HInv, Held, Bounded, NoNewOwned
    <3> QED BY <1>s, <2>0, <3>4, <3>5, <3>6, <3>7, <3>8, StartHeld
  <2> QED BY <1>3, <2>1, <2>2 DEF CandBegin, StoreFails, return,
          begin_candidate_recovery, begin_up
<1>4. CASE Finish
  <2>0. /\ d.pc = "finish" /\ d.pc \in OnlyStartPC /\ Starting(d)
        /\ d.pc \notin DownPC /\ UNCHANGED handle
    BY <1>4, Positions DEF Finish, OnlyStartPC, HInv, Held, Route, Starting,
       worldVars
  <2>1. CASE UNCHANGED dbVars /\ d' = start_fails(d, "store")
    <3>1. d.ret = "start" /\ d.pc \notin {"qualify", "mark_running"}
      BY <2>0 DEF Starting
    <3> QED BY <1>u, <2>0, <2>1, <3>1, JournalHeld
  <2>2. CASE op.candidate /\ commit_up /\ d' = at("idle")
    <3>1. committed' /\ stack'.desired = "running"
          /\ \A s \in Services : svc'[s].desired = "running"
      BY <1>s, <2>2 DEF commit_up, committed, StoreTypeOK, StackRow,
         ServiceRow, HInv, Held, Desire
    <3>2. op'.candidate = op.candidate /\ op'.def = op.def
      BY <1>s, <2>2 DEF commit_up, StoreTypeOK, Operation
    <3>3. Desire'
      BY <1>r, <2>2, <3>1, <3>2 DEF HInv, Held, Desire
    <3> QED BY <1>r, <2>2, <3>1, <3>3, NeutralAny
  <2>3. CASE ~op.candidate /\ finish_start_current /\ d' = at("idle")
    <3>1. Calm
      BY <1>s, <2>3 DEF finish_start_current, Calm, StoreTypeOK, StackRow,
         ServiceRow, Operation
    <3>2. \A s \in Services : handle'[s] = "owned" =>
              committed /\ svc[s].desired = "running"
      BY <2>0, <2>3 DEF HInv, Held, Wanted
    <3> QED BY <1>r, <2>3, <3>1, <3>2, NeutralHeld
  <2> QED BY <1>4, <2>1, <2>2, <2>3 DEF Finish, StoreFails, return
<1> QED BY <1>1, <1>2, <1>3, <1>4

\* Cold start and resume.
LEMMA BootHeld ==
    ASSUME HInv, NoNewOwned, Reconcile \/ Resume
    PROVE  Held'
<1>s. /\ d \in Control /\ StoreTypeOK /\ (d.job = "up" => d.def \in Defs)
  BY DEF HInv, Held, Route, Inv, Sound
<1>n. ~Starting(d) /\ d.pc \notin AbortPC \cup DownPC
  <2>1. d.pc \in NeutralPC
    BY DEF Reconcile, Resume, NeutralPC
  <2> QED BY <2>1, Positions DEF Starting
<1>r. /\ \A p \in {"idle", "dead", "resume"} :
            /\ Neutral(at(p)) /\ Neutral([d EXCEPT !.pc = p])
            /\ p \notin DownPC
  <2>1. {"idle", "dead", "resume"} \subseteq NeutralPC
        /\ {"idle", "dead", "resume"}
             \cap (UpPC \cup {"restart", "restart_begin"}) = {}
    BY DEF NeutralPC, UpPC
  <2> QED BY <1>s, <2>1, NeutralGoto, Positions
<1>u. ASSUME UNCHANGED dbVars PROVE Calm
  BY <1>u DEF Calm, dbVars
<1>i. ASSUME UNCHANGED dbVars, NEW p \in {"idle", "dead"}, d' = at(p)
      PROVE  Held'
  BY <1>i, <1>n, <1>r, <1>u, ToNeutral
<1>1. CASE Reconcile
  <2>1. CASE UNCHANGED dbVars /\ d' = at("dead")
    BY <1>i, <2>1
  <2>2. CASE reconcile_cold_start /\ goto("resume")
    <3>1. svc' = [s \in Services |-> cold_row(s)]
      BY <2>2 DEF reconcile_cold_start
    <3>2. \A s \in Services : cold_row(s).desired = svc[s].desired
      BY <1>s DEF cold_row, StoreTypeOK, ServiceRow
    <3>3. \A s \in Services : svc'[s].desired = svc[s].desired
      BY <3>1, <3>2
    <3>4. op'.candidate = op.candidate /\ op'.def = op.def
      BY <1>s, <2>2 DEF reconcile_cold_start, finish_op, StoreTypeOK,
         Operation
    <3>5. stack'.def = stack.def
          /\ \/ stack'.desired = stack.desired
             \/ \A s \in Services : cold_row(s).desired = "stopped"
      <4>1. PICK des \in {"stopped", stack.desired} :
              /\ \/ des = stack.desired
                 \/ \A s \in Services : cold_row(s).desired = "stopped"
              /\ \/ stack' = stack
                 \/ \E o : stack' = [stack EXCEPT !.desired = des,
                                                  !.observed = o]
        BY <2>2, <3>1 DEF reconcile_cold_start
      <4> QED BY <1>s, <4>1 DEF StoreTypeOK, StackRow
    <3>6. d' = [d EXCEPT !.pc = "resume"] /\ d'.pc = "resume"
      BY <1>s, <2>2 DEF goto, Control
    <3>7. Desire'
      BY <1>r, <3>2, <3>3, <3>4, <3>5, <3>6 DEF HInv, Held, Desire
    <3>8. \A s \in Services : handle'[s] = "owned" =>
              committed' /\ svc'[s].desired = "running"
      BY <1>n, <3>3, <3>5, WantedThere DEF committed
    <3> QED BY <1>r, <3>6, <3>7, <3>8, NeutralAny
  <2> QED BY <1>1, <2>1, <2>2 DEF Reconcile, StoreFails
<1>2. CASE Resume
  <2>1. CASE UNCHANGED dbVars /\ d' \in {at("dead"), at("idle")}
    BY <1>i, <2>1
  <2>2. CASE /\ begin_start_current_ok
             /\ begin_start_current("resume", Services)
             /\ begin_starting([d EXCEPT !.job = "resume", !.order = Order],
                               Order)
    <3> DEFINE c == [d EXCEPT !.job = "resume", !.order = Order]
    <3>0. Order # << >> /\ Order \in Seq(Services)
      BY OrderAssumption
    <3>1. c \in Control /\ c.job = "resume"
      BY <1>s, <3>0 DEF Control, Job
    <3>2. begin_starting(c, Order)
      BY <2>2
    <3> HIDE DEF c
    <3>3. /\ \/ d'.pc \in {"finish", "cand_svc", "deps"} /\ d'.ret = "start"
             \/ d'.pc = "abort"
          /\ d'.job = "resume"
          /\ d'.cur = Head(Order) /\ d'.todo = Tail(Order)
      BY <3>0, <3>1, <3>2, BeginStartingTo
    <3>4. {d'.cur} \cup ToSet(d'.todo) \subseteq Services
      BY <3>0, <3>3, HeadTail, ToSetType
    <3>5. \A s \in Services : svc'[s].desired = "running"
      BY <1>s, <2>2 DEF begin_start_current, fresh_row, StoreTypeOK,
         ServiceRow
    <3>6. stack'.desired = "running" /\ committed' /\ ~op'.candidate
      BY <1>s, <2>2 DEF begin_start_current, begin_start_current_ok,
         StoreTypeOK, StackRow, committed
    <3>7. Desire'
      <4>1. d'.pc \notin DownPC
        BY <3>3 DEF DownPC, DownLoopPC
      <4> QED BY <3>6, <4>1 DEF Desire
    <3> QED BY <3>3, <3>4, <3>5, <3>6, <3>7, StartHeld
  <2> QED BY <1>2, <2>1, <2>2 DEF Resume, StoreFails, return
<1> QED BY <1>1, <1>2

\* Starts and ends of the daemon, requests, exits.
LEMMA EnvironmentHeld ==
    ASSUME HInv, NoNewOwned, Calm, Environment
    PROVE  Held'
<1>s. d \in Control /\ (d.job = "up" => d.def \in Defs)
      /\ d.cur \in Services
  BY DEF HInv, Held, Route, Inv, Sound, Control
<1>r. /\ \A p \in {"dead", "reconcile"} :
            Neutral(at(p)) /\ p \notin DownPC /\ at(p).pc = p
      /\ {"dead", "idle", "tick"} \subseteq NeutralPC
  <2>1. {"dead", "reconcile", "idle", "tick"} \subseteq NeutralPC
        /\ {"dead", "reconcile"}
             \cap (UpPC \cup {"restart", "restart_begin"}) = {}
    BY DEF NeutralPC, UpPC
  <2> QED BY <1>s, <2>1, NeutralGoto, Positions DEF at
<1>n. ASSUME d.pc \in {"dead", "idle"}
      PROVE  ~Starting(d) /\ d.pc \notin AbortPC \cup DownPC
  BY <1>n, <1>r, Positions DEF Starting
<1>1. CASE Boot
  BY <1>1, <1>n, <1>r, ToNeutral DEF Boot
<1>2. CASE Accept
  <2>1. d'.pc = "tick" /\ (d'.job = "up" => d'.def \in Defs)
    <3>1. CASE d' = at("tick")
      BY <3>1 DEF at
    <3>2. ASSUME NEW m \in Defs,
                 d' = [at("tick") EXCEPT !.job = "up", !.def = m]
          PROVE  d'.pc = "tick" /\ d'.def \in Defs
      BY <3>2 DEF at
    <3>3. CASE d' = [at("tick") EXCEPT !.job = "down"]
      BY <3>3 DEF at
    <3>4. ASSUME NEW s \in Services,
                 d' = [at("tick") EXCEPT !.job = "restart", !.cur = s]
          PROVE  d'.pc = "tick" /\ d'.job = "restart"
      BY <3>4 DEF at
    <3> QED BY <1>2, <3>1, <3>2, <3>3, <3>4 DEF Accept
  <2>2. "tick" \notin OnlyStartPC \cup BirthPC \cup RestartPC \cup UpPC
             \cup {"restart_invoke", "restart", "restart_begin", "deps",
                   "dep_schedule"}
    BY <1>r, Positions DEF UpPC
  <2>3. Neutral(d')
    BY <1>r, <2>1, <2>2 DEF Neutral, Route
  <2> QED BY <1>2, <1>n, <2>3, ToNeutral DEF Accept
<1>e. ASSUME process_ends PROVE Held'
  <2>1. \A s \in Services : handle'[s] # "owned"
    BY <1>e DEF process_ends
  <2>2. d' = at("dead")
    BY <1>e DEF process_ends
  <2>3. Desire'
    BY <1>r, <2>2 DEF HInv, Held, Desire, Calm
  <2> QED BY <1>r, <2>1, <2>2, <2>3, NeutralAny
<1>3. CASE Crash
  BY <1>3, <1>e DEF Crash
<1>4. CASE SigTerm
  <2>1. CASE begin_shutdown(TRUE)
    BY <1>4, <1>n, <2>1, WantedThere, ShutdownBegins DEF SigTerm
  <2> QED BY <1>4, <1>e, <2>1 DEF SigTerm
<1>5. CASE \E s \in Services : TracerExits(s) \/ TreeEnds(s)
  <2>1. UNCHANGED <<stack, svc, op, d, handle>>
    BY <1>5 DEF TracerExits, TreeEnds, dbVars
  <2> QED BY <2>1 DEF HInv, Held, Route, Desire, Wanted, Bounded, Purpose,
          committed
<1> QED BY <1>1, <1>2, <1>3, <1>4, <1>5 DEF Environment

\* Nothing is owned at first.
LEMMA InitHeld == Init => Held
<1> SUFFICES ASSUME Init PROVE Held
  OBVIOUS
<1>1. d.pc = "dead" /\ d.job = "none" /\ d.pc \in NeutralPC
  BY DEF Init, at, NeutralPC
<1>2. d.pc \notin OnlyStartPC \cup BirthPC \cup RestartPC \cup UpPC
             \cup StartPC \cup AbortPC \cup DownPC
             \cup {"restart_invoke", "restart", "restart_begin", "deps",
                   "dep_schedule"}
  BY <1>1, Positions DEF UpPC
<1>3. Route(d)
  BY <1>1, <1>2 DEF Route
<1>4. Desire
  BY <1>2 DEF Desire, Init, StoreInit
<1>5. Wanted /\ Bounded
  BY DEF Wanted, Bounded, Init
<1>6. Purpose
  BY <1>2 DEF Purpose, Starting
<1> QED BY <1>3, <1>4, <1>5, <1>6 DEF Held

\* Every step keeps the invariant.
LEMMA NextHInv == HInv /\ [Next]_vars => HInv'
<1> SUFFICES ASSUME HInv, [Next]_vars PROVE Held'
  BY NextInv DEF HInv
<1>1. CASE UNCHANGED vars
  BY <1>1 DEF vars, HInv, Held, Route, Desire, Wanted, Bounded, Purpose,
     committed
<1>2. CASE Next
  <2>0. Inv
    BY DEF HInv
  <2>1. NoNewOwned \/ JournalChild
    BY <1>2, <2>0, OwnedNext
  <2>2. Turning \/ Calm
    BY <1>2, <2>0, CalmNext
  <2>3. CASE Turning
    <3>1. NoNewOwned
      BY <2>1, <2>3 DEF Turning, JournalChild, BeginCurrent, CandBegin,
         UpConverge, Finish, Finalize, DownBegin, DownStopped, DownFinish,
         DownFinal, RestartBegin, Reconcile, Resume
    <3>2. CASE Finalize
      <4>1. Calm
        <5>1. StoreTypeOK
          BY <2>0 DEF Inv
        <5> QED BY <3>2, <5>1 DEF Finalize, finalize_operation_failure,
                finish_op, StoreFails, dbVars, Calm, StoreTypeOK, Operation
      <4> QED BY <3>1, <3>2, <4>1, AbortHeld DEF AbortStart
    <3> QED BY <2>3, <3>1, <3>2, UpHeld, DownHeld, RestartHeld, BootHeld
            DEF Turning
  <2>4. CASE Calm /\ ~Turning
    <3>1. CASE StartOne
      BY <2>1, <2>4, <3>1, StartOneHeld DEF Turning
    <3>2. CASE ~StartOne
      <4>1. NoNewOwned
        BY <2>1, <3>2 DEF StartOne
      <4> QED BY <1>2, <2>4, <3>2, <4>1, SuperviseHeld, PrepareHeld,
              DependHeld, AbortHeld, DownHeld, RestartHeld, ShutdownHeld,
              BootHeld, EnvironmentHeld
              DEF Next, DaemonStep, Stop
    <3> QED BY <3>1, <3>2
  <2> QED BY <2>2, <2>3, <2>4
<1> QED BY <1>1, <1>2 DEF Next

\* The invariant holds in every reachable state.
LEMMA HeldInvariance == Spec => []HInv
<1>1. Init => HInv
  BY InitInv, InitHeld DEF HInv
<1> QED BY <1>1, NextHInv, PTL DEF Spec

\* Between requests the daemon owns children only of a committed stack that
\* is to run, and the failure of a candidate is journalled only after every
\* service it had started was let go of, whatever fails on the way.
THEOREM NoPartialStackHolds == Spec => []NoPartialStack
<1>1. HInv => NoPartialStack
  <2> SUFFICES ASSUME HInv, NEW s \in Services, handle[s] = "owned"
               PROVE  /\ d.pc = "idle" =>
                            committed /\ svc[s].desired = "running"
                      /\ d.pc = "finalize" => ~op.candidate
    BY DEF NoPartialStack
  <2>1. ASSUME d.pc = "idle" PROVE committed /\ svc[s].desired = "running"
    <3>1. ~Starting(d) /\ d.pc \notin AbortPC \cup DownPC
      BY <2>1, Positions DEF NeutralPC, Starting
    <3> QED BY <3>1 DEF HInv, Held, Wanted
  <2>2. ASSUME d.pc = "finalize", op.candidate PROVE FALSE
    <3>1. Limited(d, op.candidate) /\ May(d) = {}
      BY <2>2 DEF Limited, May, AbortPC
    <3> QED BY <3>1 DEF HInv, Held, Bounded
  <2> QED BY <2>1, <2>2
<1> QED BY <1>1, HeldInvariance, PTL

DuePCs == {"due", "up", "down_begin", "restart", "idle"}

\* Where the control functions of runtime.rs lead.
LEMMA Leads ==
    ASSUME NEW c \in Control
    PROVE  /\ next_due(c).pc \in DuePCs
           /\ deps_failed(c).pc \in DuePCs \cup {"abort"}
           /\ deps_done(c).pc \in {"start_invoke", "restart_invoke",
                                   "restart_begin", "up_check"}
           /\ \A e : start_fails(c, e).pc \in {"abort", "restore",
                                               "due_unknown"}
           /\ \A q : start_next(c, q).pc \in {"finish", "cand_svc", "deps"}
           /\ \A q : cleanup_next(c, q).pc \in {"finalize", "cleanup"}
           /\ \A q : survivors_next(c, q).pc \in {"finalize", "survivors"}
           /\ \A q : abort_others_next(c, q).pc \in {"finalize", "cleanup",
                                                     "abort_others"}
<1>1. ASSUME NEW b \in Control PROVE next_due(b).pc \in DuePCs
  BY DEF next_due, after_tick, at, DuePCs, Control
<1>2. [c EXCEPT !.deps = << >>] \in Control
  BY EmptyType DEF Control
<1>3. deps_failed(c).pc \in DuePCs \cup {"abort"}
  BY <1>1, <1>2 DEF deps_failed, at, DuePCs, Control
<1>4. deps_done(c).pc \in {"start_invoke", "restart_invoke",
                           "restart_begin", "up_check"}
  BY DEF deps_done, Control
<1>5. \A e : start_fails(c, e).pc \in {"abort", "restore", "due_unknown"}
  BY DEF start_fails, Control
<1>6. \A q : start_next(c, q).pc \in {"finish", "cand_svc", "deps"}
  <2> TAKE q
  <2>1. \E p \in {"cand_svc", "deps"} :
           start_next(c, q) \in
             {[c EXCEPT !.pc = "finish", !.todo = << >>],
              [c EXCEPT !.pc = p, !.cur = Head(q), !.todo = Tail(q),
                        !.deps = DependsOn[Head(q)], !.ret = "start"]}
    BY DEF start_next
  <2> QED BY <2>1 DEF Control
<1>7. \A q : cleanup_next(c, q).pc \in {"finalize", "cleanup"}
  BY DEF cleanup_next, Control
<1>8. \A q : survivors_next(c, q).pc \in {"finalize", "survivors"}
  BY DEF survivors_next, Control
<1>9. \A q : abort_others_next(c, q).pc \in {"finalize", "cleanup",
                                             "abort_others"}
  BY <1>7 DEF abort_others_next, Control
<1> QED BY <1>1, <1>3, <1>4, <1>5, <1>6, <1>7, <1>8, <1>9

\* The loop of a starting operation, or its abort.
LEMMA Starts ==
    ASSUME NEW c \in Control, NEW q, begin_starting(c, q)
    PROVE  d'.pc \in {"finish", "cand_svc", "deps", "abort"}
<1> DEFINE n == start_next(c, q)
<1>1. n.pc \in {"finish", "cand_svc", "deps"}
  BY Leads
<1>2. [n EXCEPT !.pc = "abort", !.err = "store"].pc = "abort"
  <2>1. PICK p \in {"cand_svc", "deps"} :
           \/ n = [c EXCEPT !.pc = "finish", !.todo = << >>]
           \/ n = [c EXCEPT !.pc = p, !.cur = Head(q), !.todo = Tail(q),
                            !.deps = DependsOn[Head(q)], !.ret = "start"]
    BY DEF start_next
  <2>2. "pc" \in DOMAIN n
    BY <2>1 DEF Control
  <2> HIDE DEF n
  <2> QED BY <2>2
<1> QED BY <1>1, <1>2 DEF begin_starting

\* A request is preceded by a tick.
LEMMA AcceptTo == Accept => d'.pc = "tick"
<1> SUFFICES ASSUME Accept PROVE d'.pc = "tick"
  OBVIOUS
<1>1. CASE d' = at("tick")
  BY <1>1 DEF at
<1>2. ASSUME NEW m \in Defs,
             d' = [at("tick") EXCEPT !.job = "up", !.def = m]
      PROVE  d'.pc = "tick"
  BY <1>2 DEF at
<1>3. CASE d' = [at("tick") EXCEPT !.job = "down"]
  BY <1>3 DEF at
<1>4. ASSUME NEW s \in Services,
             d' = [at("tick") EXCEPT !.job = "restart", !.cur = s]
      PROVE  d'.pc = "tick"
  BY <1>4 DEF at
<1> QED BY <1>1, <1>2, <1>3, <1>4 DEF Accept

-----------------------------------------------------------------------------
(* Backwards through the start order *)

ListPC == DownLoopPC \cup ShutPC

\* The steps that move along, or begin, a list of down or shutdown.
Listing ==
    \/ DownBegin \/ DownSvc \/ DownStop \/ DownStopped
    \/ ShutdownAbsent \/ ShutdownStop \/ ShutdownRecord \/ ShutdownEnd
    \/ SigTerm \/ Finalize

\* The positions of down and shutdown, and those of a scheduled restart that
\* has begun.
EnterPC == DownPC \cup ShutPC \cup {"spawn", "restore"}

\* The steps that lead there.
Entering ==
    \/ Listing \/ DownFinish \/ DownQuarantine
    \/ RestartInvoke \/ MarkStartInvoked \/ SpawnRefused

\* All others lead elsewhere.
LEMMA Elsewhere ==
    ASSUME Inv, Next, ~Entering
    PROVE  UNCHANGED d \/ d'.pc \notin EnterPC
<1>s. d \in Control
  BY DEF Inv, Sound
<1>p. EnterPC = {"down_svc", "down_stop", "down_stopped", "down_quarantine",
                 "down_final", "shutdown", "shutdown_record", "spawn",
                 "restore"}
  BY DEF EnterPC, DownPC, DownLoopPC, ShutPC
<1>f. \A e : d' = start_fails(d, e) /\ e # "prespawn"
                => d'.pc \notin EnterPC
  BY <1>s, <1>p DEF start_fails, Control
<1>a. (\A p : at(p).pc = p) /\ (return => d'.pc = "idle")
      /\ (process_ends => d'.pc = "dead")
  BY DEF at, return, process_ends
<1>b. \A p : goto(p) => d'.pc = p
  BY <1>s DEF goto, Control
<1>1. CASE Supervise
  <2>1. CASE TickUncertain \/ TickChild \/ TickSchedule
    BY <1>s, <1>p, <2>1 DEF TickUncertain, TickChild, TickSchedule,
       tick_next, goto, Control
  <2>2. CASE TickDue \/ Due
    <3>1. \A D \in SUBSET Services : [d EXCEPT !.due = D] \in Control
      BY <1>s DEF Control
    <3>2. \A s \in d.due :
             [d EXCEPT !.cur = s, !.due = d.due \ {s}] \in Control
      BY <1>s DEF Control
    <3>3. CASE TickDue
      <4>1. \A D \in SUBSET Services :
               d' = next_due([d EXCEPT !.due = D]) => d'.pc \notin EnterPC
        BY <1>p, <3>1, Leads DEF DuePCs
      <4> QED BY <1>p, <1>a, <3>3, <4>1 DEF TickDue
    <3>4. CASE Due
      <4>1. PICK s \in d.due :
               \/ d' = next_due([d EXCEPT !.cur = s, !.due = d.due \ {s}])
               \/ d' = [[d EXCEPT !.cur = s, !.due = d.due \ {s}]
                         EXCEPT !.pc = "deps", !.deps = DependsOn[s],
                                !.ret = "due"]
        BY <3>4 DEF Due
      <4>2. CASE d' = next_due([d EXCEPT !.cur = s, !.due = d.due \ {s}])
        BY <1>p, <3>2, <4>2, Leads DEF DuePCs
      <4>3. CASE d' = [[d EXCEPT !.cur = s, !.due = d.due \ {s}]
                         EXCEPT !.pc = "deps", !.deps = DependsOn[s],
                                !.ret = "due"]
        BY <1>s, <1>p, <4>3 DEF Control
      <4> QED BY <4>1, <4>2, <4>3
    <3> QED BY <2>2, <3>3, <3>4
  <2>3. CASE Restore \/ Reschedule \/ DueUnknown
    BY <1>s, <1>p, <2>3, Leads DEF Restore, Reschedule, DueUnknown,
       DuePCs
  <2> QED BY <1>1, <2>1, <2>2, <2>3 DEF Supervise, Entering
<1>2. CASE Prepare
  <2>1. CASE Up \/ UpCheck \/ UpConverge
    <3>1. \/ return \/ goto("cand_begin") \/ goto("begin_current")
          \/ d' = [d EXCEPT !.pc = "up_check", !.todo = Order]
          \/ d' = [d EXCEPT !.pc = "deps", !.deps = <<Head(d.todo)>>,
                            !.ret = "up_check"]
          \/ d.pc = "up_check"
             /\ d' = [d EXCEPT !.order = Append(d.order, Head(d.todo)),
                               !.todo = Tail(d.todo)]
      BY <2>1 DEF Up, UpCheck, UpConverge
    <3>2. d' = [d EXCEPT !.pc = "up_check", !.todo = Order]
             => d'.pc \notin EnterPC
      BY <1>s, <1>p DEF Control
    <3>3. d' = [d EXCEPT !.pc = "deps", !.deps = <<Head(d.todo)>>,
                         !.ret = "up_check"] => d'.pc \notin EnterPC
      BY <1>s, <1>p DEF Control
    <3>4. d' = [d EXCEPT !.order = Append(d.order, Head(d.todo)),
                         !.todo = Tail(d.todo)] => d'.pc = d.pc
      BY <1>s DEF Control
    <3> QED BY <1>p, <1>a, <1>b, <3>1, <3>2, <3>3, <3>4
  <2>2. CASE BeginCurrent
    <3>1. CASE begin_starting(d, d.order)
      BY <1>s, <1>p, <3>1, Starts
    <3> QED BY <1>a, <1>p, <2>2, <3>1 DEF BeginCurrent
  <2>3. CASE CandBegin
    <3>1. [d EXCEPT !.order = Order] \in Control
      BY <1>s, OrderAssumption DEF Control
    <3> QED BY <1>a, <1>p, <2>3, <3>1, Leads DEF CandBegin
  <2>4. CASE \/ CandSvc \/ MarkLogsPrepared \/ MarkInstallInvoked
             \/ Install \/ MarkInstalled \/ MarkRootfsUnknown
             \/ MarkInstallFailed
    BY <1>p, <1>b, <1>f, <2>4 DEF CandSvc, MarkLogsPrepared,
       MarkInstallInvoked, Install, MarkInstalled, MarkRootfsUnknown,
       MarkInstallFailed, Journal
  <2> QED BY <1>2, <2>1, <2>2, <2>3, <2>4 DEF Prepare
<1>3. CASE Depend
  <2>1. CASE DepsDone
    BY <1>s, <1>p, <2>1, Leads DEF DepsDone, DuePCs
  <2>2. CASE DepValid
    <3>1. d'.pc = "deps"
      BY <1>s, <2>2 DEF DepValid, Control
    <3> QED BY <1>p, <3>1
  <2>3. CASE DepAbsent \/ DepUnqualified \/ DepExitAmbiguous \/ DepSchedule
    <3>1. d' = deps_failed(d)
      BY <2>3 DEF DepAbsent, DepUnqualified, DepExitAmbiguous, DepSchedule
    <3> QED BY <1>s, <1>p, <3>1, Leads DEF DuePCs
  <2>4. CASE DepExited
    <3>1. d' = deps_failed(d) \/ goto("dep_schedule")
      BY <2>4 DEF DepExited
    <3> QED BY <1>s, <1>p, <1>b, <3>1, Leads DEF DuePCs
  <2> QED BY <1>3, <2>1, <2>2, <2>3, <2>4 DEF Depend
<1>4. CASE StartOne
  <2>1. CASE MarkRunning
    <3>1. d.cur \in Services /\ d.started \in Seq(Services)
      BY <1>s DEF Control
    <3>2. [d EXCEPT !.started = Append(d.started, d.cur)] \in Control
      BY <1>s, <3>1, AppendSet DEF Control
    <3> QED BY <1>s, <1>f, <1>p, <2>1, <3>2, Leads DEF MarkRunning, DuePCs
  <2>2. CASE Finish
    BY <1>a, <1>f, <1>p, <2>2 DEF Finish
  <2>3. CASE QualifyExited
    <3>1. \/ d' = next_due(d)
          \/ d' = start_fails(d, "uncertain")
          \/ d' = start_fails(d, "exited")
          \/ d' = start_fails(d, "store")
          \/ d' = [d EXCEPT !.pc = "reschedule"]
      BY <2>3 DEF QualifyExited
    <3>2. d' = [d EXCEPT !.pc = "reschedule"] => d'.pc = "reschedule"
      BY <1>s DEF Control
    <3> QED BY <1>s, <1>f, <1>p, <3>1, <3>2, Leads DEF DuePCs
  <2> QED BY <1>b, <1>f, <1>p, <1>4, <2>1, <2>2, <2>3 DEF StartOne, Spawn,
          JournalChild, Contain, Qualify, QualifyFails, Entering
<1>5. CASE AbortStart
  <2>1. CASE Cleanup
    <3>1. ASSUME NEW e, d' = [d EXCEPT !.pc = "cleanup_mark", !.err = e]
          PROVE  d'.pc = "cleanup_mark"
      BY <1>s, <3>1 DEF Control
    <3> QED BY <1>b, <1>p, <2>1, <3>1 DEF Cleanup
  <2>2. CASE Abort \/ AbortOthers
    <3>1. \/ d' = abort_others_next(d, d.order)
          \/ d' = abort_others_next(d, Tail(d.todo))
          \/ d' = cleanup_next(d, << >>)
          \/ d' = cleanup_next(d, <<d.cur>>)
          \/ d' = survivors_next(d, <<d.cur>>)
      BY <2>2 DEF Abort, AbortOthers
    <3> QED BY <1>s, <1>p, <3>1, Leads
  <2>3. CASE CleanupExit \/ CleanupMark \/ Survivors
    <3>1. \/ d' = cleanup_next(d, Tail(d.todo))
          \/ d' = survivors_next(d, Reverse(Tail(d.todo)))
          \/ d' = survivors_next(d, Tail(d.todo))
      BY <2>3 DEF CleanupExit, CleanupMark, Survivors
    <3> QED BY <1>s, <1>p, <3>1, Leads
  <2> QED BY <1>5, <2>1, <2>2, <2>3 DEF AbortStart, Listing, Entering
<1>6. CASE Stop
  <2>1. CASE DownFinal
    BY <1>a, <1>p, <2>1 DEF DownFinal
  <2>2. CASE Restart \/ RestartBegin \/ RestartStopInvoke \/ RestartStop
    <3>1. d' = [d EXCEPT !.pc = "deps", !.ret = "pre_restart",
                         !.deps = DependsOn[d.cur]] => d'.pc = "deps"
      BY <1>s DEF Control
    <3>2. \A e \in stop_errors(d.cur) : e # "prespawn"
      BY DEF stop_errors
    <3> QED BY <1>a, <1>b, <1>f, <1>p, <2>2, <3>1, <3>2 DEF Restart,
            RestartBegin, RestartStopInvoke, RestartStop, Journal
  <2>3. CASE RestartStopped
    <3>1. CASE begin_starting(d, <<d.cur>>)
      BY <1>s, <1>p, <3>1, Starts
    <3> QED BY <1>f, <2>3, <3>1 DEF RestartStopped
  <2> QED BY <1>6, <2>1, <2>2, <2>3 DEF Stop, Listing, Entering
<1>7. CASE Reconcile \/ Resume
  <2>1. ASSUME NEW c \in Control, begin_starting(c, Order)
        PROVE  d'.pc \notin EnterPC
    BY <1>p, <2>1, Starts
  <2>2. [d EXCEPT !.job = "resume", !.order = Order] \in Control
    BY <1>s, OrderAssumption DEF Control, Job
  <2> QED BY <1>a, <1>b, <1>p, <1>7, <2>1, <2>2 DEF Reconcile, Resume
<1>8. CASE Environment
  <2>1. CASE Boot \/ Accept
    BY <1>a, <1>p, <2>1, AcceptTo DEF Boot
  <2>2. CASE Crash
    BY <1>a, <1>p, <2>2 DEF Crash
  <2>3. CASE \E s \in Services : TracerExits(s) \/ TreeEnds(s)
    BY <2>3 DEF TracerExits, TreeEnds
  <2> QED BY <1>8, <2>1, <2>2, <2>3 DEF Environment, Listing, Entering
<1> QED BY <1>1, <1>2, <1>3, <1>4, <1>5, <1>6, <1>7, <1>8
        DEF Next, DaemonStep

\* All others lead elsewhere.
LEMMA OnlyListing ==
    ASSUME Inv, Next, ~Listing
    PROVE  UNCHANGED d \/ d'.pc \notin ListPC
<1>s. d \in Control
  BY DEF Inv, Sound
<1>p. ListPC = {"down_svc", "down_stop", "down_stopped", "shutdown",
                "shutdown_record"}
  BY DEF ListPC, DownLoopPC, ShutPC
<1>g. \A p : goto(p) => d'.pc = p
  BY <1>s DEF goto, Control
<1>1. CASE DownFinish \/ DownQuarantine
  BY <1>1, <1>g, <1>p DEF DownFinish, DownQuarantine, return, at
<1>2. CASE RestartInvoke \/ MarkStartInvoked \/ SpawnRefused
  BY <1>2, <1>g, <1>p, <1>s, Leads DEF RestartInvoke, MarkStartInvoked,
     SpawnRefused, DuePCs
<1>3. CASE ~Entering
  <2>1. ListPC \subseteq EnterPC
    BY DEF ListPC, EnterPC, DownPC
  <2> QED BY <1>3, <2>1, Elsewhere
<1> QED BY <1>1, <1>2, <1>3 DEF Entering

\* The rest of a list that runs backwards does so too.
LEMMA BackwardsTail ==
    ASSUME NEW q \in Seq(Services), q # << >>, Backwards(q)
    PROVE  Backwards(Tail(q))
<1>1. /\ Len(Tail(q)) = Len(q) - 1 /\ Len(q) \in Nat /\ Len(q) > 0
      /\ Len(Order) \in Nat
  BY OrderAssumption
<1>2. ASSUME NEW i \in 1..Len(Tail(q))
      PROVE  Tail(q)[i] = Order[(Len(Tail(q)) + 1) - i]
  <2>1. i + 1 \in 1..Len(q) /\ Tail(q)[i] = q[i + 1]
    BY <1>1
  <2>2. q[i + 1] = Order[(Len(q) + 1) - (i + 1)]
    BY <2>1 DEF Backwards
  <2>3. (Len(q) + 1) - (i + 1) = (Len(Tail(q)) + 1) - i
    BY <1>1
  <2> QED BY <2>1, <2>2, <2>3
<1>3. Len(Tail(q)) <= Len(Order)
  BY <1>1 DEF Backwards
<1> QED BY <1>2, <1>3 DEF Backwards

\* stop_order() of the committed manifest runs backwards.
LEMMA BackwardsOrder == Backwards(StopOrder(TRUE))
<1> DEFINE R == Reverse(Order)
<1>1. StopOrder(TRUE) = R /\ Len(Order) \in Nat
  BY OrderAssumption DEF StopOrder
<1>2. /\ R \in Seq(Services) /\ DOMAIN R = 1..Len(Order)
      /\ \A i \in 1..Len(Order) : R[i] = Order[(Len(Order) - i) + 1]
  BY OrderAssumption, ReverseType DEF Reverse
<1> HIDE DEF R
<1>3. Len(R) = Len(Order)
  BY <1>1, <1>2
<1>4. ASSUME NEW i \in 1..Len(R) PROVE R[i] = Order[(Len(R) + 1) - i]
  <2>1. (Len(Order) - i) + 1 = (Len(R) + 1) - i
    BY <1>1, <1>3
  <2> QED BY <1>2, <1>3, <2>1
<1>5. Len(R) <= Len(Order)
  BY <1>1, <1>3
<1> QED BY <1>1, <1>4, <1>5 DEF Backwards

\* A list of down or shutdown keeps the committed revision.
LEMMA ListingCommitted ==
    ASSUME Inv, Next, d.pc \in ListPC \/ DownBegin \/ SigTerm \/ Finalize
           \/ ShutdownEnd
    PROVE  committed' <=> committed
<1>s. StoreTypeOK
  BY DEF Inv
<1>1. CASE ~Turning
  BY <1>1, CalmNext DEF Calm, committed
<1>2. CASE UNCHANGED dbVars
  BY <1>2 DEF dbVars, committed
<1>3. CASE DownBegin \/ DownStopped \/ DownFinish \/ Finalize
  <2>1. CASE begin_down
    BY <1>s, <2>1 DEF begin_down, StoreTypeOK, StackRow, committed
  <2>2. CASE mark_stopped(Head(d.todo))
    <3>1. PICK o : stack' = [stack EXCEPT !.observed = o]
      BY <2>2 DEF mark_stopped, write_refreshed
    <3> QED BY <1>s, <3>1 DEF StoreTypeOK, StackRow, committed
  <2>3. CASE finish_down
    BY <1>s, <2>3 DEF finish_down, StoreTypeOK, StackRow, committed
  <2>4. CASE finalize_operation_failure
    BY <2>4 DEF finalize_operation_failure, committed
  <2> QED BY <1>2, <1>3, <2>1, <2>2, <2>3, <2>4 DEF DownBegin, DownStopped,
          DownFinish, Finalize, StoreFails
<1>4. CASE Turning /\ ~(DownBegin \/ DownStopped \/ DownFinish \/ Finalize)
  <2>1. d.pc \in {"begin_current", "cand_begin", "up_check", "finish",
                  "down_final", "restart_begin", "reconcile", "resume"}
    BY <1>4 DEF Turning, BeginCurrent, CandBegin, UpConverge, Finish,
       DownFinal, RestartBegin, Reconcile, Resume
  <2>2. d.pc \notin ListPC
    BY <2>1 DEF ListPC, DownLoopPC, ShutPC
  <2> QED BY <2>1, <2>2 DEF SigTerm, ShutdownEnd, DownBegin, Finalize
<1> QED BY <1>1, <1>3, <1>4

\* Every step keeps the work lists of down and shutdown backwards.
LEMMA NextStop == HInv /\ StopInv /\ [Next]_vars => StopInv'
<1> SUFFICES ASSUME HInv, StopInv, [Next]_vars,
                    committed', d'.pc \in DownLoopPC
                                \/ (d'.pc \in ShutPC /\ "store" \notin Faults)
             PROVE  Backwards(d'.todo)
  BY DEF StopInv
<1>s. /\ d \in Control /\ d.todo \in Seq(Services)
      /\ d.pc \in LoopPC => d.todo # << >>
      /\ Inv
  BY DEF HInv, Inv, Sound, Control
<1>l. d'.pc \in ListPC
  BY DEF ListPC
<1>k. ASSUME d'.todo = d.todo \/ (d.todo # << >> /\ d'.todo = Tail(d.todo)),
             committed, d.pc \in DownLoopPC <=> d'.pc \in DownLoopPC,
             d.pc \in ShutPC <=> d'.pc \in ShutPC
      PROVE  Backwards(d'.todo)
  <2>1. Backwards(d.todo)
    BY <1>k DEF StopInv
  <2> QED BY <1>s, <1>k, <2>1, BackwardsTail
<1>j. \A p : goto(p) => d'.pc = p /\ d'.todo = d.todo
  BY <1>s DEF goto, Control
<1>p. ListPC = {"down_svc", "down_stop", "down_stopped", "shutdown",
                "shutdown_record"}
      /\ DownLoopPC = {"down_svc", "down_stop", "down_stopped"}
      /\ ShutPC = {"shutdown", "shutdown_record"}
  BY DEF ListPC, DownLoopPC, ShutPC
<1>1. CASE UNCHANGED vars
  BY <1>1, <1>k DEF vars, committed
<1>2. CASE Next /\ ~Listing
  <2>1. UNCHANGED d
    BY <1>s, <1>l, <1>2, OnlyListing
  <2>2. committed
    BY <1>s, <1>l, <1>2, <2>1, ListingCommitted
  <2> QED BY <1>k, <2>1, <2>2
<1>b. ASSUME NEW again, begin_shutdown(again), committed
      PROVE  Backwards(d'.todo)
  <2>1. d'.pc = "shutdown"
    BY <1>b DEF begin_shutdown, at
  <2>2. "store" \notin Faults
    BY <1>p, <2>1
  <2>3. d' = [at("shutdown") EXCEPT !.todo = StopOrder(TRUE), !.again = again]
    BY <1>b, <2>2 DEF begin_shutdown, committed
  <2>4. d'.todo = StopOrder(TRUE)
    BY <2>3 DEF at
  <2> QED BY <2>4, BackwardsOrder
<1>a. (\A p : at(p).pc = p) /\ (return => d'.pc = "idle")
      /\ (process_ends => d'.pc = "dead")
  BY DEF at, return, process_ends
<1>3. CASE Next /\ (SigTerm \/ Finalize \/ ShutdownEnd)
  <2>1. committed
    BY <1>s, <1>3, ListingCommitted
  <2> QED BY <1>a, <1>b, <1>l, <1>p, <1>3, <2>1
          DEF SigTerm, Finalize, ShutdownEnd
<1>4. CASE Next /\ DownBegin
  <2>1. committed
    BY <1>s, <1>4, ListingCommitted
  <2>2. d' = [d EXCEPT !.pc = "down_svc", !.todo = StopOrder(committed)]
    BY <1>a, <1>j, <1>l, <1>p, <1>4 DEF DownBegin
  <2>3. /\ d'.todo = StopOrder(committed)
        /\ StopOrder(committed) = StopOrder(TRUE)
    BY <1>s, <2>1, <2>2 DEF Control, StopOrder
  <2> QED BY <2>3, BackwardsOrder
<1>5. CASE Next /\ (DownSvc \/ DownStop \/ DownStopped)
  <2>1. d.pc \in DownLoopPC /\ d.pc \notin ShutPC
    BY <1>p, <1>5 DEF DownSvc, DownStop, DownStopped
  <2>2. committed
    BY <1>s, <1>p, <1>5, <2>1, ListingCommitted
  <2>3. d' = [d EXCEPT !.todo = Tail(d.todo)] =>
           d'.pc = d.pc /\ d'.todo = Tail(d.todo)
    BY <1>s DEF Control
  <2>4. d' = [d EXCEPT !.pc = "down_quarantine"] => d'.pc = "down_quarantine"
    BY <1>s DEF Control
  <2>5. d' = [d EXCEPT !.pc = "down_svc", !.todo = Tail(d.todo)] =>
           d'.pc = "down_svc" /\ d'.todo = Tail(d.todo)
    BY <1>s DEF Control
  <2>6. d.pc \in {"down_stop", "down_stopped"} => d.todo # << >>
    BY <1>s DEF LoopPC
  <2>7. /\ d'.todo = d.todo \/ (d.todo # << >> /\ d'.todo = Tail(d.todo))
        /\ d'.pc \in DownLoopPC
    <3>1. CASE DownSvc
      BY <1>j, <1>l, <1>p, <3>1, <2>3, <2>4 DEF DownSvc
    <3>2. CASE DownStop
      BY <1>j, <1>l, <1>p, <3>2 DEF DownStop
    <3>3. CASE DownStopped
      BY <1>j, <1>l, <1>p, <3>3, <2>5, <2>6 DEF DownStopped
    <3> QED BY <1>5, <3>1, <3>2, <3>3
  <2>8. d'.pc \notin ShutPC
    BY <1>p, <2>7
  <2> QED BY <1>k, <2>1, <2>2, <2>7, <2>8
<1>6. CASE Next /\ (ShutdownAbsent \/ ShutdownStop \/ ShutdownRecord)
  <2>1. d.pc \in ShutPC /\ d.pc \notin DownLoopPC /\ d.todo # << >>
    BY <1>s, <1>p, <1>6 DEF ShutdownAbsent, ShutdownStop, ShutdownRecord,
       LoopPC
  <2>2. committed
    BY <1>s, <1>p, <1>6, <2>1, ListingCommitted
  <2>3. shutdown_next => d'.pc = "shutdown" /\ d'.todo = Tail(d.todo)
    BY <1>s DEF Control, shutdown_next
  <2>7. /\ d'.todo = d.todo \/ (d.todo # << >> /\ d'.todo = Tail(d.todo))
        /\ d'.pc \in ShutPC
    BY <1>j, <1>l, <1>p, <1>6, <2>1, <2>3 DEF ShutdownAbsent, ShutdownStop,
       ShutdownRecord
  <2>8. d'.pc \notin DownLoopPC
    BY <1>p, <2>7
  <2> QED BY <1>k, <2>1, <2>2, <2>7, <2>8
<1> QED BY <1>1, <1>2, <1>3, <1>4, <1>5, <1>6 DEF Listing

StopPC == {"down_stop", "shutdown"}

\* At the stop of a service, no other service is let go of.
LEMMA OnlyHead ==
    ASSUME Inv, Next, d.pc \in StopPC, d'.pc # "dead", NEW s \in Services,
           handle[s] = "owned", handle'[s] = "none"
    PROVE  s = Head(d.todo) /\ d.todo # << >>
<1>s. handle \in [Services -> Handle]
      /\ (d.pc = "down_stop" => d.todo # << >>)
  BY DEF Inv, WorldTypeOK, Sound, LoopPC
<1>k. UNCHANGED handle \/ UNCHANGED worldVars => FALSE
  BY DEF worldVars
<1>p. ~process_ends
  BY DEF process_ends, at
<1>1. CASE Supervise
  BY <1>1 DEF Supervise, TickUncertain, TickChild, TickSchedule, TickDue, Due,
     RestartInvoke, Restore, Reschedule, DueUnknown, StopPC
<1>2. CASE Prepare
  BY <1>2 DEF Prepare, Up, UpCheck, UpConverge, BeginCurrent, CandBegin,
     CandSvc, MarkLogsPrepared, MarkInstallInvoked, Install, MarkInstalled,
     MarkRootfsUnknown, MarkInstallFailed, Journal, StopPC
<1>3. CASE Depend
  BY <1>3 DEF Depend, DepsDone, DepAbsent, DepValid, DepUnqualified,
     DepExitAmbiguous, DepExited, DepSchedule, StopPC
<1>4. CASE StartOne
  BY <1>4 DEF StartOne, MarkStartInvoked, Spawn, SpawnRefused, JournalChild,
     Contain, Qualify, QualifyFails, QualifyExited, MarkRunning, Finish,
     StopPC
<1>5. CASE AbortStart
  BY <1>5 DEF AbortStart, Abort, AbortOthers, Cleanup, CleanupExit,
     CleanupMark, Survivors, Finalize, StopPC
<1>6. CASE Stop
  <2>1. ASSUME NEW u, stop_owned_child(u) PROVE s = u
    BY <1>s, <2>1 DEF stop_owned_child, drained
  <2>2. ASSUME NEW u, quarantine(u) PROVE FALSE
    BY <1>s, <2>2 DEF quarantine
  <2>3. CASE DownStop
    BY <1>s, <1>k, <2>1, <2>3 DEF DownStop
  <2>4. CASE ShutdownStop
    BY <2>1, <2>2, <2>4 DEF ShutdownStop
  <2>5. CASE ShutdownAbsent \/ ShutdownRecord \/ ShutdownEnd
    BY <1>k, <1>p, <2>5 DEF ShutdownAbsent, ShutdownRecord, ShutdownEnd
  <2>6. CASE \/ DownBegin \/ DownSvc \/ DownStopped \/ DownFinish
             \/ DownQuarantine \/ DownFinal
             \/ Restart \/ RestartBegin \/ RestartStopInvoke \/ RestartStop
             \/ RestartStopped
    BY <2>6 DEF DownBegin, DownSvc, DownStopped, DownFinish, DownQuarantine,
       DownFinal, Restart, RestartBegin, RestartStopInvoke, RestartStop,
       RestartStopped, Journal, StopPC
  <2> QED BY <1>6, <2>3, <2>4, <2>5, <2>6 DEF Stop
<1>7. CASE Reconcile \/ Resume
  BY <1>7 DEF Reconcile, Resume, StopPC
<1>8. CASE Environment
  BY <1>k, <1>p, <1>8 DEF Environment, Boot, Accept, SigTerm, Crash,
     TracerExits, TreeEnds, StopPC
<1> QED BY <1>1, <1>2, <1>3, <1>4, <1>5, <1>6, <1>7, <1>8
        DEF Next, DaemonStep

\* Of what is left of a list that runs backwards, the head starts last.
LEMMA HeadStartsLast ==
    ASSUME NEW q \in Seq(Services), Backwards(q), q # << >>,
           NEW t \in ToSet(q)
    PROVE  Head(q) \notin ToSet(DependsOn[t])
<1>o. /\ Len(Order) \in Nat /\ Order \in Seq(Services)
      /\ \A i, j \in 1..Len(Order) : Order[i] = Order[j] => i = j
  BY OrderAssumption
<1>1. SUFFICES ASSUME Head(q) \in ToSet(DependsOn[t]) PROVE FALSE
  OBVIOUS
<1>2. t \in Services /\ DependsOn[t] \in Seq(Services)
  BY DependsOnAssumption, ToSetType
<1>3. PICK i \in 1..Len(DependsOn[t]) : DependsOn[t][i] = Head(q)
  BY <1>1, <1>2 DEF ToSet
<1>4. PICK j, k \in 1..Len(Order) :
         j < k /\ Order[j] = Head(q) /\ Order[k] = t
  <2>1. \E j, k \in 1..Len(Order) :
           j < k /\ Order[j] = DependsOn[t][i] /\ Order[k] = t
    BY <1>2, DependsOnAssumption
  <2> QED BY <1>3, <2>1
<1>5. /\ Len(q) \in Nat /\ Len(q) > 0 /\ Len(q) <= Len(Order)
      /\ Head(q) = q[1]
  BY DEF Backwards
<1>6. Head(q) = Order[Len(q)]
  <2>1. q[1] = Order[(Len(q) + 1) - 1] /\ (Len(q) + 1) - 1 = Len(q)
    BY <1>5 DEF Backwards
  <2> QED BY <1>5, <2>1
<1>7. PICK m \in 1..Len(q) : q[m] = t
  BY DEF ToSet
<1>8. t = Order[(Len(q) + 1) - m]
  BY <1>7 DEF Backwards
<1>9. j = Len(q)
  BY <1>o, <1>4, <1>5, <1>6
<1>10. (Len(q) + 1) - m \in 1..Len(Order) /\ (Len(q) + 1) - m <= Len(q)
  BY <1>o, <1>5, <1>7
<1>11. k = (Len(q) + 1) - m
  BY <1>o, <1>4, <1>8, <1>10
<1> QED BY <1>o, <1>4, <1>5, <1>9, <1>10, <1>11

\* A stop comes after those of the services that depend on the stopped one.
LEMMA DependentsGone ==
    ASSUME HInv, StopInv, Next, d.pc \in StopPC, d'.pc # "dead",
           d.pc = "down_stop" \/ "store" \notin Faults,
           NEW t \in Services, NEW s \in ToSet(DependsOn[t]),
           handle[s] = "owned", handle'[s] = "none"
    PROVE  handle[t] # "owned"
<1>1. SUFFICES ASSUME handle[t] = "owned" PROVE FALSE
  OBVIOUS
<1>2. s \in Services
  BY DependsOnAssumption, ToSetType
<1>3. Inv /\ Held /\ d \in Control /\ d.todo \in Seq(Services)
  BY DEF HInv, Inv, Sound, Control
<1>4. s = Head(d.todo) /\ d.todo # << >>
  BY <1>2, <1>3, OnlyHead
<1>5. committed
  <2>1. ~Starting(d) /\ d.pc \notin AbortPC
    BY Positions DEF StopPC, Starting, StartPC, OnlyStartPC, BirthPC, AbortPC
  <2> QED BY <1>1, <1>3, <2>1 DEF Held, Wanted
<1>6. Backwards(d.todo)
  BY <1>5 DEF StopInv, StopPC, DownLoopPC, ShutPC
<1>7. t \in ToSet(d.todo)
  BY <1>1, <1>3 DEF Held, Bounded, Limited, May, StopPC, DownLoopPC, ShutPC
<1> QED BY <1>3, <1>4, <1>6, <1>7, HeadStartsLast

\* The order survives every step.
LEMMA StopInvariance == Spec => [](HInv /\ StopInv)
<1>1. Init => StopInv
  BY DEF Init, at, StopInv, DownLoopPC, ShutPC
<1> QED BY <1>1, NextStop, HeldInvariance, PTL DEF Spec

\* Property StopAfterDependents of the runs, while no transaction fails (a
\* shutdown that cannot read the manifest goes by name): down and shutdown
\* let go of a service only after every service that depends on it.
THEOREM StopAfterDependentsHolds ==
    "store" \notin Faults => (Spec => StopAfterDependents)
<1> SUFFICES ASSUME "store" \notin Faults PROVE Spec => StopAfterDependents
  OBVIOUS
<1>1. HInv /\ StopInv /\ [Next]_vars =>
         [d.pc \in {"down_stop", "shutdown"} /\ d'.pc # "dead" =>
             \A t \in Services : \A s \in ToSet(DependsOn[t]) :
                handle[s] = "owned" /\ handle'[s] = "none"
                   => handle[t] # "owned"]_vars
  <2> SUFFICES ASSUME HInv, StopInv, Next, d.pc \in StopPC, d'.pc # "dead",
                      NEW t \in Services, NEW s \in ToSet(DependsOn[t]),
                      handle[s] = "owned", handle'[s] = "none"
               PROVE  handle[t] # "owned"
    BY DEF StopPC
  <2> QED BY DependentsGone
<1> QED BY <1>1, StopInvariance, PTL DEF Spec, StopAfterDependents

\* The down half of StopAfterDependents needs no such hypothesis.
THEOREM DownAfterDependents ==
    Spec => [][d.pc = "down_stop" /\ d'.pc # "dead" =>
                  \A t \in Services : \A s \in ToSet(DependsOn[t]) :
                     handle[s] = "owned" /\ handle'[s] = "none"
                        => handle[t] # "owned"]_vars
<1>1. HInv /\ StopInv /\ [Next]_vars =>
         [d.pc = "down_stop" /\ d'.pc # "dead" =>
             \A t \in Services : \A s \in ToSet(DependsOn[t]) :
                handle[s] = "owned" /\ handle'[s] = "none"
                   => handle[t] # "owned"]_vars
  <2> SUFFICES ASSUME HInv, StopInv, Next, d.pc = "down_stop", d'.pc # "dead",
                      NEW t \in Services, NEW s \in ToSet(DependsOn[t]),
                      handle[s] = "owned", handle'[s] = "none"
               PROVE  handle[t] # "owned"
    OBVIOUS
  <2> QED BY DependentsGone DEF StopPC
<1> QED BY <1>1, StopInvariance, PTL DEF Spec

-----------------------------------------------------------------------------
(* Every operation is finished *)

\* No row of the operation opens or disappears.
Kept ==
    \A s \in Services :
       /\ oprow'[s].outcome = "null" => oprow[s].outcome = "null"
       /\ oprow[s].outcome # "none" => oprow'[s].outcome # "none"

\* The transactions that write one row keep the others.
LEMMA RowKept ==
    ASSUME StoreTypeOK, NEW s \in Services,
           \/ UNCHANGED oprow \/ UNCHANGED dbVars
           \/ \E p : set_service_phase(s, p)
           \/ mark_installed(s) \/ mark_rootfs_unknown(s)
           \/ mark_starting(s) \/ mark_running(s)
           \/ \E unknown : mark_service_failed(s, unknown)
           \/ mark_restart_stop_invoked(s) \/ mark_restart_stopped(s)
           \/ record_exit(s) \/ mark_runtime_unknown(s)
           \/ \E attempts : schedule_restart(s, attempts)
           \/ mark_restart_invoked(s) \/ restore_restart_backoff(s)
           \/ mark_restart_starting(s) \/ mark_restart_running(s)
           \/ record_graceful_stop(s) \/ record_graceful_backoff_stop(s)
           \/ mark_stopped(s)
    PROVE  Kept
<1>0. oprow \in [Services -> OpRow]
  BY DEF StoreTypeOK
<1>1. ASSUME UNCHANGED oprow PROVE Kept
  BY <1>1 DEF Kept
<1>2. ASSUME NEW p, oprow' = [oprow EXCEPT ![s].phase = p] PROVE Kept
  BY <1>0, <1>2 DEF Kept, OpRow
<1>3. ASSUME NEW p, NEW o \in {"success", "failure"},
             oprow' = [oprow EXCEPT ![s] = [phase |-> p, outcome |-> o]]
      PROVE  Kept
  BY <1>0, <1>3 DEF Kept, OpRow
<1>4. CASE UNCHANGED dbVars
  BY <1>1, <1>4 DEF dbVars
<1>5. CASE \/ record_exit(s) \/ mark_runtime_unknown(s)
           \/ mark_restart_invoked(s) \/ restore_restart_backoff(s)
           \/ mark_restart_starting(s) \/ mark_restart_running(s)
           \/ record_graceful_stop(s) \/ record_graceful_backoff_stop(s)
           \/ mark_rootfs_unknown(s)
           \/ \E attempts : schedule_restart(s, attempts)
  BY <1>1, <1>5 DEF record_exit, mark_runtime_unknown, mark_restart_invoked,
     restore_restart_backoff, mark_restart_starting, mark_restart_running,
     record_graceful_stop, record_graceful_backoff_stop, mark_rootfs_unknown,
     schedule_restart
<1>6. CASE \/ mark_installed(s) \/ mark_starting(s)
           \/ mark_restart_stop_invoked(s) \/ mark_restart_stopped(s)
           \/ \E p : set_service_phase(s, p)
  BY <1>2, <1>6 DEF mark_installed, mark_starting, mark_restart_stop_invoked,
     mark_restart_stopped, set_service_phase
<1>7. CASE \/ mark_running(s) \/ mark_stopped(s)
           \/ \E unknown : mark_service_failed(s, unknown)
  BY <1>3, <1>7 DEF mark_running, mark_stopped, mark_service_failed
<1> QED BY <1>1, <1>4, <1>5, <1>6, <1>7

\* So do the pieces of runtime.rs.
LEMMA PieceKept ==
    ASSUME StoreTypeOK, NEW s \in Services,
           \/ \E ok : StoreFails(ok)
           \/ Ignoring(mark_runtime_unknown(s))
           \/ quarantine(s) \/ quarantine_if_owned(s)
           \/ schedule_or_give_up(s) \/ schedule_restart_after_exit(s)
           \/ \E unknown : record_failure(s, unknown)
    PROVE  Kept
<1>1. ASSUME UNCHANGED dbVars PROVE Kept
  BY <1>1, RowKept
<1>2. ASSUME NEW ok, StoreFails(ok) PROVE Kept
  BY <1>1, <1>2 DEF StoreFails
<1>3. ASSUME Ignoring(mark_runtime_unknown(s)) PROVE Kept
  BY <1>2, <1>3, RowKept DEF Ignoring
<1>4. CASE quarantine(s) \/ quarantine_if_owned(s)
  BY <1>1, <1>3, <1>4 DEF quarantine, quarantine_if_owned
<1>5. CASE schedule_or_give_up(s) \/ schedule_restart_after_exit(s)
  BY <1>1, <1>2, <1>5, RowKept DEF schedule_or_give_up,
     schedule_restart_after_exit
<1>6. CASE \E unknown : record_failure(s, unknown)
  BY <1>2, <1>6, RowKept DEF record_failure
<1> QED BY <1>2, <1>3, <1>4, <1>5, <1>6

-----------------------------------------------------------------------------
(* Where FF asks for little *)

FF == Unfinished /\ Outcomes

AwayPC == NeutralPC \cup ShutPC \cup {"cand_begin", "restart_invoke"}

\* Outside an operation and down.
LEMMA AwayAt ==
    ASSUME NEW c,
           \/ c.pc \in AwayPC \/ Neutral(c)
           \/ c.pc \in BirthPC \cup {"deps", "dep_schedule"}
              /\ c.ret # "start"
    PROVE  Away(c)
BY Positions DEF Away, InOp, Starting, AwayPC, Neutral

\* Away from operations, nothing is asked but that none is open.
LEMMA AwayTo ==
    ASSUME Away(d'), d'.started = << >>,
           op'.outcome = "null" => d'.pc \in {"dead", "reconcile"}
    PROVE  FF'
<1>1. d'.pc \notin DownPC \cup RestartPC \cup AbortPC /\ ~Starting(d')
      /\ d'.pc # "abort"
  BY DEF Away, InOp, AbortPC
<1>2. Unfinished'
  BY <1>1 DEF Unfinished, unfinished, InOp
<1>3. Outcomes'
  BY <1>1 DEF Outcomes
<1> QED BY <1>2, <1>3 DEF FF

\* Nothing is asked outside of an operation.
LEMMA StillAway ==
    ASSUME FF, Away(d), Away(d'), UNCHANGED op,
           d'.started \in {d.started, << >>},
           d.pc \in {"dead", "reconcile"} => d'.pc \in {"dead", "reconcile"}
    PROVE  FF'
<1>1. d'.started = << >>
  BY DEF FF, Outcomes
<1>2. op'.outcome = "null" => d.pc \in {"dead", "reconcile"}
  BY DEF FF, Unfinished, unfinished, Away
<1> QED BY <1>1, <1>2, AwayTo

\* At the choice of a service of an operation, or at its end.
LEMMA Begun ==
    ASSUME d'.pc \in {"finish", "cand_svc", "deps"}, d'.ret = "start",
           op'.outcome = "null",
           \A t \in {d'.cur} \cup ToSet(d'.todo) :
              oprow'[t].outcome # "none",
           \A s \in Services : oprow'[s].outcome = "null" =>
              \/ s = d'.cur
              \/ d'.job # "restart" /\ s \in ToSet(d'.order),
           \A s \in ToSet(d'.started) : oprow'[s].outcome # "null"
    PROVE  FF'
<1>1. Starting(d') /\ d'.pc \notin DownPC \cup RestartPC \cup AbortPC
      /\ d'.pc # "abort" /\ ~Away(d')
  <2>1. d'.pc \in StartPC
    BY DEF StartPC, OnlyStartPC
  <2>2. Starting(d')
    BY <2>1 DEF Starting
  <2> QED BY <2>1, <2>2, Positions DEF Away, InOp, AbortPC
<1>2. Unfinished'
  BY <1>1 DEF Unfinished, unfinished, InOp
<1>3. Outcomes'
  BY <1>1 DEF Outcomes, Open
<1> QED BY <1>2, <1>3 DEF FF

\* Within the start of one service.
LEMMA Within ==
    ASSUME FF, Inv, Kept, UNCHANGED op, Starting(d), Starting(d'),
           SameTask(d, d')
    PROVE  FF'
<1>1. /\ d'.pc \notin DownPC \cup RestartPC \cup AbortPC
      /\ d'.pc # "abort" /\ ~Away(d')
  BY Positions DEF Starting, Away, InOp, AbortPC
<1>2. Unfinished'
  BY <1>1 DEF FF, Unfinished, unfinished, InOp
<1>3. d.cur \in Services /\ ToSet(d.todo) \subseteq Services
      /\ ToSet(d.started) \subseteq Services
  BY ToSetType DEF Inv, Sound, Control
<1>4. Outcomes'
  BY <1>1, <1>3 DEF FF, Outcomes, Open, Kept, SameTask
<1> QED BY <1>2, <1>4 DEF FF

\* To the abort of an operation.
LEMMA ToAborting ==
    ASSUME FF, Inv, Kept, UNCHANGED op, Starting(d) \/ d.pc \in RestartPC,
           d'.pc = "abort", SameTask(d, d')
    PROVE  FF'
<1>0. d'.pc \in AbortPC
  BY DEF AbortPC
<1>1. /\ d'.pc \notin DownPC \cup RestartPC \cup StartPC
      /\ ~Away(d') /\ ~Starting(d')
  BY <1>0, Positions DEF Starting, Away, InOp
<1>2. Unfinished'
  <2>1. op.outcome = "null"
    BY DEF FF, Unfinished, unfinished, InOp
  <2> QED BY <1>0, <1>1, <2>1 DEF Unfinished, unfinished, InOp
<1>3. d.cur \in Services /\ ToSet(d.started) \subseteq Services
  BY ToSetType DEF Inv, Sound, Control
<1>4. /\ oprow[d.cur].outcome # "none"
      /\ \A s \in Services : Open(s) =>
             \/ s = d.cur
             \/ d.job # "restart" /\ s \in ToSet(d.order)
  BY DEF FF, Outcomes
<1>5. \A s \in ToSet(d.started) : ~Open(s)
  <2>1. CASE Starting(d)
    BY <2>1 DEF FF, Outcomes
  <2>2. CASE d.pc \in RestartPC
    BY <2>2 DEF FF, Outcomes, ToSet
  <2> QED BY <2>1, <2>2
<1>6. Outcomes'
  BY <1>1, <1>3, <1>4, <1>5 DEF Outcomes, Open, Kept, SameTask
<1> QED BY <1>2, <1>6 DEF FF

\* What the control functions do to the list of started services.
LEMMA KeepsStarted ==
    ASSUME NEW c \in Control
    PROVE  /\ next_due(c).started \in {c.started, << >>}
           /\ deps_failed(c).started \in {c.started, << >>}
           /\ deps_done(c).started = c.started
           /\ \A e : start_fails(c, e).started = c.started
           /\ \A p : at(p).started = << >>
<1>1. \A p : at(p).started = << >>
  BY DEF at
<1>2. ASSUME NEW b \in Control
      PROVE  next_due(b).started \in {b.started, << >>}
  BY <1>1 DEF next_due, after_tick, Control
<1>3. [c EXCEPT !.deps = << >>] \in Control
      /\ [c EXCEPT !.deps = << >>].started = c.started
  BY EmptyType DEF Control
<1>4. deps_failed(c).started \in {c.started, << >>}
  BY <1>1, <1>2, <1>3 DEF deps_failed, Control
<1>5. deps_done(c).started = c.started
  BY DEF deps_done, Control
<1>6. \A e : start_fails(c, e).started = c.started
  BY DEF start_fails, Control
<1> QED BY <1>1, <1>2, <1>4, <1>5, <1>6

\* tick and the scheduled restarts, up to the dependency check.
LEMMA SuperviseAway ==
    ASSUME HInv, Supervise
    PROVE  /\ Away(d') /\ d'.started \in {d.started, << >>}
           /\ d.pc \notin {"dead", "reconcile"}
<1> DEFINE Good == Away(d') /\ d'.started \in {d.started, << >>}
<1>s. d \in Control /\ d.cur \in Services /\ (d.job = "up" => d.def \in Defs)
  BY DEF HInv, Held, Route, Inv, Sound, Control
<1>p. {"tick_child", "tick_schedule", "tick_due", "idle"} \subseteq NeutralPC
  BY DEF NeutralPC
<1>q. d.pc \notin {"dead", "reconcile"}
  BY DEF Supervise, TickUncertain, TickChild, TickSchedule, TickDue, Due,
     RestartInvoke, Restore, Reschedule, DueUnknown
<1>g. ASSUME NEW c \in Control, c.job = d.job, c.def = d.def,
             c.started = d.started,
             \/ d' = next_due(c) \/ d' = at("idle")
             \/ \E p \in {"tick_child", "tick_schedule", "tick_due"} :
                   d' = [c EXCEPT !.pc = p]
      PROVE  Good
  <2>1. CASE d' = next_due(c)
    BY <1>s, <1>g, <2>1, NeutralNextDue, AwayAt, KeepsStarted
  <2>2. CASE d' = at("idle")
    BY <1>p, <2>2, AwayAt, KeepsStarted DEF AwayPC, at
  <2>3. ASSUME NEW p \in {"tick_child", "tick_schedule", "tick_due"},
               d' = [c EXCEPT !.pc = p]
        PROVE  Good
    <3>1. d'.pc = p /\ d'.started = d.started
      BY <1>g, <2>3 DEF Control
    <3> QED BY <1>p, <3>1, AwayAt DEF AwayPC
  <2> QED BY <1>g, <2>1, <2>2, <2>3
<1>t. ASSUME tick_next PROVE Good
  <2>1. d'.pc \in {"tick_child", "tick_due"} /\ d'.started = d.started
    BY <1>s, <1>t DEF tick_next, Control
  <2> QED BY <1>p, <2>1, AwayAt DEF AwayPC
<1>1. CASE TickUncertain
  <2>1. d'.pc = "tick_child" /\ d'.started = d.started
    BY <1>s, <1>1 DEF TickUncertain, Control
  <2> QED BY <1>p, <1>q, <2>1, AwayAt DEF AwayPC
<1>2. CASE TickChild
  <2>1. tick_next \/ goto("tick_schedule")
    BY <1>2 DEF TickChild
  <2> QED BY <1>s, <1>g, <1>t, <1>q, <2>1 DEF goto
<1>3. CASE TickSchedule
  BY <1>t, <1>q, <1>3 DEF TickSchedule
<1>4. CASE TickDue
  <2>1. ASSUME NEW D \in SUBSET Services, d' = next_due([d EXCEPT !.due = D])
        PROVE  Good
    <3>1. [d EXCEPT !.due = D] \in Control /\ [d EXCEPT !.due = D].job = d.job
          /\ [d EXCEPT !.due = D].def = d.def
          /\ [d EXCEPT !.due = D].started = d.started
      BY <1>s DEF Control
    <3> QED BY <1>g, <2>1, <3>1
  <2>2. CASE d' = at("idle")
    BY <1>s, <1>g, <1>q, <2>2
  <2> QED BY <1>q, <1>4, <2>1, <2>2 DEF TickDue, return
<1>5. CASE Due
  <2>1. PICK s \in d.due :
           \/ d' = [[d EXCEPT !.cur = s, !.due = d.due \ {s}]
                         EXCEPT !.pc = "deps", !.deps = DependsOn[s],
                                !.ret = "due"]
           \/ d' = next_due([d EXCEPT !.cur = s, !.due = d.due \ {s}])
    BY <1>5 DEF Due
  <2> DEFINE c == [d EXCEPT !.cur = s, !.due = d.due \ {s}]
  <2>2. c \in Control /\ c.job = d.job /\ c.def = d.def
        /\ c.started = d.started
    BY <1>s DEF Control
  <2>3. CASE d' = [c EXCEPT !.pc = "deps", !.deps = DependsOn[s],
                            !.ret = "due"]
    <3>1. d'.pc = "deps" /\ d'.ret = "due" /\ d'.started = d.started
      BY <1>s, <2>3 DEF Control
    <3> QED BY <1>q, <3>1, AwayAt
  <2> HIDE DEF c
  <2>4. CASE d' = next_due(c)
    BY <1>g, <1>q, <2>2, <2>4
  <2> QED BY <2>1, <2>3, <2>4 DEF c
<1>6. CASE RestartInvoke
  <2>0. d.ret = "due"
    BY <1>6 DEF RestartInvoke, HInv, Held, Route
  <2>1. CASE goto("spawn")
    <3>1. d'.pc = "spawn" /\ d'.ret = "due" /\ d'.started = d.started
      BY <1>s, <2>0, <2>1 DEF goto, Control
    <3> QED BY <1>q, <3>1, AwayAt DEF BirthPC
  <2>2. CASE d' = next_due(d)
    BY <1>s, <1>g, <1>q, <2>2
  <2> QED BY <1>6, <2>1, <2>2 DEF RestartInvoke
<1>7. CASE Restore \/ Reschedule \/ DueUnknown
  BY <1>s, <1>g, <1>q, <1>7 DEF Restore, Reschedule, DueUnknown
<1> QED BY <1>1, <1>2, <1>3, <1>4, <1>5, <1>6, <1>7 DEF Supervise

\* The choice of up.
LEMMA UpAway ==
    ASSUME HInv, Up \/ UpCheck
    PROVE  /\ Away(d') /\ d'.started \in {d.started, << >>}
           /\ d.pc \notin {"dead", "reconcile"}
<1>s. d \in Control
  BY DEF HInv, Inv, Sound
<1>p. {"idle", "up_check"} \subseteq NeutralPC
  BY DEF NeutralPC
<1>1. \/ return \/ goto("cand_begin")
      \/ d' = [d EXCEPT !.pc = "up_check", !.todo = Order]
      \/ d' = [d EXCEPT !.pc = "deps", !.deps = <<Head(d.todo)>>,
                        !.ret = "up_check"]
      \/ d.pc = "up_check"
         /\ d' = [d EXCEPT !.order = Append(d.order, Head(d.todo)),
                           !.todo = Tail(d.todo)]
  BY DEF Up, UpCheck
<1>2. CASE return
  <2>1. d'.pc = "idle" /\ d'.started = << >>
    BY <1>2 DEF return, at
  <2> QED BY <1>p, <2>1, AwayAt DEF AwayPC, Up, UpCheck
<1>3. CASE goto("cand_begin")
  <2>1. d'.pc = "cand_begin" /\ d'.started = d.started
    BY <1>s, <1>3 DEF goto, Control
  <2> QED BY <2>1, AwayAt DEF AwayPC, Up, UpCheck
<1>4. CASE \/ d' = [d EXCEPT !.pc = "up_check", !.todo = Order]
           \/ d.pc = "up_check"
              /\ d' = [d EXCEPT !.order = Append(d.order, Head(d.todo)),
                                !.todo = Tail(d.todo)]
  <2>1. d'.pc = "up_check" /\ d'.started = d.started
    BY <1>s, <1>4 DEF Control
  <2> QED BY <1>p, <2>1, AwayAt DEF AwayPC, Up, UpCheck
<1>5. CASE d' = [d EXCEPT !.pc = "deps", !.deps = <<Head(d.todo)>>,
                        !.ret = "up_check"]
  <2>1. d'.pc = "deps" /\ d'.started = d.started /\ d'.ret = "up_check"
    BY <1>s, <1>5 DEF Control
  <2> QED BY <2>1, AwayAt DEF Up, UpCheck
<1> QED BY <1>1, <1>2, <1>3, <1>4, <1>5

\* A dependency check outside an operation.
LEMMA DependAway ==
    ASSUME HInv, Depend, d.ret # "start"
    PROVE  /\ Away(d') /\ d'.started \in {d.started, << >>}
           /\ d.pc \notin {"dead", "reconcile"}
<1>s. d \in Control /\ (d.job = "up" => d.def \in Defs)
      /\ d.ret \in {"start", "up_check", "pre_restart", "due"}
  BY DEF HInv, Held, Route, Inv, Sound, Control
<1>q. d.pc \in {"deps", "dep_schedule"}
  BY DEF Depend, DepsDone, DepAbsent, DepValid, DepUnqualified,
     DepExitAmbiguous, DepExited, DepSchedule
<1>f. ASSUME d' = deps_failed(d)
      PROVE  Away(d') /\ d'.started \in {d.started, << >>}
  BY <1>s, <1>f, DepsFailedTo, AwayAt, KeepsStarted
<1>k. ASSUME d'.pc \in {"deps", "dep_schedule"}, d'.ret = d.ret,
             d'.started = d.started
      PROVE  Away(d') /\ d'.started \in {d.started, << >>}
  BY <1>k, AwayAt
<1>1. CASE DepsDone
  <2>1. d' = deps_done(d)
    BY <1>1 DEF DepsDone
  <2>2. d'.pc \in {"restart_invoke", "restart_begin", "up_check"}
    BY <1>s, <2>1 DEF deps_done, Control
  <2>3. d'.started = d.started
    BY <1>s, <2>1, KeepsStarted
  <2> QED BY <1>q, <2>2, <2>3, AwayAt DEF AwayPC, NeutralPC
<1>2. CASE DepAbsent \/ DepUnqualified \/ DepExitAmbiguous \/ DepSchedule
  BY <1>2, <1>f, <1>q DEF DepAbsent, DepUnqualified, DepExitAmbiguous,
     DepSchedule
<1>3. CASE DepValid
  <2>1. d'.pc = d.pc /\ d'.ret = d.ret /\ d'.started = d.started
    BY <1>s, <1>3 DEF DepValid, Control
  <2> QED BY <1>k, <1>q, <2>1
<1>4. CASE DepExited
  <2>1. CASE goto("dep_schedule")
    <3>1. d'.pc = "dep_schedule" /\ d'.ret = d.ret /\ d'.started = d.started
      BY <1>s, <2>1 DEF goto, Control
    <3> QED BY <1>k, <1>q, <3>1
  <2> QED BY <1>4, <1>f, <1>q, <2>1 DEF DepExited
<1> QED BY <1>1, <1>2, <1>3, <1>4 DEF Depend

\* A scheduled restart, from its spawn to its result.
LEMMA StartOneAway ==
    ASSUME HInv, StartOne, d.ret = "due"
    PROVE  /\ Away(d') /\ d'.started \in {d.started, << >>}
           /\ d.pc \notin {"dead", "reconcile"}
<1>s. d \in Control /\ (d.job = "up" => d.def \in Defs)
  BY DEF HInv, Held, Route, Inv, Sound, Control
<1>q. d.pc \notin {"dead", "reconcile"}
  BY DEF StartOne, MarkStartInvoked, Spawn, SpawnRefused, JournalChild,
     Contain, Qualify, QualifyFails, QualifyExited, MarkRunning, Finish
<1>w. d.pc \notin {"start_invoke", "finish"}
  BY DEF HInv, Held, Route, OnlyStartPC
<1>1. \/ \E p \in BirthPC : goto(p)
      \/ \E e : d' = start_fails(d, e)
      \/ d' = next_due(d)
      \/ d' = [d EXCEPT !.pc = "reschedule"]
  BY <1>w DEF StartOne, MarkStartInvoked, Spawn, SpawnRefused, JournalChild,
     Contain, Qualify, QualifyFails, QualifyExited, MarkRunning, Finish,
     BirthPC
<1>2. ASSUME NEW p \in BirthPC, goto(p)
      PROVE  Away(d') /\ d'.started \in {d.started, << >>}
  <2>1. d'.pc = p /\ d'.ret = "due" /\ d'.started = d.started
    BY <1>s, <1>2 DEF goto, Control
  <2> QED BY <2>1, AwayAt
<1>3. ASSUME NEW e, d' = start_fails(d, e)
      PROVE  Away(d') /\ d'.started \in {d.started, << >>}
  BY <1>s, <1>3, StartFailsTo, AwayAt, KeepsStarted
<1>4. CASE d' = next_due(d)
  BY <1>s, <1>q, <1>4, NeutralNextDue, AwayAt, KeepsStarted
<1>5. CASE d' = [d EXCEPT !.pc = "reschedule"]
  <2>1. d'.pc = "reschedule" /\ d'.started = d.started
    BY <1>s, <1>5 DEF Control
  <2> QED BY <1>q, <2>1, AwayAt DEF AwayPC, NeutralPC
<1> QED BY <1>q, <1>1, <1>2, <1>3, <1>4, <1>5

\* A pass of shutdown begins with nothing started.
LEMMA ShutdownTo ==
    ASSUME NEW again, begin_shutdown(again)
    PROVE  d'.pc = "shutdown" /\ d'.started = << >>
<1>1. PICK m \in BOOLEAN, e \in {"store"} :
         \/ d' = [at("shutdown") EXCEPT !.todo = StopOrder(m), !.again = again]
         \/ d' = [at("shutdown") EXCEPT !.todo = StopOrder(m), !.again = again,
                                        !.err = e]
  <2>1. committed \in BOOLEAN
    BY DEF committed
  <2> QED BY <2>1 DEF begin_shutdown
<1> QED BY <1>1 DEF at

\* Starts and ends of the daemon, requests, exits.
LEMMA EnvironmentFF ==
    ASSUME HInv, FF, Environment
    PROVE  FF'
<1>p. {"dead", "reconcile", "idle", "tick"} \subseteq AwayPC
      /\ "shutdown" \in AwayPC
  BY DEF AwayPC, NeutralPC, ShutPC
<1>o. d.pc = "idle" => op.outcome # "null"
  <2>1. ASSUME d.pc = "idle" PROVE Away(d)
    BY <1>p, <2>1, AwayAt
  <2> QED BY <2>1 DEF FF, Unfinished, unfinished, Away
<1>1. CASE Boot
  <2>1. d'.pc = "reconcile" /\ d'.started = << >>
    BY <1>1 DEF Boot, at
  <2> QED BY <1>p, <2>1, AwayAt, AwayTo
<1>2. CASE Accept
  <2>1. d'.started = << >>
    <3>1. ASSUME NEW m \in Defs,
                 d' = [at("tick") EXCEPT !.job = "up", !.def = m]
          PROVE  d'.started = << >>
      BY <3>1 DEF at
    <3>2. ASSUME NEW s \in Services,
                 d' = [at("tick") EXCEPT !.job = "restart", !.cur = s]
          PROVE  d'.started = << >>
      BY <3>2 DEF at
    <3>3. CASE d' \in {at("tick"), [at("tick") EXCEPT !.job = "down"]}
      BY <3>3 DEF at
    <3> QED BY <1>2, <3>1, <3>2, <3>3 DEF Accept
  <2>2. d'.pc = "tick" /\ op' = op /\ d.pc = "idle"
    BY <1>2, AcceptTo DEF Accept, dbVars
  <2> QED BY <1>p, <1>o, <2>1, <2>2, AwayAt, AwayTo
<1>e. ASSUME process_ends PROVE FF'
  <2>1. d'.pc = "dead" /\ d'.started = << >>
    BY <1>e DEF process_ends, at
  <2> QED BY <1>p, <2>1, AwayAt, AwayTo
<1>3. CASE Crash
  BY <1>3, <1>e DEF Crash
<1>4. CASE SigTerm
  <2>1. CASE begin_shutdown(TRUE)
    <3>1. op' = op /\ d.pc = "idle"
      BY <1>4 DEF SigTerm, dbVars
    <3> QED BY <1>p, <1>o, <2>1, <3>1, ShutdownTo, AwayAt, AwayTo
  <2> QED BY <1>4, <1>e, <2>1 DEF SigTerm
<1>5. CASE \E s \in Services : TracerExits(s) \/ TreeEnds(s)
  <2>1. UNCHANGED <<op, oprow, d>>
    BY <1>5 DEF TracerExits, TreeEnds, dbVars
  <2> QED BY <2>1 DEF FF, Unfinished, Outcomes, unfinished, Open
<1> QED BY <1>1, <1>2, <1>3, <1>4, <1>5 DEF Environment

\* The request to restart, and a shutdown.
LEMMA ShutdownFF ==
    ASSUME HInv, FF, UNCHANGED op,
           \/ Restart \/ ShutdownAbsent \/ ShutdownStop \/ ShutdownRecord
           \/ ShutdownEnd
    PROVE  FF'
<1>s. d \in Control
  BY DEF HInv, Inv, Sound
<1>p. {"idle", "dead", "restart", "shutdown", "shutdown_record",
       "shutdown_end"} \subseteq AwayPC
  BY DEF AwayPC, NeutralPC, ShutPC
<1>a. Away(d) /\ d.pc \notin {"dead", "reconcile"}
  BY <1>p, AwayAt DEF Restart, ShutdownAbsent, ShutdownStop, ShutdownRecord,
     ShutdownEnd
<1>g. ASSUME Away(d'), d'.started \in {d.started, << >>} PROVE FF'
  BY <1>a, <1>g, StillAway
<1>1. CASE Restart
  <2>1. CASE d' = [d EXCEPT !.pc = "deps", !.ret = "pre_restart",
                            !.deps = DependsOn[d.cur]]
    <3>1. d'.pc = "deps" /\ d'.ret = "pre_restart" /\ d'.started = d.started
      BY <1>s, <2>1 DEF Control
    <3> QED BY <1>g, <3>1, AwayAt
  <2>2. CASE d' = at("idle")
    BY <1>p, <1>g, <2>2, AwayAt DEF at
  <2> QED BY <1>1, <2>1, <2>2 DEF Restart
<1>2. CASE ShutdownAbsent \/ ShutdownStop \/ ShutdownRecord
  <2>1. shutdown_next \/ goto("shutdown_end") \/ goto("shutdown_record")
    BY <1>2 DEF ShutdownAbsent, ShutdownStop, ShutdownRecord
  <2>2. d'.pc \in {"shutdown", "shutdown_end", "shutdown_record"}
        /\ d'.started = d.started
    BY <1>s, <2>1 DEF shutdown_next, goto, Control
  <2> QED BY <1>p, <1>g, <2>2, AwayAt
<1>3. CASE ShutdownEnd
  <2>1. begin_shutdown(FALSE) \/ process_ends
    BY <1>3 DEF ShutdownEnd
  <2>2. d'.pc \in {"shutdown", "dead"} /\ d'.started = << >>
    <3>1. CASE begin_shutdown(FALSE)
      BY <3>1, ShutdownTo
    <3>2. CASE process_ends
      BY <3>2 DEF process_ends, at
    <3> QED BY <2>1, <3>1, <3>2
  <2> QED BY <1>p, <1>g, <2>2, AwayAt
<1> QED BY <1>1, <1>2, <1>3

\* The rows that the beginning of a start opens.
LEMMA BeginFF ==
    ASSUME FF, Inv, Away(d) \/ d.pc \in RestartPC,
           NEW c \in Control, c.started = d.started,
           NEW q \in Seq(Services), q # << >>, d' = start_next(c, q),
           op'.outcome = "null",
           \A s \in ToSet(q) : oprow'[s].outcome # "none",
           \A s \in Services : oprow'[s].outcome = "null" =>
              \/ s = Head(q)
              \/ c.job # "restart" /\ s \in ToSet(c.order)
    PROVE  FF'
<1>1. d'.started = << >> /\ ToSet(<< >>) = {}
  BY StartNextTo DEF FF, Outcomes, ToSet
<1>2. /\ d'.pc \in {"finish", "cand_svc", "deps"} /\ d'.ret = "start"
      /\ d'.cur = Head(q) /\ d'.todo = Tail(q)
      /\ d'.job = c.job /\ d'.order = c.order
  BY StartNextTo
<1>3. {d'.cur} \cup ToSet(d'.todo) = ToSet(q)
  BY <1>2, Parts
<1> QED BY <1>1, <1>2, <1>3, Begun

\* Cold start and resume.
LEMMA BootFF ==
    ASSUME "store" \notin Faults, HInv, FF, Reconcile \/ Resume
    PROVE  FF'
<1>s. d \in Control /\ StoreTypeOK /\ Inv
  BY DEF HInv, Inv, Sound
<1>p. {"idle", "dead", "reconcile", "resume"} \subseteq AwayPC
  BY DEF AwayPC, NeutralPC
<1>a. Away(d) /\ d.started = << >>
  <2>1. Away(d)
    BY <1>p, AwayAt DEF Reconcile, Resume
  <2> QED BY <2>1 DEF FF, Outcomes
<1>1. CASE Reconcile
  <2>1. CASE d' = at("dead")
    BY <1>p, <2>1, AwayAt, AwayTo DEF at
  <2>2. CASE reconcile_cold_start /\ goto("resume")
    <3>1. d'.pc = "resume" /\ d'.started = d.started
      BY <1>s, <2>2 DEF goto, Control
    <3>2. op'.outcome # "null"
      BY <1>s, <2>2 DEF reconcile_cold_start, finish_op, unfinished,
         StoreTypeOK, Operation
    <3> QED BY <1>p, <1>a, <3>1, <3>2, AwayAt, AwayTo
  <2> QED BY <1>1, <2>1, <2>2 DEF Reconcile
<1>2. CASE Resume
  <2>0. op.outcome # "null"
    BY <1>2, <1>a DEF Resume, FF, Unfinished, unfinished, Away
  <2>1. CASE UNCHANGED dbVars /\ d' \in {at("dead"), at("idle")}
    <3>1. d'.pc \in {"dead", "idle"} /\ d'.started = << >> /\ op' = op
      BY <2>1 DEF at, dbVars
    <3> QED BY <1>p, <2>0, <3>1, AwayAt, AwayTo
  <2>2. CASE /\ begin_start_current("resume", Services)
             /\ begin_starting([d EXCEPT !.job = "resume", !.order = Order],
                               Order)
    <3> DEFINE c == [d EXCEPT !.job = "resume", !.order = Order]
    <3>0. Order # << >> /\ Order \in Seq(Services) /\ ToSet(Order) = Services
      BY OrderAssumption
    <3>1. c \in Control /\ c.job = "resume" /\ c.order = Order
          /\ c.started = d.started
      BY <1>s, <3>0 DEF Control, Job
    <3>2. d' = start_next(c, Order)
      BY <2>2 DEF begin_starting
    <3> HIDE DEF c
    <3>3. op'.outcome = "null"
          /\ \A s \in Services : oprow'[s].outcome = "null"
      BY <2>2 DEF begin_start_current
    <3> QED BY <1>s, <1>a, <3>0, <3>1, <3>2, <3>3, BeginFF
  <2> QED BY <1>2, <2>1, <2>2 DEF Resume, StoreFails, return
<1> QED BY <1>1, <1>2

\* up begins an operation, or has nothing to do.
LEMMA UpFF ==
    ASSUME "store" \notin Faults, HInv, FF,
           BeginCurrent \/ CandBegin \/ UpConverge
    PROVE  FF'
<1>s. d \in Control /\ StoreTypeOK /\ Inv /\ d.order \in Seq(Services)
  BY DEF HInv, Inv, Sound, Control
<1>p. {"idle", "begin_current", "up_check", "cand_begin"} \subseteq AwayPC
  BY DEF AwayPC, NeutralPC
<1>q. d.pc \in {"begin_current", "up_check", "cand_begin"}
  BY DEF BeginCurrent, CandBegin, UpConverge
<1>a. Away(d) /\ d.started = << >> /\ op.outcome # "null"
  <2>1. Away(d)
    BY <1>p, <1>q, AwayAt
  <2> QED BY <1>q, <2>1 DEF FF, Outcomes, Unfinished, unfinished, Away
<1>j. d.job = "up" /\ (d.pc = "begin_current" => d.order # << >>)
  BY <1>q DEF HInv, Held, Route, UpPC
<1>r. ASSUME return, op'.outcome # "null" PROVE FF'
  <2>1. d'.pc = "idle" /\ d'.started = << >>
    BY <1>r DEF return, at
  <2> QED BY <1>p, <1>r, <2>1, AwayAt, AwayTo
<1>u. ASSUME UNCHANGED dbVars PROVE op'.outcome # "null"
  BY <1>a, <1>u DEF dbVars
<1>1. CASE BeginCurrent
  <2>1. CASE /\ begin_start_current("up", ToSet(d.order))
             /\ begin_starting(d, d.order)
    <3>1. d' = start_next(d, d.order) /\ d.order # << >>
      BY <1>1, <1>j, <2>1 DEF begin_starting, BeginCurrent
    <3>2. /\ op'.outcome = "null"
          /\ \A s \in Services : oprow'[s].outcome =
                IF s \in ToSet(d.order) THEN "null" ELSE "none"
      BY <2>1 DEF begin_start_current, NoRow
    <3>3. ToSet(d.order) \subseteq Services
      BY <1>s, ToSetType
    <3> QED BY <1>s, <1>a, <1>j, <3>1, <3>2, <3>3, BeginFF
  <2> QED BY <1>1, <1>r, <1>u, <2>1 DEF BeginCurrent, StoreFails
<1>2. CASE CandBegin
  <2>1. CASE /\ \/ begin_candidate_recovery(d.def)
                \/ begin_up(d.def)
             /\ d' = start_next([d EXCEPT !.order = Order], Order)
    <3> DEFINE c == [d EXCEPT !.order = Order]
    <3>0. Order # << >> /\ Order \in Seq(Services) /\ ToSet(Order) = Services
      BY OrderAssumption
    <3>1. c \in Control /\ c.job = "up" /\ c.order = Order
          /\ c.started = d.started
      BY <1>s, <1>j, <3>0 DEF Control
    <3>2. d' = start_next(c, Order)
      BY <2>1
    <3> HIDE DEF c
    <3>3. op'.outcome = "null"
          /\ \A s \in Services : oprow'[s].outcome = "null"
      BY <2>1 DEF begin_candidate_recovery, begin_up, begin_candidate
    <3> QED BY <1>s, <1>a, <3>0, <3>1, <3>2, <3>3, BeginFF
  <2> QED BY <1>2, <1>r, <1>u, <2>1 DEF CandBegin, StoreFails
<1>3. CASE UpConverge
  <2>1. op'.outcome # "null"
    BY <1>3, <1>a, <1>u DEF UpConverge, StoreFails, record_noop_up, unfinished
  <2>2. CASE goto("begin_current")
    <3>1. d'.pc = "begin_current" /\ d'.started = d.started
      BY <1>s, <2>2 DEF goto, Control
    <3> QED BY <1>p, <1>a, <2>1, <3>1, AwayAt, AwayTo
  <2> QED BY <1>3, <1>r, <2>1, <2>2 DEF UpConverge
<1> QED BY <1>1, <1>2, <1>3

\* Within the start of one service, or to the abort.
LEMMA StartGoes ==
    ASSUME HInv, FF, Kept, UNCHANGED op, Starting(d),
           \/ \E e : d' = start_fails(d, e)
           \/ \E p \in StartPC : d' = [d EXCEPT !.pc = p]
    PROVE  FF'
<1>s. d \in Control /\ (d.job = "up" => d.def \in Defs) /\ d.ret = "start"
      /\ Inv
  BY DEF HInv, Held, Route, Inv, Sound, Starting
<1>1. CASE \E e : d' = start_fails(d, e)
  <2>1. d'.pc = "abort" /\ SameTask(d, d')
    BY <1>s, <1>1, StartFailsTo
  <2> QED BY <1>s, <2>1, ToAborting
<1>2. ASSUME NEW p \in StartPC, d' = [d EXCEPT !.pc = p]
      PROVE  FF'
  <2>1. d'.pc = p /\ SameTask(d, d')
    BY <1>s, <1>2 DEF Control, SameTask
  <2>2. Starting(d')
    BY <1>s, <2>1 DEF Starting, SameTask
  <2> QED BY <1>s, <2>1, <2>2, Within
<1> QED BY <1>1, <1>2

\* The preparation of one service of a candidate.
LEMMA PrepareFF ==
    ASSUME HInv, FF, UNCHANGED op,
           \/ CandSvc \/ Install \/ MarkLogsPrepared \/ MarkInstallInvoked
           \/ MarkInstalled \/ MarkRootfsUnknown \/ MarkInstallFailed
    PROVE  FF'
<1>s. StoreTypeOK /\ d.cur \in Services
  BY DEF HInv, Inv, Sound, Control
<1>1. d.pc \in OnlyStartPC
  BY DEF CandSvc, Install, MarkLogsPrepared, MarkInstallInvoked,
     MarkInstalled, MarkRootfsUnknown, MarkInstallFailed, Journal,
     OnlyStartPC
<1>2. Starting(d)
  BY <1>1, Positions DEF HInv, Held, Route, Starting
<1>3. {"deps", "logs", "install_invoke", "install", "installed",
       "install_unknown", "install_failed"} \subseteq StartPC
  BY DEF StartPC, OnlyStartPC
<1>4. \/ \E e : d' = start_fails(d, e)
      \/ \E p \in StartPC : d' = [d EXCEPT !.pc = p]
  BY <1>3 DEF CandSvc, Install, MarkLogsPrepared, MarkInstallInvoked,
     MarkInstalled, MarkRootfsUnknown, MarkInstallFailed, Journal, goto
<1>5. Kept
  <2>1. \/ UNCHANGED dbVars \/ (\E ok : StoreFails(ok))
        \/ \E p : set_service_phase(d.cur, p)
        \/ mark_installed(d.cur) \/ mark_rootfs_unknown(d.cur)
        \/ \E unknown : mark_service_failed(d.cur, unknown)
    BY DEF CandSvc, Install, MarkLogsPrepared, MarkInstallInvoked,
       MarkInstalled, MarkRootfsUnknown, MarkInstallFailed, Journal
  <2> QED BY <1>s, <2>1, RowKept, PieceKept
<1> QED BY <1>2, <1>4, <1>5, StartGoes

\* The dependency check of a service of an operation.
LEMMA DependFF ==
    ASSUME HInv, FF, UNCHANGED op, Depend, d.ret = "start"
    PROVE  FF'
<1>s. StoreTypeOK /\ d \in Control /\ (d.job = "up" => d.def \in Defs)
      /\ Inv
  BY DEF HInv, Held, Route, Inv, Sound
<1>q. d.pc \in {"deps", "dep_schedule"}
  BY DEF Depend, DepsDone, DepAbsent, DepValid, DepUnqualified,
     DepExitAmbiguous, DepExited, DepSchedule
<1>b. Starting(d)
  BY <1>q, Positions DEF Starting
<1>e. DepsDone \/ Head(d.deps) \in Services
  <2>1. "dep_schedule" = d.pc => d.deps # << >>
    BY DEF HInv, Inv, Sound
  <2>2. d.deps # << >> => Head(d.deps) \in Services
    BY <1>s, HeadTail DEF Control
  <2> QED BY <2>1, <2>2 DEF Depend, DepsDone, DepAbsent, DepValid,
          DepUnqualified, DepExitAmbiguous, DepExited, DepSchedule
<1>k. Kept
  <2>1. CASE UNCHANGED dbVars
    BY <1>s, <2>1 DEF Kept, dbVars
  <2>2. CASE DepUnqualified \/ DepExitAmbiguous \/ DepExited \/ DepSchedule
    <3>1. Head(d.deps) \in Services
      BY <1>e, <2>2 DEF DepsDone, DepUnqualified, DepExitAmbiguous,
         DepExited, DepSchedule, HInv, Inv, Sound
    <3> DEFINE s == Head(d.deps)
    <3>2. \/ UNCHANGED dbVars \/ (\E ok : StoreFails(ok))
          \/ Ignoring(mark_runtime_unknown(s)) \/ quarantine(s)
          \/ record_exit(s) \/ schedule_restart_after_exit(s)
      BY <2>2 DEF DepUnqualified, DepExitAmbiguous, DepExited, DepSchedule
    <3> HIDE DEF s
    <3>3. s \in Services
      BY <3>1 DEF s
    <3> QED BY <1>s, <3>2, <3>3, RowKept, PieceKept
  <2> QED BY <2>1, <2>2 DEF Depend, DepsDone, DepAbsent, DepValid
<1>f. ASSUME d' = deps_failed(d) PROVE FF'
  <2>1. d'.pc = "abort" /\ SameTask(d, d')
    BY <1>s, <1>f, DepsFailedTo
  <2> QED BY <1>s, <1>b, <1>k, <2>1, ToAborting
<1>w. ASSUME d'.pc \in {"deps", "dep_schedule"}, SameTask(d, d') PROVE FF'
  <2>1. Starting(d')
    BY <1>w, Positions DEF Starting, SameTask
  <2> QED BY <1>s, <1>b, <1>k, <1>w, <2>1, Within
<1>1. CASE DepsDone
  <2>1. d' = [d EXCEPT !.pc = "start_invoke"]
    BY <1>1 DEF DepsDone, deps_done
  <2>2. "start_invoke" \in StartPC
    BY DEF StartPC, OnlyStartPC
  <2> QED BY <1>b, <1>k, <2>1, <2>2, StartGoes
<1>2. CASE DepAbsent \/ DepUnqualified \/ DepExitAmbiguous \/ DepSchedule
  BY <1>2, <1>f DEF DepAbsent, DepUnqualified, DepExitAmbiguous, DepSchedule
<1>3. CASE DepValid
  <2>1. d'.pc = "deps" /\ SameTask(d, d')
    BY <1>s, <1>3 DEF DepValid, Control, SameTask
  <2> QED BY <1>w, <2>1
<1>4. CASE DepExited
  <2>1. CASE goto("dep_schedule")
    <3>1. d'.pc = "dep_schedule" /\ SameTask(d, d')
      BY <1>s, <2>1 DEF goto, Control, SameTask
    <3> QED BY <1>w, <3>1
  <2> QED BY <1>4, <1>f, <2>1 DEF DepExited
<1> QED BY <1>1, <1>2, <1>3, <1>4 DEF Depend

\* From the intent of a start to its result.
LEMMA StartOneFF ==
    ASSUME "store" \notin Faults, HInv, FF, UNCHANGED op,
           StartOne, ~Finish, d.ret # "due"
    PROVE  FF'
<1>s. /\ StoreTypeOK /\ d \in Control /\ d.cur \in Services /\ Inv
      /\ d.started \in Seq(Services) /\ d.todo \in Seq(Services)
  BY DEF HInv, Held, Route, Inv, Sound, Control
<1>q. d.pc \in BirthPC \cup {"start_invoke"}
  BY DEF StartOne, MarkStartInvoked, Spawn, SpawnRefused, JournalChild,
     Contain, Qualify, QualifyFails, QualifyExited, MarkRunning, BirthPC
<1>b. Starting(d)
  <2>1. d.pc \in StartPC
    BY <1>q, Positions DEF OnlyStartPC
  <2>2. "start_invoke" \in OnlyStartPC
    BY DEF OnlyStartPC
  <2> QED BY <1>q, <2>1, <2>2 DEF HInv, Held, Route, Starting
<1>r. d.ret = "start"
  BY <1>b DEF Starting
<1>1. CASE ~MarkRunning
  <2>1. \/ \E e : d' = start_fails(d, e)
        \/ \E p \in BirthPC : d' = [d EXCEPT !.pc = p]
    BY <1>1, <1>r DEF StartOne, MarkStartInvoked, Spawn, SpawnRefused,
       JournalChild, Contain, Qualify, QualifyFails, QualifyExited, goto,
       BirthPC
  <2>2. \/ UNCHANGED dbVars \/ (\E ok : StoreFails(ok))
        \/ Ignoring(mark_runtime_unknown(d.cur)) \/ quarantine(d.cur)
        \/ record_exit(d.cur) \/ mark_starting(d.cur)
        \/ \E p : set_service_phase(d.cur, p)
    BY <1>1, <1>r DEF StartOne, MarkStartInvoked, Spawn, SpawnRefused,
       JournalChild, Contain, Qualify, QualifyFails, QualifyExited
  <2>3. Kept
    BY <1>s, <2>2, RowKept, PieceKept
  <2>4. BirthPC \subseteq StartPC
    BY Positions
  <2> QED BY <1>b, <2>1, <2>3, <2>4, StartGoes
<1>2. CASE MarkRunning
  <2> DEFINE c == [d EXCEPT !.started = Append(d.started, d.cur)]
  <2>1. mark_running(d.cur) /\ d' = start_next(c, d.todo)
    BY <1>2, <1>r DEF MarkRunning
  <2>2. /\ c \in Control /\ c.job = d.job /\ c.order = d.order
        /\ c.cur = d.cur /\ c.ret = d.ret
        /\ c.started = Append(d.started, d.cur)
    BY <1>s, AppendSet DEF Control
  <2> HIDE DEF c
  <2>3. /\ d'.pc \in {"finish", "cand_svc", "deps"} /\ d'.ret = "start"
        /\ d'.job = d.job /\ d'.order = d.order
        /\ d'.started = Append(d.started, d.cur)
        /\ \/ d'.cur = d.cur /\ d'.todo = << >>
           \/ d.todo # << >> /\ d'.cur = Head(d.todo)
              /\ d'.todo = Tail(d.todo)
    <3>1. d.todo \in Seq(Services)
      BY <1>s DEF Control
    <3>2. /\ d'.pc \in {"finish", "cand_svc", "deps"}
          /\ d'.job = c.job /\ d'.order = c.order
          /\ d'.started = c.started
      BY <2>1, <2>2, <3>1, StartNextTo
    <3>3. CASE d.todo = << >>
      <4>1. d'.cur = c.cur /\ d'.todo = << >> /\ d'.ret = c.ret
        BY <2>1, <2>2, <3>1, <3>3, StartNextTo
      <4> QED BY <1>r, <2>2, <3>2, <3>3, <4>1
    <3>4. CASE d.todo # << >>
      <4>1. /\ d'.cur = Head(d.todo) /\ d'.todo = Tail(d.todo)
            /\ d'.ret = "start"
        BY <2>1, <2>2, <3>1, <3>4, StartNextTo
      <4> QED BY <2>2, <3>2, <3>4, <4>1
    <3> QED BY <3>3, <3>4
  <2>4. {d'.cur} \cup ToSet(d'.todo) \subseteq {d.cur} \cup ToSet(d.todo)
    <3>1. ToSet(<< >>) = {}
      BY DEF ToSet
    <3> QED BY <1>s, <2>3, <3>1, Parts
  <2>5. ToSet(d'.started) = ToSet(d.started) \cup {d.cur}
    BY <1>s, <2>3, AppendSet
  <2>6. ToSet(d.todo) \subseteq Services /\ ToSet(d.started) \subseteq Services
    BY <1>s, ToSetType
  <2>7. Kept
    BY <1>s, <2>1, RowKept
  <2>8. oprow'[d.cur].outcome = "success"
    BY <1>s, <2>1 DEF mark_running, StoreTypeOK
  <2>9. op.outcome = "null"
    BY <1>b DEF FF, Unfinished, unfinished, InOp
  <2>10. /\ \A t \in {d.cur} \cup ToSet(d.todo) : oprow[t].outcome # "none"
         /\ \A s \in Services : oprow[s].outcome = "null" =>
               s = d.cur \/ (d.job # "restart" /\ s \in ToSet(d.order))
         /\ \A s \in ToSet(d.started) : oprow[s].outcome # "null"
    BY <1>b DEF FF, Outcomes, Open
  <2>11. \A t \in {d'.cur} \cup ToSet(d'.todo) : oprow'[t].outcome # "none"
    BY <1>s, <2>4, <2>6, <2>7, <2>10 DEF Kept
  <2>12. \A s \in Services : oprow'[s].outcome = "null" =>
            s = d'.cur \/ (d'.job # "restart" /\ s \in ToSet(d'.order))
    BY <2>3, <2>7, <2>8, <2>10 DEF Kept
  <2>13. \A s \in ToSet(d'.started) : oprow'[s].outcome # "null"
    BY <2>5, <2>6, <2>7, <2>8, <2>10 DEF Kept
  <2> QED BY <2>3, <2>9, <2>11, <2>12, <2>13, Begun
<1> QED BY <1>1, <1>2

\* The end of a start.
LEMMA FinishFF ==
    ASSUME HInv, FF, Finish
    PROVE  FF'
<1>s. StoreTypeOK /\ Inv /\ d \in Control
      /\ (d.job = "up" => d.def \in Defs)
  BY DEF HInv, Held, Route, Inv, Sound
<1>b. Starting(d)
  <2>1. d.pc \in OnlyStartPC
    BY DEF Finish, OnlyStartPC
  <2> QED BY <2>1, Positions DEF HInv, Held, Route, Starting
<1>1. CASE UNCHANGED dbVars /\ d' = start_fails(d, "store")
  <2>1. UNCHANGED op /\ Kept
    BY <1>1 DEF dbVars, Kept
  <2> QED BY <1>b, <1>1, <2>1, StartGoes
<1>2. CASE return /\ (commit_up \/ finish_start_current)
  <2>1. d'.pc = "idle" /\ d'.started = << >>
    BY <1>2 DEF return, at
  <2>2. op'.outcome # "null"
    BY <1>s, <1>2 DEF commit_up, finish_start_current, StoreTypeOK, Operation
  <2>3. "idle" \in AwayPC
    BY DEF AwayPC, NeutralPC
  <2> QED BY <2>1, <2>2, <2>3, AwayAt, AwayTo
<1> QED BY <1>1, <1>2 DEF Finish, StoreFails

\* Where the loops of an abort go, and what they work on.
LEMMA AbortLists ==
    ASSUME NEW c \in Control, NEW q \in Seq(Services)
    PROVE  /\ \A e \in {cleanup_next(c, q), survivors_next(c, q)} :
                 /\ e.pc \in AbortPC \ {"abort", "abort_others"}
                 /\ e.cur = c.cur
           /\ LET e == abort_others_next(c, q) IN
                 /\ e.pc \in AbortPC \ {"abort"}
                 /\ e.cur = c.cur /\ e.started = c.started
                 /\ q # << >> => e.pc = "abort_others" /\ e.todo = q
<1>0. {"finalize", "cleanup", "survivors", "abort_others"} \subseteq AbortPC
  BY DEF AbortPC
<1>1. ASSUME NEW r \in Seq(Services)
      PROVE  /\ cleanup_next(c, r).pc \in {"finalize", "cleanup"}
             /\ cleanup_next(c, r).cur = c.cur
             /\ cleanup_next(c, r).started = c.started
  BY DEF cleanup_next, Control
<1>2. /\ survivors_next(c, q).pc \in {"finalize", "survivors"}
      /\ survivors_next(c, q).cur = c.cur
  BY DEF survivors_next, Control
<1>3. Reverse(c.started) \in Seq(Services)
  BY ReverseType DEF Control
<1>4. CASE q = << >>
  <2>1. abort_others_next(c, q) = cleanup_next(c, Reverse(c.started))
    BY <1>4 DEF abort_others_next
  <2> QED BY <1>0, <1>1, <1>2, <1>3, <1>4, <2>1
<1>5. CASE q # << >>
  <2>1. abort_others_next(c, q) = [c EXCEPT !.pc = "abort_others", !.todo = q]
    BY <1>5 DEF abort_others_next
  <2>2. /\ abort_others_next(c, q).pc = "abort_others"
        /\ abort_others_next(c, q).cur = c.cur
        /\ abort_others_next(c, q).started = c.started
        /\ abort_others_next(c, q).todo = q
    BY <2>1 DEF Control
  <2> QED BY <1>0, <1>1, <1>2, <2>2
<1> QED BY <1>4, <1>5

\* Within an abort.
LEMMA Aborting ==
    ASSUME FF, d.pc \in AbortPC, UNCHANGED op, d'.pc \in AbortPC \ {"abort"},
           oprow'[d'.cur].outcome = "failure",
           \A s \in Services : oprow'[s].outcome = "null" =>
              /\ d'.pc = "abort_others"
              /\ s \in ToSet(d'.todo) /\ s \notin ToSet(d'.started)
              /\ s # d'.cur
    PROVE  FF'
<1>1. /\ d'.pc \notin DownPC \cup RestartPC \cup StartPC
      /\ d'.pc # "abort" /\ ~Away(d') /\ ~Starting(d')
  BY Positions DEF Starting, Away, InOp
<1>2. op'.outcome = "null"
  BY DEF FF, Unfinished, unfinished, InOp
<1>3. Unfinished'
  BY <1>1, <1>2 DEF Unfinished, unfinished, InOp
<1>4. Outcomes'
  BY <1>1 DEF Outcomes, Open
<1> QED BY <1>3, <1>4 DEF FF

\* A failure is recorded, unless the service has no part in the operation.
LEMMA FailureRecorded ==
    ASSUME "store" \notin Faults, StoreTypeOK, NEW s \in Services,
           NEW unknown, record_failure(s, unknown)
    PROVE  /\ oprow[s].outcome # "none" => oprow'[s].outcome = "failure"
           /\ oprow'[s].outcome # "null"
           /\ \A t \in Services : t # s => oprow'[t] = oprow[t]
<1>1. CASE mark_service_failed_ok(s) /\ mark_service_failed(s, unknown)
  <2>1. \E p : oprow' = [oprow EXCEPT ![s] = [phase |-> p,
                                              outcome |-> "failure"]]
    BY <1>1 DEF mark_service_failed
  <2> QED BY <2>1 DEF StoreTypeOK
<1>2. CASE StoreFails(mark_service_failed_ok(s))
  BY <1>2 DEF StoreFails, mark_service_failed_ok, dbVars
<1> QED BY <1>1, <1>2 DEF record_failure

\* The abort of an operation.
LEMMA AbortFF ==
    ASSUME "store" \notin Faults, HInv, FF, AbortStart,
           UNCHANGED op \/ Finalize
    PROVE  FF'
<1>s. /\ d \in Control /\ d.cur \in Services /\ d.todo \in Seq(Services)
      /\ d.started \in Seq(Services) /\ d.order \in Seq(Services)
      /\ StoreTypeOK
      /\ d.pc \in LoopPC => d.todo # << >>
  BY DEF HInv, Inv, Sound, Control
<1>q. d.pc \in AbortPC
  BY DEF AbortStart, Abort, AbortOthers, Cleanup, CleanupExit, CleanupMark,
     Survivors, Finalize, AbortPC
<1>h. d.todo # << >> => /\ Head(d.todo) \in Services
                        /\ Tail(d.todo) \in Seq(Services)
                        /\ ToSet(d.todo)
                              = {Head(d.todo)} \cup ToSet(Tail(d.todo))
  BY <1>s, HeadTail, Parts
<1>g. d.pc \in LoopPC => Reverse(Tail(d.todo)) \in Seq(Services)
  BY <1>s, <1>h, ReverseType
<1>f. d.pc # "abort" => oprow[d.cur].outcome = "failure"
  BY <1>q DEF FF, Outcomes
<1>o. ASSUME d.pc \notin {"abort", "abort_others"}
      PROVE  \A s \in Services : oprow[s].outcome # "null"
  BY <1>q, <1>o DEF FF, Outcomes, Open
<1>e. ToSet(<< >>) = {}
  BY DEF ToSet
<1>1. CASE Abort
  <2>0. d.pc = "abort" /\ UNCHANGED op
    BY <1>1 DEF Abort, Finalize
  <2>1. /\ oprow[d.cur].outcome # "none"
        /\ \A s \in Services : oprow[s].outcome = "null" =>
              s = d.cur \/ (d.job # "restart" /\ s \in ToSet(d.order))
        /\ \A s \in ToSet(d.started) : oprow[s].outcome # "null"
    BY <2>0 DEF FF, Outcomes, Open
  <2>2. /\ oprow'[d.cur].outcome = "failure"
        /\ \A t \in Services : t # d.cur => oprow'[t] = oprow[t]
    BY <1>1, <1>s, <2>1, FailureRecorded DEF Abort
  <2>3. CASE d.job # "restart"
    <3>1. d' = abort_others_next(d, d.order)
      BY <1>1, <2>3 DEF Abort
    <3>2. /\ d'.pc \in AbortPC \ {"abort"} /\ d'.cur = d.cur
          /\ d'.started = d.started
          /\ d.order # << >> => d'.pc = "abort_others" /\ d'.todo = d.order
      BY <1>s, <3>1, AbortLists
    <3>3. ASSUME NEW s \in Services, oprow'[s].outcome = "null"
          PROVE  /\ d'.pc = "abort_others" /\ s \in ToSet(d'.todo)
                 /\ s \notin ToSet(d'.started) /\ s # d'.cur
      <4>1. s # d.cur /\ oprow[s].outcome = "null"
        BY <2>2, <3>3
      <4>2. s \in ToSet(d.order) /\ s \notin ToSet(d.started)
        BY <2>1, <4>1
      <4> QED BY <1>e, <3>2, <4>1, <4>2
    <3> QED BY <1>q, <2>0, <2>2, <3>2, <3>3, Aborting
  <2>4. CASE d.job = "restart"
    <3>1. \E r \in Seq(Services) :
             d' \in {cleanup_next(d, r), survivors_next(d, r)}
      <4>1. << >> \in Seq(Services) /\ <<d.cur>> \in Seq(Services)
        BY <1>s
      <4> QED BY <1>1, <2>4, <4>1 DEF Abort
    <3>2. d'.pc \in AbortPC \ {"abort"} /\ d'.cur = d.cur
      BY <1>s, <3>1, AbortLists
    <3> QED BY <1>q, <2>0, <2>1, <2>2, <2>4, <3>2, Aborting
  <2> QED BY <2>3, <2>4
<1>2. CASE AbortOthers
  <2>0. /\ d.pc = "abort_others" /\ d.pc \in LoopPC /\ UNCHANGED op
        /\ d' = abort_others_next(d, Tail(d.todo))
    BY <1>2 DEF AbortOthers, LoopPC, Finalize
  <2>1. /\ d'.pc \in AbortPC \ {"abort"} /\ d'.cur = d.cur
        /\ d'.started = d.started
        /\ Tail(d.todo) # << >> => d'.pc = "abort_others"
                                   /\ d'.todo = Tail(d.todo)
    BY <1>s, <1>h, <2>0, AbortLists
  <2>2. \A s \in Services : oprow[s].outcome = "null" =>
           s \in ToSet(d.todo) /\ s \notin ToSet(d.started) /\ s # d.cur
    BY <1>q, <2>0 DEF FF, Outcomes, Open
  <2>3. /\ oprow'[d.cur].outcome = "failure"
        /\ \A s \in Services : oprow'[s].outcome = "null" =>
              oprow[s].outcome = "null" /\ s # Head(d.todo)
    <3> DEFINE h == Head(d.todo)
    <3>0. h \in Services
      BY <1>s, <1>h, <2>0
    <3>1. CASE (h = d.cur \/ h \in ToSet(d.started)) /\ UNCHANGED dbVars
      BY <1>f, <2>0, <2>2, <3>0, <3>1 DEF dbVars
    <3>2. CASE h # d.cur /\ record_failure(h, FALSE)
      <4> HIDE DEF h
      <4>1. /\ oprow'[h].outcome # "null"
            /\ \A t \in Services : t # h => oprow'[t] = oprow[t]
        BY <1>s, <3>0, <3>2, FailureRecorded
      <4> QED BY <1>s, <1>f, <2>0, <3>2, <4>1 DEF h
    <3> QED BY <1>2, <3>1, <3>2 DEF AbortOthers
  <2>4. ASSUME NEW s \in Services, oprow'[s].outcome = "null"
        PROVE  /\ d'.pc = "abort_others" /\ s \in ToSet(d'.todo)
               /\ s \notin ToSet(d'.started) /\ s # d'.cur
    <3>1. s # Head(d.todo) /\ s \in ToSet(d.todo)
          /\ s \notin ToSet(d.started) /\ s # d.cur
      BY <2>2, <2>3, <2>4
    <3>2. s \in ToSet(Tail(d.todo))
      BY <1>s, <1>h, <2>0, <3>1
    <3> QED BY <1>e, <2>1, <3>1, <3>2
  <2> QED BY <1>q, <2>0, <2>1, <2>3, <2>4, Aborting
<1>3. CASE Cleanup \/ CleanupExit \/ CleanupMark \/ Survivors
  <2>0. /\ d.pc \in LoopPC /\ UNCHANGED op
        /\ d.pc \in {"cleanup", "cleanup_exit", "cleanup_mark", "survivors"}
    BY <1>3 DEF Cleanup, CleanupExit, CleanupMark, Survivors, LoopPC, Finalize
  <2>h. Head(d.todo) \in Services /\ Tail(d.todo) \in Seq(Services)
    BY <1>s, <1>h, <2>0
  <2>1. /\ d'.pc \in AbortPC \ {"abort", "abort_others"} /\ d'.cur = d.cur
    <3>0. {"cleanup_exit", "cleanup_mark"}
             \subseteq AbortPC \ {"abort", "abort_others"}
      BY DEF AbortPC
    <3>1. CASE goto("cleanup_exit")
      <4>1. d'.pc = "cleanup_exit" /\ d'.cur = d.cur
        BY <1>s, <3>1 DEF goto, Control
      <4> QED BY <3>0, <4>1
    <3>2. ASSUME NEW e, d' = [d EXCEPT !.pc = "cleanup_mark", !.err = e]
          PROVE  /\ d'.pc \in AbortPC \ {"abort", "abort_others"}
                 /\ d'.cur = d.cur
      <4>1. d'.pc = "cleanup_mark" /\ d'.cur = d.cur
        BY <1>s, <3>2 DEF Control
      <4> QED BY <3>0, <4>1
    <3>3. CASE d' = cleanup_next(d, Tail(d.todo))
      BY <1>s, <2>h, <3>3, AbortLists
    <3>5. CASE d' = survivors_next(d, Tail(d.todo))
      BY <1>s, <2>h, <3>5, AbortLists
    <3>4. CASE d' = survivors_next(d, Reverse(Tail(d.todo)))
      BY <1>s, <1>g, <2>0, <3>4, AbortLists
    <3> QED BY <1>3, <3>1, <3>2, <3>3, <3>4, <3>5
            DEF Cleanup, CleanupExit, CleanupMark, Survivors
  <2>2. \/ UNCHANGED oprow
        \/ \E unknown : record_failure(Head(d.todo), unknown)
    BY <1>3 DEF Cleanup, CleanupExit, CleanupMark, Survivors, dbVars,
       quarantine_if_owned, quarantine, Ignoring, StoreFails,
       mark_runtime_unknown, record_exit
  <2>3. /\ oprow'[d.cur].outcome = "failure"
        /\ \A s \in Services : oprow'[s].outcome # "null"
    <3>0. /\ oprow[d.cur].outcome = "failure"
          /\ \A s \in Services : oprow[s].outcome # "null"
      BY <1>f, <1>o, <2>0
    <3>1. CASE UNCHANGED oprow
      BY <3>0, <3>1
    <3>2. ASSUME NEW unknown, record_failure(Head(d.todo), unknown)
          PROVE  /\ oprow'[d.cur].outcome = "failure"
                 /\ \A s \in Services : oprow'[s].outcome # "null"
      <4> DEFINE h == Head(d.todo)
      <4>0. h \in Services
        BY <2>h
      <4> HIDE DEF h
      <4>1. /\ oprow[h].outcome # "none" => oprow'[h].outcome = "failure"
            /\ oprow'[h].outcome # "null"
            /\ \A t \in Services : t # h => oprow'[t] = oprow[t]
        BY <1>s, <3>2, <4>0, FailureRecorded DEF h
      <4> QED BY <1>s, <3>0, <4>1
    <3> QED BY <2>2, <3>1, <3>2
  <2> QED BY <1>q, <2>0, <2>1, <2>3, Aborting
<1>4. CASE Finalize
  <2>0. d.pc = "finalize"
    BY <1>4 DEF Finalize
  <2>1. unfinished
    BY <1>q DEF FF, Unfinished, InOp
  <2>2. finalize_operation_failure_ok
    BY <1>s, <1>f, <1>o, <2>0, <2>1 DEF finalize_operation_failure_ok
  <2>3. op'.outcome # "null"
    BY <1>4, <1>s, <2>2 DEF Finalize, StoreFails, finalize_operation_failure,
       finish_op, StoreTypeOK, Operation
  <2>4. {"idle", "dead"} \subseteq AwayPC /\ "shutdown" \in AwayPC
    BY DEF AwayPC, NeutralPC, ShutPC
  <2>5. CASE d' \in {at("idle"), at("dead")}
    <3>1. d'.pc \in {"idle", "dead"} /\ d'.started = << >>
      BY <2>5 DEF at
    <3> QED BY <2>3, <2>4, <3>1, AwayAt, AwayTo
  <2>6. CASE begin_shutdown(FALSE)
    <3>1. d'.pc = "shutdown" /\ d'.started = << >>
      BY <2>6, ShutdownTo
    <3> QED BY <2>3, <2>4, <3>1, AwayAt, AwayTo
  <2> QED BY <1>4, <2>5, <2>6 DEF Finalize, return
<1> QED BY <1>1, <1>2, <1>3, <1>4 DEF AbortStart

\* A restart, up to the start of its service.
LEMMA RestartFF ==
    ASSUME "store" \notin Faults, HInv, FF,
           \/ RestartBegin \/ RestartStopInvoke \/ RestartStop
           \/ RestartStopped,
           UNCHANGED op \/ RestartBegin
    PROVE  FF'
<1>s. /\ d \in Control /\ d.cur \in Services /\ StoreTypeOK /\ Inv
      /\ d.job = "up" => d.def \in Defs
  BY DEF HInv, Held, Route, Inv, Sound, Control
<1>1. CASE RestartBegin
  <2>0. d.pc = "restart_begin" /\ "restart_begin" \in AwayPC
    BY <1>1 DEF RestartBegin, AwayPC, NeutralPC
  <2>a. op.outcome # "null" /\ d.started = << >>
    <3>1. Away(d)
      BY <2>0, AwayAt
    <3> QED BY <2>0, <3>1 DEF FF, Outcomes, Unfinished, unfinished, Away
  <2>1. CASE UNCHANGED dbVars /\ return
    <3>1. d'.pc = "idle" /\ d'.started = << >> /\ op' = op
      BY <2>1 DEF return, at, dbVars
    <3>2. "idle" \in AwayPC
      BY DEF AwayPC, NeutralPC
    <3> QED BY <2>a, <3>1, <3>2, AwayAt, AwayTo
  <2>2. CASE begin_restart(d.cur) /\ goto("restart_stop_invoke")
    <3>1. /\ d'.pc = "restart_stop_invoke" /\ d'.cur = d.cur
          /\ d'.started = << >>
      BY <1>s, <2>a, <2>2 DEF goto, Control
    <3>2. d'.pc \in RestartPC
      BY <3>1 DEF RestartPC
    <3>3. d'.pc \notin DownPC \cup StartPC \cup AbortPC /\ ~Starting(d')
          /\ d'.pc # "abort"
      BY <3>1, <3>2, Positions DEF Starting
    <3>4. /\ op'.outcome = "null"
          /\ \A s \in Services :
                oprow'[s].outcome = IF s = d.cur THEN "null" ELSE "none"
      BY <2>2 DEF begin_restart, NoRow
    <3>5. Unfinished'
      BY <3>2, <3>3, <3>4 DEF Unfinished, unfinished, InOp
    <3>6. Outcomes'
      BY <1>s, <3>1, <3>2, <3>3, <3>4 DEF Outcomes, Open
    <3> QED BY <3>5, <3>6 DEF FF
  <2> QED BY <1>1, <2>1, <2>2 DEF RestartBegin, StoreFails
<1>2. CASE RestartStopInvoke \/ RestartStop \/ RestartStopped
  <2>0. d.pc \in RestartPC /\ d.pc # "restart_begin" /\ UNCHANGED op
    BY <1>2 DEF RestartStopInvoke, RestartStop, RestartStopped, Journal,
       RestartPC, RestartBegin
  <2>1. d.ret = "pre_restart" /\ op.outcome = "null"
    BY <2>0 DEF HInv, Held, Route, FF, Unfinished, unfinished, InOp
  <2>2. Kept
    <3>1. \/ UNCHANGED dbVars \/ (\E ok : StoreFails(ok))
          \/ mark_restart_stop_invoked(d.cur) \/ mark_restart_stopped(d.cur)
      BY <1>2 DEF RestartStopInvoke, RestartStop, RestartStopped, Journal
    <3> QED BY <1>s, <3>1, RowKept, PieceKept
  <2>3. /\ oprow[d.cur].outcome # "none" /\ d.started = << >>
        /\ \A s \in Services : oprow[s].outcome = "null" =>
              s = d.cur \/ (d.job # "restart" /\ s \in ToSet(d.order))
    BY <2>0 DEF FF, Outcomes, Open
  <2>4. CASE \E e : d' = start_fails(d, e)
    <3>1. d'.pc = "abort" /\ SameTask(d, d')
      BY <1>s, <2>1, <2>4, StartFailsTo
    <3> QED BY <1>s, <2>0, <2>2, <3>1, ToAborting
  <2>5. ASSUME NEW p \in RestartPC, goto(p) PROVE FF'
    <3>1. d'.pc = p /\ SameTask(d, d')
      BY <1>s, <2>5 DEF goto, Control, SameTask
    <3>2. d'.pc \notin DownPC \cup StartPC \cup AbortPC /\ ~Starting(d')
          /\ d'.pc # "abort"
      <4>1. p \notin DownPC \cup StartPC \cup AbortPC
        BY Positions
      <4>2. "abort" \in AbortPC
        BY DEF AbortPC
      <4> QED BY <3>1, <4>1, <4>2 DEF Starting
    <3>3. Unfinished'
      BY <2>0, <2>1, <3>1, <3>2 DEF Unfinished, unfinished, InOp
    <3>4. Outcomes'
      BY <1>s, <2>2, <2>3, <3>1, <3>2 DEF Outcomes, Open, Kept, SameTask
    <3> QED BY <3>3, <3>4 DEF FF
  <2>6. CASE mark_restart_stopped(d.cur) /\ d' = start_next(d, <<d.cur>>)
    <3> DEFINE q == <<d.cur>>
    <3>1. q \in Seq(Services) /\ q # << >> /\ Head(q) = d.cur
          /\ Tail(q) = << >>
      BY <1>s
    <3>2. ToSet(q) = {d.cur}
      <4>1. ToSet(<< >>) = {}
        BY DEF ToSet
      <4> QED BY <3>1, <4>1, Parts
    <3>3. d' = start_next(d, q)
      BY <2>6
    <3> HIDE DEF q
    <3>4. \A s \in ToSet(q) : oprow'[s].outcome # "none"
      BY <1>s, <2>2, <2>3, <3>2 DEF Kept
    <3>5. \A s \in Services : oprow'[s].outcome = "null" =>
              \/ s = Head(q)
              \/ d.job # "restart" /\ s \in ToSet(d.order)
      BY <2>2, <2>3, <3>1 DEF Kept
    <3>6. op'.outcome = "null"
      BY <2>0, <2>1
    <3> QED BY <1>s, <2>0, <3>1, <3>3, <3>4, <3>5, <3>6, BeginFF
  <2>7. {"restart_stop", "restart_stopped"} \subseteq RestartPC
    BY DEF RestartPC
  <2> QED BY <1>2, <2>4, <2>5, <2>6, <2>7 DEF RestartStopInvoke,
          RestartStop, RestartStopped, Journal, begin_starting
<1> QED BY <1>1, <1>2

\* Within down, only the kind of the operation matters.
LEMMA InDown ==
    ASSUME d'.pc \in DownPC, op'.kind = "down"
    PROVE  FF'
<1>1. d'.pc \notin StartPC \cup AbortPC \cup RestartPC /\ ~Starting(d')
      /\ ~Away(d')
  BY Positions DEF Starting, Away
<1>2. d'.pc # "abort"
  BY <1>1 DEF AbortPC
<1>3. Unfinished'
  BY <1>1 DEF Unfinished, InOp
<1>4. Outcomes'
  BY <1>1, <1>2 DEF Outcomes
<1> QED BY <1>3, <1>4 DEF FF

\* The steps of down.
LEMMA DownFF ==
    ASSUME "store" \notin Faults, HInv, FF,
           \/ DownBegin \/ DownSvc \/ DownStop \/ DownStopped \/ DownFinish
           \/ DownQuarantine \/ DownFinal,
           UNCHANGED op \/ DownBegin \/ DownFinish \/ DownFinal
    PROVE  FF'
<1>s. d \in Control /\ StoreTypeOK
  BY DEF HInv, Inv, Sound
<1>p. "idle" \in AwayPC /\ "down_begin" \in AwayPC
  BY DEF AwayPC, NeutralPC
<1>d. {"down_svc", "down_stop", "down_stopped", "down_quarantine",
       "down_final"} \subseteq DownPC
  BY DEF DownPC, DownLoopPC
<1>r. ASSUME return, op'.outcome # "null" PROVE FF'
  <2>1. d'.pc = "idle" /\ d'.started = << >>
    BY <1>r DEF return, at
  <2> QED BY <1>p, <1>r, <2>1, AwayAt, AwayTo
<1>g. ASSUME NEW p \in DownPC, goto(p), op'.kind = "down" PROVE FF'
  <2>1. d'.pc = p
    BY <1>s, <1>g DEF goto, Control
  <2> QED BY <1>g, <2>1, InDown
<1>1. CASE DownBegin
  <2>0. d.pc = "down_begin"
    BY <1>1 DEF DownBegin
  <2>1. op.outcome # "null"
    <3>1. Away(d)
      BY <1>p, <2>0, AwayAt
    <3> QED BY <2>0, <3>1 DEF FF, Unfinished, unfinished, Away
  <2>2. CASE UNCHANGED dbVars /\ return
    BY <1>r, <2>1, <2>2 DEF dbVars
  <2>3. CASE /\ begin_down
             /\ d' = [d EXCEPT !.pc = "down_svc",
                               !.todo = StopOrder(committed)]
    <3>1. d'.pc = "down_svc" /\ op'.kind = "down"
      BY <1>s, <2>3 DEF Control, begin_down
    <3> QED BY <1>d, <3>1, InDown
  <2> QED BY <1>1, <2>2, <2>3 DEF DownBegin, StoreFails
<1>2. CASE ~DownBegin
  <2>0. d.pc \in DownPC
    BY <1>2, <1>d DEF DownSvc, DownStop, DownStopped, DownFinish,
       DownQuarantine, DownFinal
  <2>1. op.kind = "down"
    BY <2>0 DEF FF, Unfinished
  <2>2. CASE ~DownFinish /\ ~DownFinal
    <3>1. op'.kind = "down"
      BY <1>2, <2>1, <2>2
    <3>2. CASE \/ goto("down_quarantine") \/ goto("down_stop")
               \/ goto("down_stopped") \/ goto("down_final")
      BY <1>d, <1>g, <3>1, <3>2
    <3>3. CASE d' = [d EXCEPT !.todo = Tail(d.todo)]
      <4>1. d'.pc = d.pc
        BY <1>s, <3>3 DEF Control
      <4> QED BY <2>0, <3>1, <4>1, InDown
    <3>4. CASE d' = [d EXCEPT !.pc = "down_svc", !.todo = Tail(d.todo)]
      <4>1. d'.pc = "down_svc"
        BY <1>s, <3>4 DEF Control
      <4> QED BY <1>d, <3>1, <4>1, InDown
    <3>5. CASE UNCHANGED d
      BY <2>0, <3>1, <3>5, InDown
    <3> QED BY <1>2, <2>2, <3>2, <3>3, <3>4, <3>5 DEF DownSvc, DownStop,
            DownStopped, DownQuarantine, goto
  <2>3. CASE DownFinish
    <3>1. CASE UNCHANGED dbVars /\ goto("down_quarantine")
      BY <1>d, <1>g, <2>1, <3>1 DEF dbVars
    <3>2. CASE finish_down /\ return
      <4>1. op'.outcome # "null"
        BY <1>s, <3>2 DEF finish_down, StoreTypeOK, Operation
      <4> QED BY <1>r, <3>2, <4>1
    <3> QED BY <2>3, <3>1, <3>2 DEF DownFinish, StoreFails
  <2>4. CASE DownFinal
    <3>1. op'.outcome # "null"
      <4>1. CASE finalize_down_failure
        BY <1>s, <4>1 DEF finalize_down_failure, StoreTypeOK, Operation
      <4>2. CASE ~finalize_down_failure_ok /\ UNCHANGED dbVars
        BY <2>1, <4>2 DEF finalize_down_failure_ok, unfinished, dbVars
      <4> QED BY <2>4, <4>1, <4>2 DEF DownFinal, StoreFails
    <3> QED BY <1>r, <2>4, <3>1 DEF DownFinal
  <2> QED BY <2>2, <2>3, <2>4
<1> QED BY <1>1, <1>2

\* Every step keeps FF while no transaction fails.
LEMMA NextFF ==
    ASSUME "store" \notin Faults, HInv, FF, [Next]_vars
    PROVE  FF'
<1>1. CASE UNCHANGED vars
  BY <1>1 DEF vars, dbVars, worldVars, FF, Unfinished, Outcomes, Open,
     unfinished
<1>2. CASE Next /\ Turning
  <2>1. CASE DownStopped
    <3>1. UNCHANGED op
      BY <2>1 DEF DownStopped, mark_stopped, StoreFails, dbVars
    <3> QED BY <2>1, <3>1, DownFF
  <2> QED BY <1>2, <2>1, BootFF, UpFF, FinishFF, AbortFF, DownFF, RestartFF
          DEF Turning, AbortStart
<1>3. CASE Next /\ ~Turning
  <2>o. UNCHANGED op
    BY <1>3, CalmNext DEF HInv
  <2>a. ASSUME Away(d), Away(d'), d'.started \in {d.started, << >>},
               d.pc \notin {"dead", "reconcile"}
        PROVE  FF'
    BY <2>o, <2>a, StillAway
  <2>1. CASE Supervise
    <3>1. d.pc \in {"tick", "tick_child", "tick_schedule", "tick_due", "due",
                    "restart_invoke", "restore", "reschedule", "due_unknown"}
      BY <2>1 DEF Supervise, TickUncertain, TickChild, TickSchedule, TickDue,
         Due, RestartInvoke, Restore, Reschedule, DueUnknown
    <3>2. d.pc \in AwayPC
      BY <3>1 DEF AwayPC, NeutralPC
    <3> QED BY <2>1, <2>a, <3>2, SuperviseAway, AwayAt
  <2>2. CASE Prepare
    <3>1. CASE Up \/ UpCheck
      <4>1. d.pc \in {"up", "up_check"}
        BY <3>1 DEF Up, UpCheck
      <4>2. d.pc \in AwayPC
        BY <4>1 DEF AwayPC, NeutralPC
      <4> QED BY <2>a, <3>1, <4>2, UpAway, AwayAt
    <3> QED BY <1>3, <2>2, <2>o, <3>1, PrepareFF DEF Prepare, Turning
  <2>3. CASE Depend
    <3>1. CASE d.ret = "start"
      BY <2>3, <2>o, <3>1, DependFF
    <3>2. CASE d.ret # "start"
      <4>1. d.pc \in {"deps", "dep_schedule"}
        BY <2>3 DEF Depend, DepsDone, DepAbsent, DepValid, DepUnqualified,
           DepExitAmbiguous, DepExited, DepSchedule
      <4> QED BY <2>3, <2>a, <3>2, <4>1, DependAway, AwayAt
    <3> QED BY <3>1, <3>2
  <2>4. CASE StartOne
    <3>1. CASE d.ret = "due"
      <4>1. d.pc \in BirthPC
        <5>1. d.pc \in BirthPC \cup {"start_invoke", "finish"}
          BY <2>4 DEF StartOne, MarkStartInvoked, Spawn, SpawnRefused,
             JournalChild, Contain, Qualify, QualifyFails, QualifyExited,
             MarkRunning, Finish, BirthPC
        <5> QED BY <3>1, <5>1 DEF HInv, Held, Route, OnlyStartPC
      <4> QED BY <2>4, <2>a, <3>1, <4>1, StartOneAway, AwayAt
    <3>2. CASE d.ret # "due"
      BY <1>3, <2>4, <2>o, <3>2, StartOneFF DEF Turning
    <3> QED BY <3>1, <3>2
  <2>5. CASE AbortStart
    BY <2>5, <2>o, AbortFF
  <2>6. CASE Stop
    BY <2>6, <2>o, DownFF, RestartFF, ShutdownFF DEF Stop
  <2>7. CASE Environment
    BY <2>7, EnvironmentFF
  <2> QED BY <1>3, <2>1, <2>2, <2>3, <2>4, <2>5, <2>6, <2>7
          DEF Next, DaemonStep, Turning
<1> QED BY <1>1, <1>2, <1>3

\* The daemon begins with no operation.
LEMMA InitFF == Init => FF
<1> SUFFICES ASSUME Init PROVE FF
  OBVIOUS
<1>1. d.pc = "dead" /\ d.started = << >>
  BY DEF Init, at
<1>2. "dead" \in AwayPC
  BY DEF AwayPC, NeutralPC
<1>3. Away(d)
  BY <1>1, <1>2, AwayAt
<1>4. d.pc \notin DownPC \cup RestartPC \cup AbortPC /\ ~Starting(d)
      /\ d.pc # "abort"
  BY <1>3 DEF Away, InOp, AbortPC
<1>5. Unfinished /\ Outcomes
  BY <1>1, <1>4 DEF Unfinished, Outcomes, InOp
<1> QED BY <1>5 DEF FF

\* SPECIFICATION.md: reject_unfinished refuses every operation after one
\* that has no outcome.  While no transaction fails, the abort, restart and
\* down paths of runtime.rs give the operation its outcome before the daemon
\* serves the next request, for every set of services, dependency order,
\* restart policy and set of the other faults.
THEOREM OperationFinishedHolds ==
    "store" \notin Faults => (Spec => []OperationFinished)
<1> SUFFICES ASSUME "store" \notin Faults PROVE Spec => []OperationFinished
  OBVIOUS
<1>1. Init => FF
  BY InitFF
<1>2. HInv /\ FF /\ [Next]_vars => FF'
  BY NextFF
<1>3. FF => OperationFinished
  <2> SUFFICES ASSUME FF, d.pc = "idle" PROVE ~unfinished
    BY DEF OperationFinished
  <2>1. "idle" \in AwayPC
    BY DEF AwayPC, NeutralPC
  <2>2. Away(d)
    BY <2>1, AwayAt
  <2> QED BY <2>2 DEF FF, Unfinished, Away
<1> QED BY <1>1, <1>2, <1>3, HeldInvariance, PTL DEF Spec

-----------------------------------------------------------------------------
(* The state of the stack is that of its services *)

\* The columns of refresh_stack_state agree.
Current == stack.observed = derived_state(stack.desired, svc)

\* They would agree if the service that is being restarted were still pending.
Pending ==
    stack.observed =
       derived_state(stack.desired,
                     [svc EXCEPT ![d.cur].observed = "restarting"])

\* Where the columns may disagree: every way on refreshes the stack.
Stale(c) ==
    \/ Starting(c)
    \/ c.pc \in RestartPC \cup ShutPC \cup {"abort", "shutdown_end", "dead",
                 "reconcile", "restore", "due_unknown"}
    \/ c.pc \in BirthPC /\ c.ret = "due"

\* A pending restart is told by the phase of its row as well.
BackoffRows ==
    \A s \in Services :
       svc[s].phase = "backoff" => svc[s].observed = "restarting"

DownRows ==
    /\ d.pc \in DownLoopPC =>
          \A s \in Services :
             /\ oprow[s].outcome # "none"
             /\ oprow[s].outcome = "success" => svc[s].observed = "stopped"
    /\ d.pc \in {"down_stop", "down_stopped"} =>
          oprow[Head(d.todo)].outcome = "null"
    /\ d.pc \in {"down_quarantine", "down_final"} /\ unfinished =>
          \E s \in Services :
             \/ oprow[s].outcome # "success"
             \/ svc[s].observed = "unknown"
             \/ handle[s] = "owned" /\ d.pc = "down_quarantine"

Derived ==
    stack.exists =>
       /\ ~Stale(d) => Current
       /\ \/ d.pc = "spawn" /\ d.ret = "due"
          \/ d.pc = "restore"
          => Pending

SI == BackoffRows /\ DownRows /\ Derived

\* The columns that derived_state reads.
Same ==
    /\ stack'.exists = stack.exists
    /\ stack'.desired = stack.desired
    /\ stack'.observed = stack.observed
    /\ \A s \in Services : svc'[s].observed = svc[s].observed

\* What a transaction on one row does to them.
Settled ==
    /\ Same \/ (stack'.exists = stack.exists /\ Current')
    /\ BackoffRows => BackoffRows'

\* derived_state reads the observed columns and nothing else.
LEMMA DerivedState ==
    ASSUME NEW desired, NEW rows, NEW seen,
           \A s \in Services : seen[s].observed = rows[s].observed
    PROVE  derived_state(desired, seen) = derived_state(desired, rows)
BY DEF derived_state

\* A write that refreshes the stack.
LEMMA RefreshedCurrent ==
    ASSUME StoreTypeOK, NEW s \in Services, NEW r, write_refreshed(s, r)
    PROVE  Current' /\ stack'.exists = stack.exists
<1>1. svc' = [svc EXCEPT ![s] = r]
  BY DEF write_refreshed
<1>2. stack' = [stack EXCEPT !.observed = derived_state(stack.desired, svc')]
  BY <1>1 DEF write_refreshed
<1>3. /\ stack'.exists = stack.exists /\ stack'.desired = stack.desired
      /\ stack'.observed = derived_state(stack.desired, svc')
  BY <1>2 DEF StoreTypeOK, StackRow
<1> QED BY <1>3 DEF Current

\* It keeps BackoffRows if the row written does.
LEMMA RefreshedSettled ==
    ASSUME StoreTypeOK, NEW s \in Services, NEW r, write_refreshed(s, r),
           r.phase = "backoff" => r.observed = "restarting"
    PROVE  Settled
<1>1. svc' = [svc EXCEPT ![s] = r]
  BY DEF write_refreshed
<1>2. BackoffRows => BackoffRows'
  BY <1>1 DEF BackoffRows, StoreTypeOK
<1> QED BY <1>2, RefreshedCurrent DEF Settled

\* A write that only sets the phase.
LEMMA PhaseSettled ==
    ASSUME StoreTypeOK, NEW s \in Services, NEW p,
           write_row(s, [svc[s] EXCEPT !.phase = p]), p # "backoff"
    PROVE  Settled
<1>1. svc[s] \in ServiceRow
  BY DEF StoreTypeOK
<1>2. /\ [svc[s] EXCEPT !.phase = p].phase = p
      /\ [svc[s] EXCEPT !.phase = p].observed = svc[s].observed
  BY <1>1 DEF ServiceRow
<1>3. UNCHANGED stack /\ svc' = [svc EXCEPT ![s] = [svc[s] EXCEPT !.phase = p]]
  BY DEF write_row
<1>4. Same
  BY <1>2, <1>3 DEF Same, StoreTypeOK
<1>5. BackoffRows => BackoffRows'
  BY <1>2, <1>3 DEF BackoffRows, StoreTypeOK
<1> QED BY <1>4, <1>5 DEF Settled

\* The phases that an operation gives a row on its way.
OnTheWay == {"logs_prepared", "install_invoked", "start_invoked",
             "stop_invoked"}

\* The transactions on one row, other than those of a scheduled restart
\* before its service runs.
LEMMA RowSettled ==
    ASSUME StoreTypeOK, NEW s \in Services,
           \/ \E p \in OnTheWay : set_service_phase(s, p)
           \/ mark_installed(s) \/ mark_rootfs_unknown(s)
           \/ mark_starting(s) \/ mark_running(s)
           \/ \E unknown : mark_service_failed(s, unknown)
           \/ mark_restart_stop_invoked(s) \/ mark_restart_stopped(s)
           \/ record_exit(s) \/ mark_runtime_unknown(s)
           \/ \E attempts : schedule_restart(s, attempts)
           \/ mark_restart_running(s) \/ mark_stopped(s)
           \/ record_graceful_stop(s) \/ record_graceful_backoff_stop(s)
    PROVE  Settled
<1>0. svc[s] \in ServiceRow
  BY DEF StoreTypeOK
<1>w. ASSUME NEW r, write_refreshed(s, r),
             r.phase = "backoff" => r.observed = "restarting"
      PROVE  Settled
  BY <1>w, RefreshedSettled
<1>1. CASE mark_rootfs_unknown(s)
  BY <1>1 DEF mark_rootfs_unknown, Settled, Same, BackoffRows
<1>2. ASSUME NEW p \in OnTheWay, set_service_phase(s, p) PROVE Settled
  BY <1>2, PhaseSettled DEF set_service_phase, OnTheWay
<1>3. CASE mark_installed(s)
  BY <1>3, PhaseSettled DEF mark_installed
<1>4. CASE mark_starting(s)
  <2>1. [svc[s] EXCEPT !.observed = "starting", !.phase = "starting",
                       !.ident = "pid"].phase = "starting"
    BY <1>0 DEF ServiceRow
  <2> QED BY <1>4, <1>w, <2>1 DEF mark_starting
<1>5. CASE mark_running(s)
  <2>1. [svc[s] EXCEPT !.observed = "running", !.phase = "running",
                       !.ident = "session", !.attempts = 0,
                       !.backoff = FALSE].phase = "running"
    BY <1>0 DEF ServiceRow
  <2> QED BY <1>5, <1>w, <2>1 DEF mark_running
<1>6. ASSUME NEW unknown, mark_service_failed(s, unknown) PROVE Settled
  <2>1. PICK x \in {"unknown", "failed"} :
           write_refreshed(s, [svc[s] EXCEPT !.observed = x, !.phase = x])
    BY <1>6 DEF mark_service_failed
  <2>2. [svc[s] EXCEPT !.observed = x, !.phase = x].phase # "backoff"
    BY <1>0, <2>1 DEF ServiceRow
  <2> QED BY <1>w, <2>1, <2>2
<1>7. CASE mark_restart_stop_invoked(s)
  <2>1. [svc[s] EXCEPT !.observed = "stopping",
                       !.phase = "restart_stop_invoked"].phase # "backoff"
    BY <1>0 DEF ServiceRow
  <2> QED BY <1>7, <1>w, <2>1 DEF mark_restart_stop_invoked
<1>8. \A o, p : proven_row(svc[s], o, p).phase = p
  BY <1>0 DEF proven_row, ServiceRow
<1>9. CASE \/ mark_restart_stopped(s) \/ record_exit(s)
           \/ record_graceful_stop(s)
  BY <1>8, <1>9, <1>w DEF mark_restart_stopped, record_exit,
     record_graceful_stop
<1>10. CASE mark_runtime_unknown(s)
  <2>1. [svc[s] EXCEPT !.observed = "unknown", !.phase = "unknown",
                       !.backoff = FALSE].phase # "backoff"
    BY <1>0 DEF ServiceRow
  <2> QED BY <1>10, <1>w, <2>1 DEF mark_runtime_unknown
<1>11. ASSUME NEW attempts, schedule_restart(s, attempts) PROVE Settled
  <2>1. [svc[s] EXCEPT !.observed = "restarting", !.phase = "backoff",
                       !.backoff = TRUE, !.attempts = attempts].observed
          = "restarting"
    BY <1>0 DEF ServiceRow
  <2> QED BY <1>11, <1>w, <2>1 DEF schedule_restart
<1>12. CASE mark_restart_running(s)
  <2>1. [svc[s] EXCEPT !.observed = "running", !.phase = "committed",
                       !.ident = "session", !.backoff = FALSE].phase
          # "backoff"
    BY <1>0 DEF ServiceRow
  <2> QED BY <1>12, <1>w, <2>1 DEF mark_restart_running
<1>13. CASE mark_stopped(s)
  <2> DEFINE r == [proven_row(svc[s], "stopped", "stopped")
                     EXCEPT !.desired = "stopped"]
  <2>1. r.phase = "stopped"
    BY <1>0 DEF proven_row, ServiceRow
  <2>2. write_refreshed(s, r)
    BY <1>13 DEF mark_stopped
  <2> HIDE DEF r
  <2> QED BY <1>w, <2>1, <2>2
<1>14. CASE record_graceful_backoff_stop(s)
  <2>1. [svc[s] EXCEPT !.observed = "stopped", !.phase = "shutdown_proven",
                       !.backoff = FALSE].phase # "backoff"
    BY <1>0 DEF ServiceRow
  <2> QED BY <1>14, <1>w, <2>1 DEF record_graceful_backoff_stop
<1> QED BY <1>1, <1>2, <1>3, <1>4, <1>5, <1>6, <1>7, <1>9, <1>10, <1>11,
        <1>12, <1>13, <1>14

\* The pieces of runtime.rs that write one row, or nothing.
LEMMA PieceSettled ==
    ASSUME StoreTypeOK, NEW s \in Services,
           \/ UNCHANGED dbVars \/ (\E ok : StoreFails(ok))
           \/ Ignoring(mark_runtime_unknown(s))
           \/ quarantine(s) \/ quarantine_if_owned(s)
           \/ schedule_or_give_up(s) \/ schedule_restart_after_exit(s)
           \/ \E unknown : record_failure(s, unknown)
    PROVE  Settled
<1>1. ASSUME UNCHANGED dbVars PROVE Settled
  BY <1>1 DEF Settled, Same, BackoffRows, dbVars
<1>2. ASSUME NEW ok, StoreFails(ok) PROVE Settled
  BY <1>1, <1>2 DEF StoreFails
<1>3. ASSUME Ignoring(mark_runtime_unknown(s)) PROVE Settled
  BY <1>2, <1>3, RowSettled DEF Ignoring
<1>4. CASE quarantine(s) \/ quarantine_if_owned(s)
  BY <1>1, <1>3, <1>4 DEF quarantine, quarantine_if_owned
<1>5. CASE schedule_or_give_up(s) \/ schedule_restart_after_exit(s)
  BY <1>1, <1>2, <1>5, RowSettled DEF schedule_or_give_up,
     schedule_restart_after_exit
<1>6. CASE \E unknown : record_failure(s, unknown)
  BY <1>2, <1>6, RowSettled DEF record_failure
<1> QED BY <1>1, <1>2, <1>3, <1>4, <1>5, <1>6

\* The steps that begin or end an operation, and those of a scheduled restart
\* that leave the stack alone.
Settling ==
    \/ BeginCurrent \/ CandBegin \/ UpConverge \/ Finish \/ Finalize
    \/ DownBegin \/ DownFinish \/ DownFinal
    \/ RestartBegin \/ Reconcile \/ Resume
    \/ RestartInvoke \/ Restore \/ JournalChild

\* All others write one row, and refresh the stack if its state is touched.
LEMMA SettledNext ==
    ASSUME Inv, Next, ~Settling
    PROVE  Settled
<1>s. StoreTypeOK /\ d.cur \in Services /\ d \in Control
  BY DEF Inv, Sound, Control
<1>p. ASSUME NEW s \in Services,
           \/ UNCHANGED dbVars \/ (\E ok : StoreFails(ok))
           \/ Ignoring(mark_runtime_unknown(s))
           \/ quarantine(s) \/ quarantine_if_owned(s)
           \/ schedule_or_give_up(s) \/ schedule_restart_after_exit(s)
           \/ \E unknown : record_failure(s, unknown)
      PROVE  Settled
  BY <1>s, <1>p, PieceSettled
<1>u. ASSUME UNCHANGED dbVars PROVE Settled
  BY <1>s, <1>p, <1>u
<1>v. \A s \in Services, p \in OnTheWay : set_service_phase(s, p) => Settled
  BY <1>s, RowSettled
<1>h. d.pc \in LoopPC => Head(d.todo) \in Services
  BY HeadTail DEF Inv, Sound, Control
<1>t. d.todo # << >> => Head(d.todo) \in Services
  BY <1>s, HeadTail DEF Control
<1>e. d.deps # << >> => Head(d.deps) \in Services
  BY <1>s, HeadTail DEF Control
<1>f. "dep_schedule" = d.pc => d.deps # << >>
  BY DEF Inv, Sound
<1>1. CASE Supervise
  <2>1. CASE TickUncertain \/ TickDue \/ Due
    BY <1>u, <2>1 DEF TickUncertain, TickDue, Due
  <2>2. CASE TickChild
    <3>1. Head(d.todo) \in Services
      BY <1>h, <2>2 DEF TickChild, LoopPC
    <3> QED BY <1>s, <1>u, <1>p, <2>2, <3>1, RowSettled DEF TickChild
  <2>3. CASE TickSchedule
    <3>1. Head(d.todo) \in Services
      BY <1>h, <2>3 DEF TickSchedule, LoopPC
    <3> QED BY <1>p, <2>3, <3>1 DEF TickSchedule
  <2>4. CASE Reschedule \/ DueUnknown
    BY <1>s, <1>p, <2>4 DEF Reschedule, DueUnknown
  <2> QED BY <1>1, <2>1, <2>2, <2>3, <2>4 DEF Supervise, Settling
<1>2. CASE Prepare
  <2>1. CASE Up \/ UpCheck \/ CandSvc \/ Install
    BY <1>u, <2>1 DEF Up, UpCheck, CandSvc, Install
  <2>2. CASE MarkLogsPrepared \/ MarkInstallInvoked
    <3>1. \/ set_service_phase(d.cur, "logs_prepared")
          \/ set_service_phase(d.cur, "install_invoked")
          \/ \E ok : StoreFails(ok)
      BY <2>2 DEF MarkLogsPrepared, MarkInstallInvoked, Journal
    <3> QED BY <1>s, <1>p, <1>v, <3>1 DEF OnTheWay
  <2>3. CASE MarkInstalled \/ MarkRootfsUnknown \/ MarkInstallFailed
    BY <1>s, <1>p, <2>3, RowSettled DEF MarkInstalled, MarkRootfsUnknown,
       MarkInstallFailed, Journal
  <2> QED BY <1>2, <2>1, <2>2, <2>3 DEF Prepare, Settling
<1>3. CASE Depend
  <2>1. CASE DepsDone \/ DepAbsent \/ DepValid
    BY <1>u, <2>1 DEF DepsDone, DepAbsent, DepValid
  <2>2. CASE DepUnqualified \/ DepExitAmbiguous \/ DepExited \/ DepSchedule
    <3>1. Head(d.deps) \in Services
      BY <1>e, <1>f, <2>2 DEF DepUnqualified, DepExitAmbiguous, DepExited,
         DepSchedule
    <3> QED BY <1>s, <1>p, <2>2, <3>1, RowSettled DEF DepUnqualified,
            DepExitAmbiguous, DepExited, DepSchedule
  <2> QED BY <1>3, <2>1, <2>2 DEF Depend
<1>4. CASE StartOne
  <2>1. CASE Spawn \/ SpawnRefused \/ Contain \/ Qualify
    BY <1>u, <2>1 DEF Spawn, SpawnRefused, Contain, Qualify
  <2>2. CASE MarkStartInvoked
    <3>1. \/ set_service_phase(d.cur, "start_invoked") \/ UNCHANGED dbVars
          \/ \E ok : StoreFails(ok)
      BY <2>2 DEF MarkStartInvoked
    <3> QED BY <1>s, <1>p, <1>v, <3>1 DEF OnTheWay
  <2>3. CASE QualifyFails
    BY <1>s, <1>p, <2>3 DEF QualifyFails
  <2>4. CASE QualifyExited
    BY <1>s, <1>p, <2>4, RowSettled DEF QualifyExited
  <2>5. CASE MarkRunning
    BY <1>s, <1>p, <2>5, RowSettled DEF MarkRunning
  <2> QED BY <1>4, <2>1, <2>2, <2>3, <2>4, <2>5 DEF StartOne,
          Settling
<1>5. CASE AbortStart
  <2>1. CASE Abort
    BY <1>s, <1>p, <2>1 DEF Abort
  <2>2. CASE AbortOthers
    <3>1. Head(d.todo) \in Services
      BY <1>h, <2>2 DEF AbortOthers, LoopPC
    <3> QED BY <1>p, <2>2, <3>1 DEF AbortOthers
  <2>3. CASE Cleanup \/ CleanupExit \/ CleanupMark \/ Survivors
    <3>1. Head(d.todo) \in Services
      BY <1>h, <2>3 DEF Cleanup, CleanupExit, CleanupMark, Survivors, LoopPC
    <3> QED BY <1>s, <1>p, <2>3, <3>1, RowSettled DEF Cleanup, CleanupExit,
            CleanupMark, Survivors
  <2> QED BY <1>5, <2>1, <2>2, <2>3 DEF AbortStart, Settling
<1>6. CASE Stop
  <2>1. CASE DownSvc
    <3>1. Head(d.todo) \in Services
      BY <1>t, <2>1 DEF DownSvc
    <3>2. \/ set_service_phase(Head(d.todo), "stop_invoked")
          \/ UNCHANGED dbVars \/ \E ok : StoreFails(ok)
      BY <2>1 DEF DownSvc
    <3> QED BY <1>s, <1>p, <1>v, <3>1, <3>2 DEF OnTheWay
  <2>2. CASE DownStop \/ Restart \/ RestartStop \/ ShutdownEnd
    BY <1>u, <2>2 DEF DownStop, Restart, RestartStop, ShutdownEnd
  <2>3. CASE DownQuarantine
    BY <1>s, <1>p, <2>3 DEF DownQuarantine
  <2>4. CASE RestartStopInvoke \/ RestartStopped
    BY <1>s, <1>p, <2>4, RowSettled DEF RestartStopInvoke, RestartStopped,
       Journal
  <2>5. CASE ShutdownAbsent \/ ShutdownStop \/ ShutdownRecord
    <3>1. Head(d.todo) \in Services
      BY <1>h, <1>t, <2>5 DEF ShutdownAbsent, ShutdownStop, ShutdownRecord,
         LoopPC
    <3> QED BY <1>s, <1>u, <1>p, <2>5, <3>1, RowSettled DEF ShutdownAbsent,
            ShutdownStop, ShutdownRecord
  <2>6. CASE DownStopped
    <3>1. Head(d.todo) \in Services
      BY <1>h, <2>6 DEF DownStopped, LoopPC
    <3> QED BY <1>s, <1>p, <2>6, <3>1, RowSettled DEF DownStopped
  <2> QED BY <1>6, <2>1, <2>2, <2>3, <2>4, <2>5, <2>6 DEF Stop,
          Settling
<1>7. CASE Environment
  BY <1>7, <1>u DEF Environment, Boot, Accept, SigTerm, Crash, TracerExits,
     TreeEnds
<1> QED BY <1>1, <1>2, <1>3, <1>4, <1>5, <1>6, <1>7
        DEF Next, DaemonStep, Settling

\* A step in the start of one service of an operation leads on in that start,
\* or to the abort.
LEMMA StartingTo ==
    ASSUME HInv, Next, Starting(d), ~Finish
    PROVE  d'.pc \in StartPC \cup {"abort", "dead"} /\ ~Turning
<1>s. /\ d \in Control /\ (d.job = "up" => d.def \in Defs)
      /\ d.ret = "start" /\ d.pc \in StartPC
  BY DEF HInv, Held, Route, Inv, Sound, Starting
<1>g. \A p : goto(p) => d'.pc = p
  BY <1>s DEF goto, Control
<1>f. /\ \A e : start_fails(d, e).pc = "abort"
      /\ deps_failed(d).pc = "abort"
  BY <1>s, StartFailsTo, DepsFailedTo
<1>t. ~Turning
  BY <1>s DEF Turning, BeginCurrent, CandBegin, UpConverge, Finalize,
     DownBegin, DownStopped, DownFinish, DownFinal, RestartBegin, Reconcile,
     Resume, StartPC, OnlyStartPC, BirthPC
<1>b. BirthPC \subseteq StartPC /\ {"deps", "dep_schedule"} \subseteq StartPC
  BY Positions
<1>1. CASE Depend
  <2>1. d'.pc \in {"deps", "dep_schedule", "start_invoke", "abort"}
    <3>1. deps_done(d).pc = "start_invoke"
      BY <1>s DEF deps_done, Control
    <3>2. DepValid => d'.pc = "deps"
      BY <1>s DEF DepValid, Control
    <3> QED BY <1>1, <1>f, <1>g, <3>1, <3>2 DEF Depend, DepsDone, DepAbsent,
            DepUnqualified, DepExitAmbiguous, DepExited, DepSchedule
  <2> QED BY <1>t, <1>b, <2>1 DEF StartPC, OnlyStartPC
<1>2. CASE StartOne
  <2>1. CASE MarkRunning
    <3> DEFINE c == [d EXCEPT !.started = Append(d.started, d.cur)]
    <3>1. d' = start_next(c, d.todo) \/ d'.pc = "abort"
      BY <1>s, <1>f, <2>1 DEF MarkRunning
    <3>2. c \in Control
      BY <1>s, AppendSet DEF Control
    <3> HIDE DEF c
    <3>3. d'.pc \in {"finish", "cand_svc", "deps", "abort"}
      BY <3>1, <3>2, Leads
    <3> QED BY <1>t, <3>3 DEF StartPC, OnlyStartPC
  <2>2. CASE ~MarkRunning
    <3>1. \/ \E p \in BirthPC : goto(p)
          \/ \E e : d' = start_fails(d, e)
      BY <1>2, <1>s, <2>2 DEF StartOne, MarkStartInvoked, Spawn,
         SpawnRefused, JournalChild, Contain, Qualify, QualifyFails,
         QualifyExited, BirthPC
    <3> QED BY <1>t, <1>b, <1>f, <1>g, <3>1
  <2> QED BY <2>1, <2>2
<1>3. CASE Prepare
  <2>1. \/ CandSvc \/ Install \/ MarkLogsPrepared \/ MarkInstallInvoked
        \/ MarkInstalled \/ MarkRootfsUnknown \/ MarkInstallFailed
    BY <1>3, <1>s, <1>t DEF Prepare, Turning, Up, UpCheck, StartPC,
       OnlyStartPC, BirthPC
  <2>2. \/ \E e : d' = start_fails(d, e)
        \/ \E p \in {"deps", "logs", "install_invoke", "install",
                     "installed", "install_unknown", "install_failed"} :
              goto(p)
    BY <2>1 DEF CandSvc, Install, MarkLogsPrepared, MarkInstallInvoked,
       MarkInstalled, MarkRootfsUnknown, MarkInstallFailed, Journal
  <2> QED BY <1>t, <1>f, <1>g, <2>2 DEF StartPC, OnlyStartPC
<1>4. ~Supervise /\ ~AbortStart
  BY <1>s DEF Supervise, TickUncertain, TickChild, TickSchedule, TickDue,
     Due, RestartInvoke, Restore, Reschedule, DueUnknown, AbortStart, Abort,
     AbortOthers, Cleanup, CleanupExit, CleanupMark, Survivors, Finalize,
     StartPC, OnlyStartPC, BirthPC
<1>5. ~Stop
  BY <1>s DEF Stop, DownBegin, DownSvc, DownStop, DownStopped, DownFinish,
     DownQuarantine, DownFinal, Restart, RestartBegin, RestartStopInvoke,
     Journal, RestartStop, RestartStopped, ShutdownAbsent, ShutdownStop,
     ShutdownRecord, ShutdownEnd, StartPC, OnlyStartPC, BirthPC
<1>6. CASE Environment
  <2>1. d.pc \notin {"dead", "idle"}
    BY <1>s DEF StartPC, OnlyStartPC, BirthPC
  <2>2. CASE Crash
    BY <1>t, <2>2 DEF Crash, process_ends, at
  <2>3. CASE UNCHANGED d
    BY <1>s, <1>t, <2>3
  <2> QED BY <1>6, <2>1, <2>2, <2>3 DEF Environment, Boot, Accept, SigTerm,
          TracerExits, TreeEnds
<1> QED BY <1>t, <1>1, <1>2, <1>3, <1>4, <1>5, <1>6 DEF Next, DaemonStep,
        Turning

\* So the stack stays to be refreshed.
LEMMA StartingStale ==
    ASSUME HInv, FF, FF', Next, Starting(d), ~Finish
    PROVE  Stale(d')
<1>1. d'.pc \in StartPC \cup {"abort", "dead"} /\ ~Turning
  BY StartingTo
<1>2. UNCHANGED op
  BY <1>1, CalmNext DEF HInv
<1>3. op'.outcome = "null"
  BY <1>2 DEF FF, Unfinished, unfinished, InOp
<1>4. InOp(d)' \/ d'.pc \in DownPC \cup {"dead", "reconcile"}
  BY <1>3 DEF FF, Unfinished, unfinished
<1>5. ASSUME d'.pc \in StartPC PROVE Starting(d')
  <2>1. d'.pc \notin AbortPC \cup RestartPC \cup DownPC
                     \cup {"dead", "reconcile"}
    BY <1>5, Positions DEF StartPC, OnlyStartPC, BirthPC
  <2> QED BY <1>4, <2>1 DEF InOp
<1> QED BY <1>1, <1>5 DEF Stale

\* A start ends with a stack that is derived from its services.
LEMMA FinishCurrent ==
    ASSUME HInv, Finish
    PROVE  Stale(d') \/ Current'
<1>s. /\ StoreTypeOK /\ d \in Control /\ (d.job = "up" => d.def \in Defs)
  BY DEF HInv, Held, Route, Inv, Sound
<1>r. d.ret = "start"
  BY DEF Finish, HInv, Held, Route, OnlyStartPC
<1>1. CASE d' = start_fails(d, "store")
  BY <1>s, <1>r, <1>1, StartFailsTo DEF Stale
<1>2. CASE commit_up
  <2>1. \A s \in Services : svc'[s].observed = "running"
    BY <1>s, <1>2 DEF commit_up, StoreTypeOK, ServiceRow
  <2>2. stack'.desired = "running" /\ stack'.observed = "running"
    BY <1>s, <1>2 DEF commit_up, StoreTypeOK, StackRow
  <2> QED BY <2>1, <2>2 DEF Current, derived_state
<1>3. CASE finish_start_current
  BY <1>s, <1>3 DEF finish_start_current, Current, StoreTypeOK, StackRow
<1> QED BY <1>1, <1>2, <1>3 DEF Finish

\* A scheduled restart that has begun: its end refreshes the stack.
LEMMA DueStale ==
    ASSUME "store" \notin Faults, HInv, StartOne, d.pc \in BirthPC,
           d.ret = "due"
    PROVE  Stale(d') \/ Current'
<1>s. /\ d \in Control /\ d.cur \in Services /\ StoreTypeOK
  BY DEF HInv, Inv, Sound, Control
<1>g. ASSUME NEW p \in BirthPC, goto(p) PROVE Stale(d')
  <2>1. d'.pc = p /\ d'.ret = d.ret
    BY <1>s, <1>g DEF goto, Control
  <2> QED BY <2>1 DEF Stale
<1>f. \A e : d' = start_fails(d, e) => Stale(d')
  BY <1>s, Leads DEF Stale
<1>w. \A r : write_refreshed(d.cur, r) => Current'
  BY <1>s, RefreshedCurrent
<1>1. \/ \E p \in BirthPC : goto(p)
      \/ \E e : d' = start_fails(d, e)
      \/ QualifyExited /\ record_exit(d.cur)
      \/ mark_restart_running(d.cur)
  <2>1. d.pc \notin {"start_invoke", "finish"}
    BY DEF BirthPC
  <2> QED BY <2>1 DEF StartOne, MarkStartInvoked, Spawn, SpawnRefused,
          JournalChild, Contain, Qualify, QualifyFails, QualifyExited,
          MarkRunning, Finish, BirthPC
<1> QED BY <1>1, <1>f, <1>g, <1>w DEF record_exit, mark_restart_running

\* A restart, up to the start of its service.
LEMMA RestartStale ==
    ASSUME HInv, RestartStopInvoke \/ RestartStop \/ RestartStopped
    PROVE  Stale(d')
<1>s. /\ d \in Control /\ d.cur \in Services
      /\ (d.job = "up" => d.def \in Defs)
  BY DEF HInv, Held, Route, Inv, Sound, Control
<1>p. {"restart_stop", "restart_stopped"} \subseteq RestartPC
  BY DEF RestartPC
<1>r. d.ret = "pre_restart"
  BY DEF HInv, Held, Route, RestartPC, RestartStopInvoke, RestartStop,
     RestartStopped, Journal
<1>1. \/ goto("restart_stop") \/ goto("restart_stopped")
      \/ \E e : d' = start_fails(d, e)
      \/ begin_starting(d, <<d.cur>>)
  BY DEF RestartStopInvoke, RestartStop, RestartStopped, Journal
<1>2. \A q : goto(q) => d'.pc = q
  BY <1>s DEF goto, Control
<1>3. CASE begin_starting(d, <<d.cur>>)
  <2>1. <<d.cur>> \in Seq(Services) /\ <<d.cur>> # << >>
    BY <1>s
  <2>2. \/ d'.pc \in {"finish", "cand_svc", "deps"} /\ d'.ret = "start"
        \/ d'.pc = "abort"
    BY <1>s, <1>3, <2>1, BeginStartingTo
  <2> QED BY <2>2 DEF Stale, Starting, StartPC, OnlyStartPC
<1>4. CASE \E e : d' = start_fails(d, e)
  BY <1>s, <1>4, Leads DEF Stale
<1> QED BY <1>1, <1>2, <1>3, <1>4, <1>p DEF Stale

\* The other positions at which the stack may be stale.
LEMMA OtherStale ==
    ASSUME "store" \notin Faults, HInv, FF, Derived,
           \/ Reconcile \/ Restore \/ DueUnknown \/ Abort
           \/ ShutdownAbsent \/ ShutdownStop \/ ShutdownRecord
           \/ ShutdownEnd \/ Boot \/ Crash
    PROVE  Stale(d') \/ (stack'.exists => Current')
<1>s. /\ d \in Control /\ d.cur \in Services /\ StoreTypeOK
  BY DEF HInv, Inv, Sound, Control
<1>g. \A p : (goto(p) => d'.pc = p) /\ at(p).pc = p
  BY <1>s DEF goto, at, Control
<1>w. \A r : write_refreshed(d.cur, r) => Current'
  BY <1>s, RefreshedCurrent
<1>1. CASE Reconcile
  <2>1. CASE d' = at("dead")
    BY <1>g, <2>1 DEF Stale
  <2>2. CASE reconcile_cold_start
    BY <1>s, <2>2 DEF reconcile_cold_start, Current, StoreTypeOK, StackRow
  <2> QED BY <1>1, <2>1, <2>2 DEF Reconcile
<1>2. CASE Restore
  <2>1. restore_restart_backoff(d.cur) /\ d.pc = "restore"
    BY <1>2 DEF Restore
  <2>2. svc[d.cur] \in ServiceRow
    BY <1>s DEF StoreTypeOK
  <2> DEFINE seen == [svc EXCEPT ![d.cur].observed = "restarting"]
  <2>3. \A s \in Services : svc'[s].observed = seen[s].observed
    BY <1>s, <2>1, <2>2 DEF restore_restart_backoff, write_row, StoreTypeOK,
       ServiceRow
  <2>4. derived_state(stack.desired, svc') = derived_state(stack.desired, seen)
    <3> HIDE DEF seen
    <3> QED BY <2>3, DerivedState
  <2>5. UNCHANGED stack
    BY <2>1 DEF restore_restart_backoff, write_row
  <2>6. stack.exists => stack.observed = derived_state(stack.desired, seen)
    BY <2>1 DEF Derived, Pending
  <2> QED BY <2>4, <2>5, <2>6 DEF Current
<1>3. CASE DueUnknown
  <2>1. mark_runtime_unknown(d.cur) \/ StoreFails(TRUE)
    BY <1>3 DEF DueUnknown, Ignoring
  <2> QED BY <1>w, <2>1 DEF mark_runtime_unknown, StoreFails
<1>4. CASE Abort
  <2>1. oprow[d.cur].outcome # "none"
    BY <1>4 DEF Abort, FF, Outcomes
  <2>2. \E unknown : mark_service_failed(d.cur, unknown)
    BY <1>4, <2>1 DEF Abort, record_failure, StoreFails,
       mark_service_failed_ok
  <2> QED BY <1>w, <2>2 DEF mark_service_failed
<1>5. CASE \/ ShutdownAbsent \/ ShutdownStop \/ ShutdownRecord
           \/ ShutdownEnd
  <2>1. d'.pc \in {"shutdown", "shutdown_end", "shutdown_record", "dead"}
    <3>1. CASE \E again : begin_shutdown(again)
      BY <3>1, ShutdownTo
    <3>2. CASE process_ends
      BY <1>g, <3>2 DEF process_ends
    <3>3. CASE shutdown_next \/ goto("shutdown_end")
               \/ goto("shutdown_record")
      BY <1>s, <1>g, <3>3 DEF shutdown_next, Control
    <3> QED BY <1>5, <3>1, <3>2, <3>3 DEF ShutdownAbsent, ShutdownStop,
            ShutdownRecord, ShutdownEnd
  <2> QED BY <2>1 DEF Stale, ShutPC
<1>6. CASE Boot \/ Crash
  BY <1>g, <1>6 DEF Boot, Crash, process_ends, Stale
<1> QED BY <1>1, <1>2, <1>3, <1>4, <1>5, <1>6

\* Where the stack may be stale it stays so, or is refreshed.
LEMMA StaleNext ==
    ASSUME "store" \notin Faults, HInv, FF, FF', Derived, Next, Stale(d)
    PROVE  Stale(d') \/ (stack'.exists => Current')
<1>1. CASE Starting(d)
  BY <1>1, StartingStale, FinishCurrent
<1>2. CASE d.pc \in BirthPC /\ d.ret = "due"
  <2>1. \/ StartOne \/ Crash
        \/ \E s \in Services : TracerExits(s) \/ TreeEnds(s)
    <3>1. ~Supervise /\ ~AbortStart /\ ~Reconcile /\ ~Resume
      BY <1>2 DEF Supervise, TickUncertain, TickChild, TickSchedule, TickDue,
         Due, RestartInvoke, Restore, Reschedule, DueUnknown, AbortStart,
         Abort, AbortOthers, Cleanup, CleanupExit, CleanupMark, Survivors,
         Finalize, Reconcile, Resume, BirthPC
    <3>2. ~Stop
      BY <1>2 DEF Stop, DownBegin, DownSvc, DownStop, DownStopped,
         DownFinish, DownQuarantine, DownFinal, Restart, RestartBegin,
         RestartStopInvoke, Journal, RestartStop, RestartStopped,
         ShutdownAbsent, ShutdownStop, ShutdownRecord, ShutdownEnd, BirthPC
    <3>3. ~Prepare /\ ~Depend
      BY <1>2 DEF Prepare, Up, UpCheck, UpConverge, BeginCurrent, CandBegin,
         CandSvc, MarkLogsPrepared, MarkInstallInvoked, Install,
         MarkInstalled, MarkRootfsUnknown, MarkInstallFailed, Journal,
         Depend, DepsDone, DepAbsent, DepValid, DepUnqualified,
         DepExitAmbiguous, DepExited, DepSchedule, BirthPC
    <3>4. ~Boot /\ ~Accept /\ ~SigTerm
      BY <1>2 DEF Boot, Accept, SigTerm, BirthPC
    <3> QED BY <3>1, <3>2, <3>3, <3>4 DEF Next, DaemonStep, Environment
  <2>2. CASE StartOne
    BY <1>2, <2>2, DueStale
  <2>3. CASE \E s \in Services : TracerExits(s) \/ TreeEnds(s)
    BY <2>3 DEF TracerExits, TreeEnds, Stale, Starting
  <2> QED BY <2>1, <2>2, <2>3, OtherStale
<1>3. CASE d.pc \in RestartPC \cup ShutPC \cup {"abort", "shutdown_end",
                      "dead", "reconcile", "restore", "due_unknown"}
  <2>1. \/ Reconcile \/ Restore \/ DueUnknown \/ Abort
        \/ ShutdownAbsent \/ ShutdownStop \/ ShutdownRecord
        \/ ShutdownEnd \/ Boot \/ Crash
        \/ RestartStopInvoke \/ RestartStop \/ RestartStopped
        \/ \E s \in Services : TracerExits(s) \/ TreeEnds(s)
    <3>1. ~Prepare /\ ~Depend /\ ~Resume
      BY <1>3 DEF Prepare, Up, UpCheck, UpConverge, BeginCurrent, CandBegin,
         CandSvc, MarkLogsPrepared, MarkInstallInvoked, Install,
         MarkInstalled, MarkRootfsUnknown, MarkInstallFailed, Journal,
         Depend, DepsDone, DepAbsent, DepValid, DepUnqualified,
         DepExitAmbiguous, DepExited, DepSchedule, Resume, RestartPC, ShutPC
    <3>2. ~StartOne
      BY <1>3 DEF StartOne, MarkStartInvoked, Spawn, SpawnRefused,
         JournalChild, Contain, Qualify, QualifyFails, QualifyExited,
         MarkRunning, Finish, RestartPC, ShutPC
    <3>3. Supervise => Restore \/ DueUnknown
      BY <1>3 DEF Supervise, TickUncertain, TickChild, TickSchedule, TickDue,
         Due, RestartInvoke, Reschedule, RestartPC, ShutPC
    <3>4. AbortStart => Abort
      BY <1>3 DEF AbortStart, AbortOthers, Cleanup, CleanupExit,
         CleanupMark, Survivors, Finalize, RestartPC, ShutPC
    <3>5. Stop => \/ ShutdownAbsent \/ ShutdownStop \/ ShutdownRecord
                  \/ ShutdownEnd \/ RestartStopInvoke \/ RestartStop
                  \/ RestartStopped
      BY <1>3 DEF Stop, DownBegin, DownSvc, DownStop, DownStopped,
         DownFinish, DownQuarantine, DownFinal, Restart, RestartBegin,
         RestartPC, ShutPC
    <3>6. ~Accept /\ ~SigTerm
      BY <1>3 DEF Accept, SigTerm, RestartPC, ShutPC
    <3> QED BY <3>1, <3>2, <3>3, <3>4, <3>5, <3>6
            DEF Next, DaemonStep, Environment
  <2>2. CASE \E s \in Services : TracerExits(s) \/ TreeEnds(s)
    BY <2>2 DEF TracerExits, TreeEnds, Stale, Starting
  <2> QED BY <2>1, <2>2, OtherStale, RestartStale
<1> QED BY <1>1, <1>2, <1>3 DEF Stale

\* Only a scheduled restart gives a row the phase that tells of one.
LEMMA BackoffNext ==
    ASSUME Inv, BackoffRows, Next
    PROVE  BackoffRows'
<1>s. StoreTypeOK /\ d.cur \in Services
  BY DEF Inv, Sound, Control
<1>r. \A s \in Services : svc[s] \in ServiceRow
  BY <1>s DEF StoreTypeOK
<1>u. UNCHANGED svc => BackoffRows'
  BY DEF BackoffRows
<1>d. UNCHANGED dbVars => BackoffRows'
  BY <1>u DEF dbVars
<1>f. \A ok : StoreFails(ok) => BackoffRows'
  BY <1>d DEF StoreFails
<1>w. ASSUME NEW s \in Services, NEW r, svc' = [svc EXCEPT ![s] = r],
             r.phase = "backoff" => r.observed = "restarting"
      PROVE  BackoffRows'
  BY <1>s, <1>w DEF BackoffRows, StoreTypeOK
<1>n. ASSUME NEW s \in Services, NEW o, NEW p
      PROVE  fresh_row(svc[s], o, p).phase = p
             /\ [fresh_row(svc[s], o, p) EXCEPT !.attempts = 0].phase = p
  BY <1>r DEF fresh_row, ServiceRow
<1>1. CASE ~Settling
  BY <1>1, SettledNext DEF Settled
<1>2. ASSUME NEW kind, NEW names, begin_start_current(kind, names)
      PROVE  BackoffRows'
  <2>1. ASSUME NEW s \in Services, svc'[s].phase = "backoff"
        PROVE  svc'[s] = svc[s]
    BY <1>2, <1>n, <2>1 DEF begin_start_current
  <2> QED BY <2>1 DEF BackoffRows
<1>3. ASSUME NEW def, NEW reused, begin_candidate(def, reused)
      PROVE  BackoffRows'
  <2>1. ASSUME NEW s \in Services PROVE svc'[s].phase # "backoff"
    <3> DEFINE o == IF s \in reused THEN "starting" ELSE "preparing"
               p == IF s \in reused THEN "installed" ELSE "intent"
    <3>1. svc'[s] = [fresh_row(svc[s], o, p) EXCEPT !.attempts = 0]
      BY <1>3 DEF begin_candidate
    <3>2. p # "backoff"
      OBVIOUS
    <3> HIDE DEF o, p
    <3> QED BY <1>n, <3>1, <3>2
  <2> QED BY <2>1 DEF BackoffRows
<1>4. CASE BeginCurrent \/ CandBegin \/ Resume
  BY <1>d, <1>f, <1>2, <1>3, <1>4 DEF BeginCurrent, CandBegin, Resume,
     begin_candidate_recovery, begin_up
<1>5. CASE UpConverge \/ Finalize \/ DownFinish
  BY <1>u, <1>d, <1>f, <1>5 DEF UpConverge, record_noop_up, Finalize,
     finalize_operation_failure, DownFinish, finish_down
<1>6. CASE Finish
  <2>1. CASE commit_up
    <3>1. \A s \in Services : svc'[s].phase = "committed"
      BY <1>r, <2>1 DEF commit_up, ServiceRow
    <3> QED BY <3>1 DEF BackoffRows
  <2>2. CASE finish_start_current
    <3>1. \A s \in Services :
             svc'[s].phase = "committed" \/ svc'[s] = svc[s]
      BY <1>r, <2>2 DEF finish_start_current, ServiceRow
    <3> QED BY <3>1 DEF BackoffRows
  <2> QED BY <1>6, <1>f, <2>1, <2>2 DEF Finish
<1>7. CASE DownBegin
  <2>1. CASE begin_down
    <3>1. ASSUME NEW s \in Services PROVE svc'[s].phase # "backoff"
      <4>1. down_class(svc[s]) \in {"stopped", "unknown", "stopping"}
        BY DEF down_class
      <4>2. svc'[s].phase = IF down_class(svc[s]) = "stopping"
                            THEN "stop_intent" ELSE down_class(svc[s])
        BY <1>r, <2>1 DEF begin_down, down_row, ServiceRow
      <4> QED BY <4>1, <4>2
    <3> QED BY <3>1 DEF BackoffRows
  <2> QED BY <1>7, <1>f, <2>1 DEF DownBegin
<1>8. CASE DownFinal
  <2>1. CASE finalize_down_failure
    <3>1. \A s \in Services : svc'[s].phase = "unknown" \/ svc'[s] = svc[s]
      BY <1>r, <2>1 DEF finalize_down_failure, ServiceRow
    <3> QED BY <3>1 DEF BackoffRows
  <2> QED BY <1>8, <1>f, <2>1 DEF DownFinal
<1>9. CASE Reconcile
  <2>1. CASE reconcile_cold_start
    <3>1. ASSUME NEW s \in Services
          PROVE  cold_row(s).phase # "backoff" \/ cold_row(s) = svc[s]
      <4>1. cold_phase(cold_class(oprow[s])) # "backoff"
        BY DEF cold_phase, cold_class
      <4> QED BY <1>r, <4>1 DEF cold_row, ServiceRow
    <3>2. \A s \in Services : svc'[s] = cold_row(s)
      BY <2>1 DEF reconcile_cold_start
    <3> QED BY <3>1, <3>2 DEF BackoffRows
  <2> QED BY <1>9, <1>f, <2>1 DEF Reconcile
<1>10. CASE RestartBegin
  <2>1. [svc[d.cur] EXCEPT !.phase = "restart_stop_intent"].phase # "backoff"
    BY <1>s, <1>r DEF ServiceRow
  <2> QED BY <1>10, <1>f, <1>s, <1>w, <2>1 DEF RestartBegin, begin_restart,
          write_row
<1>11. CASE RestartInvoke
  <2>1. [svc[d.cur] EXCEPT !.observed = "starting",
            !.phase = "restart_invoked", !.backoff = FALSE].phase # "backoff"
    BY <1>s, <1>r DEF ServiceRow
  <2> QED BY <1>11, <1>f, <1>s, <1>w, <2>1 DEF RestartInvoke,
          mark_restart_invoked, write_row
<1>12. CASE Restore
  <2>1. [svc[d.cur] EXCEPT !.observed = "restarting", !.phase = "backoff",
                           !.backoff = TRUE].observed = "restarting"
    BY <1>s, <1>r DEF ServiceRow
  <2>2. [svc[d.cur] EXCEPT !.observed = "unknown", !.phase = "unknown",
                           !.backoff = FALSE].phase # "backoff"
    BY <1>s, <1>r DEF ServiceRow
  <2> QED BY <1>12, <1>f, <1>s, <1>w, <2>1, <2>2 DEF Restore, Ignoring,
          restore_restart_backoff, mark_runtime_unknown, write_row,
          write_refreshed
<1>13. CASE JournalChild
  <2>1. [svc[d.cur] EXCEPT !.observed = "starting",
            !.phase = "restart_starting", !.ident = "pid"].phase # "backoff"
    BY <1>s, <1>r DEF ServiceRow
  <2>2. [svc[d.cur] EXCEPT !.observed = "starting",
            !.phase = "starting", !.ident = "pid"].phase # "backoff"
    BY <1>s, <1>r DEF ServiceRow
  <2> QED BY <1>13, <1>d, <1>s, <1>w, <2>1, <2>2 DEF JournalChild,
          mark_starting, mark_restart_starting, write_row, write_refreshed
<1> QED BY <1>1, <1>4, <1>5, <1>6, <1>7, <1>8, <1>9, <1>10, <1>11, <1>12,
        <1>13 DEF Settling

\* Where the columns agree, a step that keeps those read by derived_state
\* leaves them in agreement.
LEMMA SameCurrent ==
    ASSUME Current, Same
    PROVE  Current'
<1>1. derived_state(stack.desired, svc') = derived_state(stack.desired, svc)
  BY DerivedState DEF Same
<1> QED BY <1>1 DEF Current, Same

\* The loop of a starting operation refreshes the stack at its end.
LEMMA StartingIsStale ==
    ASSUME \/ d'.pc \in {"finish", "cand_svc", "deps"} /\ d'.ret = "start"
           \/ d'.pc \in RestartPC \cup {"abort", "dead"}
           \/ d'.pc = "spawn" /\ d'.ret = "due"
    PROVE  Stale(d')
BY DEF Stale, Starting, StartPC, OnlyStartPC, BirthPC

\* From columns that agree to columns that do, or to where every way on
\* refreshes the stack.
LEMMA CurrentNext ==
    ASSUME "store" \notin Faults, HInv, FF, SI, Next, ~Stale(d)
    PROVE  Stale(d') \/ (stack'.exists => Current')
<1>s. /\ d \in Control /\ d.cur \in Services /\ StoreTypeOK
      /\ Order \in Seq(Services) /\ Order # << >>
  BY OrderAssumption DEF HInv, Inv, Sound, Control
<1>u. ASSUME UNCHANGED <<stack, svc>> PROVE stack'.exists => Current'
  BY <1>u DEF SI, Derived, Current
<1>d. ASSUME UNCHANGED dbVars PROVE stack'.exists => Current'
  BY <1>d, <1>u DEF dbVars
<1>f. ASSUME NEW ok, StoreFails(ok) PROVE stack'.exists => Current'
  BY <1>d, <1>f DEF StoreFails
<1>b. ASSUME NEW c \in Control, NEW q \in Seq(Services), q # << >>,
             begin_starting(c, q)
      PROVE  Stale(d')
  <2>1. \/ d'.pc \in {"finish", "cand_svc", "deps"} /\ d'.ret = "start"
        \/ d'.pc = "abort"
    BY <1>b, BeginStartingTo
  <2> QED BY <2>1, StartingIsStale
<1>g. \A p : goto(p) => d'.pc = p /\ d'.ret = d.ret
  BY <1>s DEF goto, Control
<1>1. CASE ~Settling
  <2>1. Same \/ (stack'.exists = stack.exists /\ Current')
    BY <1>1, SettledNext DEF HInv, Settled
  <2> QED BY <2>1, SameCurrent DEF SI, Derived, Same
<1>2. CASE BeginCurrent
  <2>1. CASE begin_starting(d, d.order)
    <3>1. d.order \in Seq(Services)
      BY <1>s DEF Control
    <3>2. d.order # << >>
      <4>1. d.pc = "begin_current" /\ d.pc \in UpPC
        BY <1>2 DEF BeginCurrent, UpPC
      <4> QED BY <4>1 DEF HInv, Held, Route
    <3> QED BY <1>s, <1>b, <2>1, <3>1, <3>2
  <2> QED BY <1>2, <1>f, <2>1 DEF BeginCurrent
<1>3. CASE CandBegin
  <2>1. CASE d' = start_next([d EXCEPT !.order = Order], Order)
    <3> DEFINE c == [d EXCEPT !.order = Order]
    <3>1. c \in Control
      BY <1>s DEF Control
    <3> HIDE DEF c
    <3>2. begin_starting(c, Order)
      BY <2>1 DEF begin_starting, c
    <3> QED BY <1>s, <1>b, <3>1, <3>2
  <2> QED BY <1>3, <1>f, <2>1 DEF CandBegin
<1>4. CASE UpConverge \/ Finalize
  BY <1>4, <1>u, <1>d, <1>f DEF UpConverge, record_noop_up, Finalize,
     finalize_operation_failure
<1>5. CASE Finish
  BY <1>5, FinishCurrent
<1>6. CASE DownBegin
  <2>1. CASE begin_down
    BY <1>s, <2>1 DEF begin_down, Current, StoreTypeOK, StackRow
  <2> QED BY <1>6, <1>f, <2>1 DEF DownBegin
<1>7. CASE DownFinish
  <2>1. CASE finish_down_ok /\ finish_down
    <3>1. d.pc \in DownLoopPC
      BY <1>7 DEF DownFinish, DownLoopPC
    <3>2. \A s \in Services : svc[s].observed = "stopped"
      BY <2>1, <3>1 DEF finish_down_ok, complete, SI, DownRows
    <3>3. derived_state("stopped", svc) = "stopped"
      BY <3>2 DEF derived_state
    <3>4. /\ stack'.desired = "stopped" /\ stack'.observed = "stopped"
          /\ svc' = svc
      BY <1>s, <2>1 DEF finish_down, StoreTypeOK, StackRow
    <3> QED BY <3>3, <3>4 DEF Current
  <2> QED BY <1>7, <1>f, <2>1 DEF DownFinish
<1>8. CASE DownFinal
  <2>1. CASE finalize_down_failure_ok /\ finalize_down_failure
    <3>1. d.pc = "down_final" /\ unfinished
      BY <1>8, <2>1 DEF DownFinal, finalize_down_failure_ok
    <3>2. PICK s \in Services :
             oprow[s].outcome # "success" \/ svc[s].observed = "unknown"
      BY <3>1 DEF SI, DownRows
    <3>3. svc'[s].observed = "unknown"
      BY <1>s, <2>1, <3>2 DEF finalize_down_failure, StoreTypeOK, ServiceRow
    <3>4. stack'.observed = "unknown"
      BY <1>s, <2>1 DEF finalize_down_failure, StoreTypeOK, StackRow
    <3> QED BY <3>3, <3>4 DEF Current, derived_state
  <2> QED BY <1>8, <1>f, <2>1 DEF DownFinal
<1>9. CASE RestartBegin
  <2>1. goto("restart_stop_invoke") => Stale(d')
    BY <1>g, StartingIsStale DEF RestartPC
  <2> QED BY <1>9, <1>f, <2>1 DEF RestartBegin
<1>10. CASE Resume
  <2>1. CASE begin_starting([d EXCEPT !.job = "resume", !.order = Order],
                            Order)
    <3> DEFINE c == [d EXCEPT !.job = "resume", !.order = Order]
    <3>1. c \in Control
      BY <1>s DEF Control, Job
    <3> HIDE DEF c
    <3>2. begin_starting(c, Order)
      BY <2>1 DEF c
    <3> QED BY <1>s, <1>b, <3>1, <3>2
  <2> QED BY <1>10, <1>d, <1>f, <2>1 DEF Resume
<1>11. CASE RestartInvoke
  <2>1. d.ret = "due"
    BY <1>11 DEF RestartInvoke, HInv, Held, Route
  <2>2. goto("spawn") => Stale(d')
    BY <1>g, <2>1, StartingIsStale
  <2> QED BY <1>11, <1>f, <2>2 DEF RestartInvoke
<1>12. CASE Reconcile \/ Restore
  BY <1>12, OtherStale DEF SI
<1>13. CASE JournalChild
  <2>1. d.pc \in BirthPC /\ d.pc \in StartPC
    BY <1>13, Positions DEF JournalChild, BirthPC
  <2>2. d.ret \in {"start", "due"}
    BY <2>1 DEF HInv, Held, Route
  <2> QED BY <2>1, <2>2 DEF Stale, Starting
<1> QED BY <1>1, <1>2, <1>3, <1>4, <1>5, <1>6, <1>7, <1>8, <1>9, <1>10,
        <1>11, <1>12, <1>13 DEF Settling

\* down and shutdown do not lead into a scheduled restart.
LEMMA ListingTo ==
    ASSUME d \in Control, Listing \/ DownFinish \/ DownQuarantine
    PROVE  d'.pc \notin {"spawn", "restore"}
<1>g. \A p : goto(p) => d'.pc = p
  BY DEF goto, Control
<1>a. (return => d'.pc = "idle") /\ (process_ends => d'.pc = "dead")
      /\ \A p : at(p).pc = p
  BY DEF return, process_ends, at
<1>s. \A again : begin_shutdown(again) => d'.pc = "shutdown"
  BY ShutdownTo
<1>n. /\ shutdown_next => d'.pc = "shutdown"
      /\ \A q : d' = [d EXCEPT !.pc = "down_svc", !.todo = q]
                => d'.pc = "down_svc"
      /\ d.pc = "down_svc" /\ d' = [d EXCEPT !.todo = Tail(d.todo)]
         => d'.pc = "down_svc"
      /\ d' = [d EXCEPT !.pc = "down_quarantine"]
         => d'.pc = "down_quarantine"
  BY DEF shutdown_next, Control
<1>1. CASE DownBegin \/ DownSvc
  BY <1>1, <1>g, <1>a, <1>n DEF DownBegin, DownSvc
<1>2. CASE DownStop \/ DownStopped \/ DownFinish
  BY <1>2, <1>g, <1>a, <1>n DEF DownStop, DownStopped, DownFinish
<1>3. CASE DownQuarantine
  BY <1>3, <1>g DEF DownQuarantine
<1>4. CASE ShutdownAbsent \/ ShutdownStop \/ ShutdownRecord
  BY <1>4, <1>g, <1>n DEF ShutdownAbsent, ShutdownStop, ShutdownRecord
<1>5. CASE ShutdownEnd \/ SigTerm \/ Finalize
  BY <1>5, <1>a, <1>s DEF ShutdownEnd, SigTerm, Finalize
<1> QED BY <1>1, <1>2, <1>3, <1>4, <1>5 DEF Listing

\* What happens while a scheduled restart spawns its service or goes back.
LEMMA WhilePending ==
    ASSUME d \in Control, Next, d.pc \in {"spawn", "restore"}, UNCHANGED d
    PROVE  UNCHANGED dbVars
<1>1. ~Reconcile /\ ~Resume /\ ~AbortStart
  BY DEF AbortStart, Abort, AbortOthers, Cleanup, CleanupExit, CleanupMark,
     Survivors, Finalize, Reconcile, Resume
<1>2. ~Supervise
  <2>1. ~Restore
    <3>1. next_due(d).pc \in DuePCs
      BY Leads
    <3> QED BY <3>1 DEF Restore, DuePCs
  <2> QED BY <2>1 DEF Supervise, TickUncertain, TickChild, TickSchedule,
          TickDue, Due, RestartInvoke, Reschedule, DueUnknown
<1>3. ~Stop
  BY DEF Stop, DownBegin, DownSvc, DownStop, DownStopped, DownFinish,
     DownQuarantine, DownFinal, Restart, RestartBegin, RestartStopInvoke,
     Journal, RestartStop, RestartStopped, ShutdownAbsent, ShutdownStop,
     ShutdownRecord, ShutdownEnd
<1>4. ~Prepare /\ ~Depend
  BY DEF Prepare, Up, UpCheck, UpConverge, BeginCurrent, CandBegin, CandSvc,
     MarkLogsPrepared, MarkInstallInvoked, Install, MarkInstalled,
     MarkRootfsUnknown, MarkInstallFailed, Journal, Depend, DepsDone,
     DepAbsent, DepValid, DepUnqualified, DepExitAmbiguous, DepExited,
     DepSchedule
<1>5. StartOne => UNCHANGED dbVars
  BY DEF StartOne, MarkStartInvoked, Spawn, SpawnRefused, JournalChild,
     Contain, Qualify, QualifyFails, QualifyExited, MarkRunning, Finish
<1>6. Environment => UNCHANGED dbVars
  BY DEF Environment, Boot, Accept, SigTerm, Crash, TracerExits, TreeEnds
<1> QED BY <1>1, <1>2, <1>3, <1>4, <1>5, <1>6 DEF Next, DaemonStep

\* A scheduled restart that has begun, or goes back, changes one observed
\* column and leaves the stack alone.
LEMMA PendingNext ==
    ASSUME HInv, SI, Next,
           (d'.pc = "spawn" /\ d'.ret = "due") \/ d'.pc = "restore",
           stack'.exists
    PROVE  Pending'
<1>s. /\ d \in Control /\ d.cur \in Services /\ StoreTypeOK
      /\ svc[d.cur] \in ServiceRow
  BY DEF HInv, Inv, Sound, Control, StoreTypeOK
<1>e. d'.pc \in EnterPC /\ d'.pc \in {"spawn", "restore"}
  BY DEF EnterPC
<1>g. \A p : goto(p) => d'.pc = p /\ d'.ret = d.ret /\ d'.cur = d.cur
  BY <1>s DEF goto, Control
<1>1. CASE UNCHANGED d
  <2>1. UNCHANGED dbVars
    BY <1>e, <1>s, <1>1, WhilePending
  <2> QED BY <1>1, <2>1 DEF SI, Derived, Pending, dbVars
<1>2. CASE Listing \/ DownFinish \/ DownQuarantine
  BY <1>s, <1>e, <1>2, ListingTo
<1>3. CASE RestartInvoke
  <2>1. CASE mark_restart_invoked_ok(d.cur) /\ mark_restart_invoked(d.cur)
             /\ goto("spawn")
    <3>1. d'.cur = d.cur
      BY <1>g, <2>1
    <3>2. svc[d.cur].observed = "restarting"
      BY <1>s, <2>1 DEF mark_restart_invoked_ok, SI, BackoffRows
    <3> DEFINE seen == [svc' EXCEPT ![d.cur].observed = "restarting"]
    <3>3. \A s \in Services : seen[s].observed = svc[s].observed
      BY <1>s, <2>1, <3>2 DEF mark_restart_invoked, write_row, StoreTypeOK,
         ServiceRow
    <3>4. derived_state(stack.desired, seen) = derived_state(stack.desired, svc)
      <4> HIDE DEF seen
      <4> QED BY <3>3, DerivedState
    <3>5. UNCHANGED stack
      BY <2>1 DEF mark_restart_invoked, write_row
    <3>6. ~Stale(d)
      <4>1. d.pc = "restart_invoke"
        BY <1>3 DEF RestartInvoke
      <4> QED BY <4>1 DEF Stale, Starting, StartPC, OnlyStartPC, BirthPC,
              RestartPC, ShutPC
    <3>7. stack.observed = derived_state(stack.desired, svc)
      BY <3>5, <3>6 DEF SI, Derived, Current
    <3> QED BY <3>1, <3>4, <3>5, <3>7 DEF Pending
  <2>2. CASE d' = next_due(d)
    BY <1>s, <1>e, <2>2, Leads DEF DuePCs
  <2> QED BY <1>3, <2>1, <2>2 DEF RestartInvoke
<1>4. CASE MarkStartInvoked
  <2>1. d.ret = "start"
    BY <1>4 DEF MarkStartInvoked, HInv, Held, Route, OnlyStartPC
  <2>2. \A e : start_fails(d, e).pc = "abort"
    BY <1>s, <2>1 DEF start_fails, Control
  <2> QED BY <1>4, <1>e, <1>g, <2>1, <2>2 DEF MarkStartInvoked
<1>5. CASE SpawnRefused
  <2>1. UNCHANGED dbVars /\ d.pc = "spawn" /\ \E e : d' = start_fails(d, e)
    BY <1>5 DEF SpawnRefused
  <2>2. d'.cur = d.cur /\ d.ret = "due"
    BY <1>s, <1>e, <2>1 DEF start_fails, Control
  <2> QED BY <2>1, <2>2 DEF SI, Derived, Pending, dbVars
<1> QED BY <1>e, <1>1, <1>2, <1>3, <1>4, <1>5, Elsewhere DEF HInv, Entering

\* What happens in a down.
DownSteps ==
    \/ DownSvc \/ DownStop \/ DownStopped \/ DownFinish
    \/ DownQuarantine \/ DownFinal

\* Only down leads to its positions.
LEMMA OnlyDown ==
    ASSUME HInv, Next, d'.pc \in DownPC
    PROVE  \/ DownBegin \/ DownSteps
           \/ d.pc \in DownPC /\ UNCHANGED <<dbVars, handle, d>>
<1>s. d \in Control
  BY DEF HInv, Inv, Sound
<1>p. DownPC = {"down_svc", "down_stop", "down_stopped", "down_quarantine",
                "down_final"}
  BY DEF DownPC, DownLoopPC
<1>g. \A p : goto(p) => d'.pc = p
  BY <1>s DEF goto, Control
<1>1. CASE UNCHANGED d
  <2>1. d.pc \in DownPC
    BY <1>1
  <2>2. ~Supervise /\ ~AbortStart /\ ~Reconcile /\ ~Resume
    BY <1>p, <2>1 DEF Supervise, TickUncertain, TickChild, TickSchedule,
       TickDue, Due, RestartInvoke, Restore, Reschedule, DueUnknown,
       AbortStart, Abort, AbortOthers, Cleanup, CleanupExit, CleanupMark,
       Survivors, Finalize, Reconcile, Resume
  <2>3. ~Prepare /\ ~Depend
    BY <1>p, <2>1 DEF Prepare, Up, UpCheck, UpConverge, BeginCurrent,
       CandBegin, CandSvc, MarkLogsPrepared, MarkInstallInvoked, Install,
       MarkInstalled, MarkRootfsUnknown, MarkInstallFailed, Journal,
       Depend, DepsDone, DepAbsent, DepValid, DepUnqualified,
       DepExitAmbiguous, DepExited, DepSchedule
  <2>4. ~StartOne
    BY <1>p, <2>1 DEF StartOne, MarkStartInvoked, Spawn, SpawnRefused,
       JournalChild, Contain, Qualify, QualifyFails, QualifyExited,
       MarkRunning, Finish
  <2>5. Stop => DownSteps
    BY <1>p, <2>1 DEF Stop, DownSteps, DownBegin, Restart, RestartBegin,
       RestartStopInvoke, Journal, RestartStop, RestartStopped,
       ShutdownAbsent, ShutdownStop, ShutdownRecord, ShutdownEnd
  <2>6. Environment => UNCHANGED <<dbVars, handle>>
    <3>1. ~Crash
      BY <1>1, <1>p DEF Crash, process_ends, at
    <3> QED BY <1>p, <2>1, <3>1 DEF Environment, Boot, Accept, SigTerm,
            TracerExits, TreeEnds
  <2> QED BY <1>1, <2>1, <2>2, <2>3, <2>4, <2>5, <2>6 DEF Next, DaemonStep
<1>2. CASE \/ ShutdownAbsent \/ ShutdownStop \/ ShutdownRecord
           \/ ShutdownEnd \/ SigTerm \/ Finalize
  <2>1. d'.pc \in {"shutdown", "shutdown_end", "shutdown_record", "dead",
                   "idle"}
    <3>1. CASE \E again : begin_shutdown(again)
      BY <3>1, ShutdownTo
    <3>2. CASE process_ends \/ return \/ d' = at("dead")
      BY <3>2 DEF process_ends, return, at
    <3>3. CASE shutdown_next \/ goto("shutdown_end")
               \/ goto("shutdown_record")
      BY <1>s, <1>g, <3>3 DEF shutdown_next, Control
    <3> QED BY <1>2, <3>1, <3>2, <3>3 DEF ShutdownAbsent, ShutdownStop,
            ShutdownRecord, ShutdownEnd, SigTerm, Finalize
  <2> QED BY <1>p, <2>1
<1>3. CASE RestartInvoke \/ MarkStartInvoked \/ SpawnRefused
  BY <1>s, <1>g, <1>p, <1>3, Leads DEF RestartInvoke, MarkStartInvoked,
     SpawnRefused, DuePCs
<1>4. d'.pc \in EnterPC
  BY DEF EnterPC
<1> QED BY <1>1, <1>2, <1>3, <1>4, Elsewhere DEF HInv, Entering, Listing,
        DownSteps

\* begin_down settles the rows of the services that are proven absent.
LEMMA DownBegins ==
    ASSUME "store" \notin Faults, HInv, DownBegin
    PROVE  DownRows'
<1>s. /\ d \in Control /\ StoreTypeOK
  BY DEF HInv, Inv, Sound
<1>1. CASE return
  BY <1>1 DEF return, at, DownRows, DownLoopPC
<1>2. CASE begin_down /\ d' = [d EXCEPT !.pc = "down_svc",
                                        !.todo = StopOrder(committed)]
  <2>1. d'.pc = "down_svc"
    BY <1>s, <1>2 DEF Control
  <2>2. ASSUME NEW s \in Services
        PROVE  /\ oprow'[s].outcome # "none"
               /\ oprow'[s].outcome = "success"
                     => svc'[s].observed = "stopped"
    <3>1. oprow'[s].outcome =
             IF down_class(svc[s]) = "stopped" THEN "success"
             ELSE IF down_class(svc[s]) = "unknown" THEN "failure"
             ELSE "null"
      BY <1>2 DEF begin_down, down_oprow
    <3>2. svc'[s].observed = down_class(svc[s])
      BY <1>s, <1>2 DEF begin_down, down_row, StoreTypeOK, ServiceRow
    <3> QED BY <3>1, <3>2
  <2> QED BY <2>1, <2>2 DEF DownRows
<1> QED BY <1>1, <1>2 DEF DownBegin, StoreFails

\* The rows of a down say what has been proven, and a down that fails leaves
\* one that is not.
LEMMA DownRowsNext ==
    ASSUME "store" \notin Faults, HInv, DownRows, Next
    PROVE  DownRows'
<1>0. CASE d'.pc \notin DownPC
  BY <1>0 DEF DownRows, DownPC, DownLoopPC
<1>1. CASE d.pc \in DownPC /\ UNCHANGED <<dbVars, handle, d>>
  BY <1>1 DEF DownRows, dbVars, unfinished
<1>2. CASE DownSteps /\ d'.pc \in DownPC
  <2>s. /\ d \in Control /\ StoreTypeOK
        /\ \A s \in Services : svc[s] \in ServiceRow /\ oprow[s] \in OpRow
        /\ handle \in [Services -> Handle]
    BY DEF HInv, Inv, Sound, StoreTypeOK, WorldTypeOK
  <2>g. \A p : goto(p) => d'.pc = p /\ d'.todo = d.todo
    BY <2>s DEF goto, Control
  <2>h. d.pc \in {"down_stop", "down_stopped"} \/ d.todo # << >>
          => Head(d.todo) \in Services
    <3>1. d.pc \in {"down_stop", "down_stopped"} => d.pc \in LoopPC
      BY DEF LoopPC
    <3> QED BY <2>s, <3>1, HeadTail DEF HInv, Inv, Sound, Control
  <2>r. d.pc \in DownLoopPC =>
          \A s \in Services :
             /\ oprow[s].outcome # "none"
             /\ oprow[s].outcome = "success" => svc[s].observed = "stopped"
    BY DEF DownRows
  <2>l. {"down_svc", "down_stop", "down_stopped"} \subseteq DownLoopPC
        /\ "down_quarantine" \notin DownLoopPC
        /\ "down_final" \notin DownLoopPC
    BY DEF DownLoopPC
  <2>q. ASSUME goto("down_quarantine"), UNCHANGED dbVars,
               \/ ~unfinished
               \/ \E s \in Services : oprow[s].outcome # "success"
               \/ \E s \in Services : handle'[s] = "owned"
        PROVE  DownRows'
    BY <2>g, <2>l, <2>q DEF DownRows, dbVars, unfinished
  <2>n. ASSUME d'.pc = "down_svc", UNCHANGED dbVars, d.pc \in DownLoopPC
        PROVE  DownRows'
    BY <2>r, <2>n DEF DownRows, dbVars
  <2>1. CASE DownSvc
    <3> DEFINE s == Head(d.todo)
    <3>0. s \in Services /\ d.pc = "down_svc"
      BY <2>h, <2>1 DEF DownSvc
    <3>1. CASE /\ set_service_phase_ok(s)
               /\ set_service_phase(s, "stop_invoked")
               /\ goto("down_stop")
      <4>1. d'.pc = "down_stop" /\ d'.todo = d.todo
        BY <2>g, <3>1
      <4>2. \A t \in Services : /\ oprow'[t].outcome = oprow[t].outcome
                                /\ svc'[t].observed = svc[t].observed
        BY <2>s, <3>0, <3>1 DEF set_service_phase, write_row, StoreTypeOK,
           OpRow, ServiceRow
      <4>3. oprow'[s].outcome = "null"
        BY <3>0, <3>1, <4>2 DEF set_service_phase_ok
      <4> QED BY <2>r, <2>l, <3>0, <4>1, <4>2, <4>3 DEF DownRows
    <3>2. CASE handle[s] = "owned" /\ StoreFails(set_service_phase_ok(s))
               /\ goto("down_quarantine") /\ UNCHANGED worldVars
      BY <2>q, <3>0, <3>2 DEF StoreFails, worldVars
    <3>3. CASE d' = [d EXCEPT !.todo = Tail(d.todo)] /\ UNCHANGED dbVars
      <4>1. d'.pc = "down_svc"
        BY <2>s, <3>0, <3>3 DEF Control
      <4> QED BY <2>l, <2>n, <3>0, <3>3, <4>1
    <3>4. CASE /\ svc[s].observed \notin {"stopped", "unknown"}
               /\ d' = [d EXCEPT !.pc = "down_quarantine"]
               /\ UNCHANGED dbVars
      <4>1. oprow[s].outcome # "success"
        BY <2>l, <2>r, <3>0, <3>4
      <4> QED BY <2>q, <3>0, <3>4, <4>1 DEF goto
    <3> HIDE DEF s
    <3>5. \/ /\ set_service_phase_ok(s)
             /\ set_service_phase(s, "stop_invoked")
             /\ goto("down_stop")
          \/ handle[s] = "owned" /\ StoreFails(set_service_phase_ok(s))
             /\ goto("down_quarantine") /\ UNCHANGED worldVars
          \/ d' = [d EXCEPT !.todo = Tail(d.todo)] /\ UNCHANGED dbVars
          \/ /\ svc[s].observed \notin {"stopped", "unknown"}
             /\ d' = [d EXCEPT !.pc = "down_quarantine"]
             /\ UNCHANGED dbVars
      BY <2>1 DEF DownSvc, s
    <3> QED BY <3>1, <3>2, <3>3, <3>4, <3>5
  <2>2. CASE DownStop
    <3> DEFINE s == Head(d.todo)
    <3>0. s \in Services /\ d.pc = "down_stop" /\ UNCHANGED dbVars
          /\ oprow[s].outcome = "null"
      BY <2>h, <2>2 DEF DownStop, DownRows
    <3>1. CASE goto("down_stopped")
      <4>1. d'.pc = "down_stopped" /\ d'.todo = d.todo
        BY <2>g, <3>1
      <4> QED BY <2>r, <2>l, <3>0, <4>1 DEF DownRows, dbVars
    <3>2. CASE goto("down_quarantine")
      BY <2>q, <3>0, <3>2
    <3> QED BY <2>2, <3>1, <3>2 DEF DownStop
  <2>3. CASE DownStopped
    <3> DEFINE s == Head(d.todo)
    <3>0. s \in Services /\ d.pc = "down_stopped"
          /\ oprow[s].outcome = "null"
      BY <2>h, <2>3 DEF DownStopped, DownRows
    <3>1. CASE mark_stopped(s)
               /\ d' = [d EXCEPT !.pc = "down_svc", !.todo = Tail(d.todo)]
      <4>1. d'.pc = "down_svc"
        BY <2>s, <3>1 DEF Control
      <4> DEFINE r == [proven_row(svc[s], "stopped", "stopped")
                         EXCEPT !.desired = "stopped"]
      <4>2. r.observed = "stopped"
        BY <2>s, <3>0 DEF proven_row, ServiceRow
      <4>3. svc' = [svc EXCEPT ![s] = r]
            /\ oprow' = [oprow EXCEPT ![s] = [phase |-> "stopped",
                                              outcome |-> "success"]]
        BY <3>1 DEF mark_stopped, write_refreshed
      <4> HIDE DEF r
      <4>4. \A t \in Services :
               /\ oprow'[t].outcome # "none"
               /\ oprow'[t].outcome = "success"
                     => svc'[t].observed = "stopped"
        BY <2>s, <2>r, <2>l, <3>0, <4>2, <4>3 DEF StoreTypeOK
      <4> QED BY <4>1, <4>4 DEF DownRows
    <3>2. CASE goto("down_quarantine") /\ UNCHANGED dbVars
      BY <2>q, <3>0, <3>2
    <3> QED BY <2>3, <3>1, <3>2 DEF DownStopped, StoreFails
  <2>4. CASE DownFinish
    <3>0. d.pc = "down_svc"
      BY <2>4 DEF DownFinish
    <3>1. goto("down_quarantine") /\ UNCHANGED dbVars /\ ~finish_down_ok
      <4>1. ~return
        BY <1>2 DEF return, at, DownPC, DownLoopPC
      <4> QED BY <2>4, <4>1 DEF DownFinish, StoreFails
    <3>2. ~unfinished \/ \E s \in Services : oprow[s].outcome # "success"
      BY <3>1 DEF finish_down_ok, complete
    <3> QED BY <2>q, <3>1, <3>2
  <2>5. CASE DownQuarantine
    <3>0. d.pc = "down_quarantine"
      BY <2>5 DEF DownQuarantine
    <3>1. ASSUME NEW s \in Services, quarantine(s), UNCHANGED d
          PROVE  DownRows'
      <4>1. mark_runtime_unknown(s)
        BY <3>1 DEF quarantine, Ignoring, StoreFails
      <4>2. svc'[s].observed = "unknown"
        BY <2>s, <4>1 DEF mark_runtime_unknown, write_refreshed,
           StoreTypeOK, ServiceRow
      <4> QED BY <2>l, <3>0, <3>1, <4>2 DEF DownRows
    <3>2. CASE /\ \A s \in Services : handle[s] # "owned"
               /\ goto("down_final") /\ UNCHANGED <<dbVars, worldVars>>
      <4>1. d'.pc = "down_final"
        BY <2>g, <3>2
      <4> QED BY <2>l, <3>0, <3>2, <4>1 DEF DownRows, dbVars, unfinished
    <3> QED BY <2>5, <3>1, <3>2 DEF DownQuarantine
  <2>6. CASE DownFinal
    BY <1>2, <2>6 DEF DownFinal, return, at, DownPC, DownLoopPC
  <2> QED BY <1>2, <2>1, <2>2, <2>3, <2>4, <2>5, <2>6 DEF DownSteps
<1> QED BY <1>0, <1>1, <1>2, DownBegins, OnlyDown

\* Every step keeps SI while no transaction fails.
LEMMA NextSI ==
    ASSUME "store" \notin Faults, HInv, FF, FF', SI, [Next]_vars
    PROVE  SI'
<1>1. CASE UNCHANGED vars
  BY <1>1 DEF vars, dbVars, worldVars, SI, BackoffRows, DownRows, Derived,
     Stale, Starting, Current, Pending, unfinished
<1>2. CASE Next
  <2>1. BackoffRows'
    BY <1>2, BackoffNext DEF HInv, SI
  <2>2. DownRows'
    BY <1>2, DownRowsNext DEF SI
  <2>3. Stale(d') \/ (stack'.exists => Current')
    BY <1>2, CurrentNext, StaleNext DEF SI
  <2>4. Derived'
    BY <1>2, <2>3, PendingNext DEF Derived
  <2> QED BY <2>1, <2>2, <2>4 DEF SI
<1> QED BY <1>1, <1>2

\* SPECIFICATION.md section 7: between requests the state of the stack is the
\* one derived from its services.  Every transaction that changes a service
\* without refresh_stack_state is followed by one that refreshes before the
\* daemon serves the next request, for every set of services, dependency
\* order and restart policy and every set of faults but that of a transaction.
THEOREM StatusDerivedHolds ==
    "store" \notin Faults => (Spec => []StatusDerived)
<1> SUFFICES ASSUME "store" \notin Faults PROVE Spec => []StatusDerived
  OBVIOUS
<1>1. Init => FF
  BY InitFF
<1>2. HInv /\ FF /\ [Next]_vars => FF'
  BY NextFF
<1>3. Init => SI
  <2> SUFFICES ASSUME Init PROVE SI
    OBVIOUS
  <2>1. d.pc = "dead"
    BY DEF Init, at
  <2>2. stack.exists = FALSE /\ \A s \in Services : svc[s].phase = "none"
    BY DEF Init, StoreInit
  <2> QED BY <2>1, <2>2 DEF SI, BackoffRows, DownRows, Derived, DownLoopPC
<1>4. HInv /\ FF /\ FF' /\ SI /\ [Next]_vars => SI'
  BY NextSI
<1>5. SI => StatusDerived
  <2> SUFFICES ASSUME SI, d.pc = "idle", stack.exists
               PROVE  stack.observed = derived_state(stack.desired, svc)
    BY DEF StatusDerived
  <2>1. ~Stale(d)
    BY DEF Stale, Starting, StartPC, OnlyStartPC, BirthPC, RestartPC, ShutPC
  <2> QED BY <2>1 DEF SI, Derived, Current
<1> QED BY <1>1, <1>2, <1>3, <1>4, <1>5, HeldInvariance, PTL DEF Spec
=============================================================================
