----------------------------- MODULE Candidates -----------------------------
(***************************************************************************)
(* The candidates of one stack over many requests: every failed `up` with  *)
(* its rows, every rootfs generation of every service, definitions with    *)
(* different service sets.  begin_up, begin_candidate_recovery and         *)
(* commit_up of store.rs decide from that history which rootfs is reused,  *)
(* replaced, retired, or blocks the stack; prepare_candidate of runtime.rs *)
(* installs what they ask for, and the daemon may be killed between any    *)
(* two steps.  Module Store keeps only the newest candidate of a fixed     *)
(* service set; NewestDecides below is why that is enough.                 *)
(*                                                                         *)
(* What happens to sessions is abstracted to a service's row: quiet        *)
(* (stopped or failed, no identity), busy, backoff or unknown.             *)
(***************************************************************************)
EXTENDS Naturals, Sequences

CONSTANTS
    Services,
    Ids,          \* request ids, compared by ORDER BY request_id
    Defs, NoDef,  \* definitions: source and base directory
    ServicesOf,   \* the services of each definition
    Faults        \* the kinds of failure the environment may produce

ASSUME IdsAssumption == Ids \subseteq Nat \ {0}
ASSUME DefsAssumption ==
    /\ NoDef \notin Defs
    /\ ServicesOf \in [Defs -> (SUBSET Services) \ {{}}]

CandidateFaults == {"crash", "store", "io", "install", "start"}
ASSUME CandidateFaultsAssumption == Faults \subseteq CandidateFaults

VARIABLES
    stack,   \* the stacks row: desired state, committed revision, definition
    active,  \* the services whose row is active
    svc,     \* the state of each services row
    gen,     \* rootfs_generations of each service, oldest first
    ops,     \* the `up` operations with a candidate, by request id
    d,       \* the daemon: position, request, service at hand, services to do
    disk,    \* history: what really is under the alias of each generation;
             \* "none" before its install
    cand     \* history: the newest failed candidate since the last commit

dbVars == <<stack, active, svc, gen, ops, cand>>
vars == <<stack, active, svc, gen, ops, d, disk, cand>>

-----------------------------------------------------------------------------
Generation == [state : {"preparing", "installed", "absent", "unknown"},
               role : {"candidate", "current", "retired"}]
Row == [gen : Nat,
        phase : {"none", "intent", "logs_prepared", "install_invoked",
                 "installed", "start_invoked", "running",
                 "failed_pre_effect", "failed", "unknown"},
        outcome : {"none", "null", "success", "failure"}]
NoRow == [gen |-> 0, phase |-> "none", outcome |-> "none"]
Operation == [def : Defs \cup {NoDef}, revision : Nat,
              outcome : {"none", "null", "success", "failure"},
              row : [Services -> Row]]
NoOp == [def |-> NoDef, revision |-> 0, outcome |-> "none",
         row |-> [s \in Services |-> NoRow]]

Init ==
    /\ stack = [desired |-> "running", revision |-> 0, def |-> NoDef]
    /\ active = {}
    /\ svc = [s \in Services |-> "quiet"]
    /\ gen = [s \in Services |-> <<>>]
    /\ ops = [i \in Ids |-> NoOp]
    /\ d \in [pc : {"idle"}, id : {0}, cur : Services, todo : {{}},
              err : {"none"}]
    /\ disk = [s \in Services |-> <<>>]
    /\ cand = 0

latest(s) == Len(gen[s])
unfinished == \E i \in Ids : ops[i].outcome = "null"
quiet == \A s \in active : svc[s] = "quiet"
names(i) == {s \in Services : ops[i].row[s].gen # 0}

\* The operation being served: the rows, and the row of the service at hand.
rows == ops[d.id].row
row == rows[d.cur]

goto(p) == d' = [d EXCEPT !.pc = p]
error(e) == d' = [d EXCEPT !.pc = "record_failed", !.err = e]

-----------------------------------------------------------------------------
(* What the history allows *)

\* Mutant: an older generation will do.
MutTerminalAnyGeneration(i) ==
    /\ names(i) = active
    /\ \A s \in active :
          LET g == gen[s][ops[i].row[s].gen]
          IN  \/ g.state \in {"installed", "absent"} /\ g.role # "current"
              \/ /\ g.state = "preparing" /\ g.role = "candidate"
                 /\ ops[i].row[s].phase = "failed_pre_effect"

terminal_candidate_allows_fresh_up(i) ==
    /\ names(i) = active
    /\ \A s \in active :
          LET r == ops[i].row[s]
              g == gen[s][r.gen]
          IN  /\ r.gen = latest(s)
              /\ \/ /\ g.state \in {"installed", "absent"}
                    /\ g.role \in {"candidate", "retired"}
                 \/ /\ g.state = "preparing"
                    /\ g.role = "candidate"
                    /\ r.phase = "failed_pre_effect"

failed_candidates ==
    {i \in Ids : /\ ops[i].outcome = "failure"
                 /\ ops[i].revision = stack.revision + 1}
terminal_candidates ==
    {i \in failed_candidates : terminal_candidate_allows_fresh_up(i)}

\* begin_candidate_recovery: recover an exact earlier candidate, let begin_up
\* make a fresh one (NotFound), or refuse (Conflict).
recovery(def) ==
    IF active = {} THEN "not_found"
    ELSE IF stack.revision > 0 /\ active # ServicesOf[def] THEN "conflict"
    ELSE IF ~quiet THEN "conflict"
    ELSE IF failed_candidates = {} THEN "not_found"
    ELSE IF terminal_candidates = {} THEN "conflict"
    ELSE IF \A i \in terminal_candidates : ops[i].def # def THEN "not_found"
    ELSE "recover"

begin_up_ok(def) ==
    active # {} =>
        /\ stack.revision > 0 => active = ServicesOf[def]
        /\ quiet
        /\ stack.revision = 0 => terminal_candidates # {}

\* The checks of `up` before prepare_candidate.  A committed definition is
\* converged on its current generations (Converge), never prepared again.
up_ok(def) ==
    /\ \A s \in active : svc[s] # "unknown"
    /\ def # stack.def
    /\ stack.revision > 0 => stack.desired = "stopped"

\* Mutant: whatever the candidate left on disk is reused.
MutReuseInstalled(s) == gen[s][latest(s)].role = "candidate"

reuse_installed(s) ==
    /\ gen[s][latest(s)].state = "installed"
    /\ gen[s][latest(s)].role = "candidate"

-----------------------------------------------------------------------------
(* prepare_candidate *)

begin(id, def, reused, gens) ==
    LET new == ServicesOf[def] \ reused
    IN  /\ gen' = [s \in Services |->
                     IF s \in new
                     THEN Append(gens[s], [state |-> "preparing",
                                           role |-> "candidate"])
                     ELSE gens[s]]
        /\ disk' = [s \in Services |->
                      IF s \in new THEN Append(disk[s], "none") ELSE disk[s]]
        /\ ops' = [ops EXCEPT ![id] =
             [def |-> def, revision |-> stack.revision + 1, outcome |-> "null",
              row |-> [s \in Services |->
                 IF s \in new
                 THEN [gen |-> latest(s) + 1, phase |-> "intent",
                       outcome |-> "null"]
                 ELSE IF s \in reused
                 THEN [gen |-> latest(s), phase |-> "installed",
                       outcome |-> "null"]
                 ELSE NoRow]]]
        /\ stack' = [stack EXCEPT !.desired = "running"]
        /\ active' = ServicesOf[def]
        /\ svc' = [s \in Services |->
                     IF s \in ServicesOf[def] THEN "busy" ELSE svc[s]]
        /\ d' = [d EXCEPT !.pc = "next", !.id = id, !.todo = ServicesOf[def]]
        /\ UNCHANGED cand

\* Installed candidates are reused; the others are absent, and replaced.
begin_candidate_recovery(id, def) ==
    LET reused == {s \in active : reuse_installed(s)}
    IN  begin(id, def, reused,
              [s \in Services |->
                 IF s \in active \ reused
                 THEN [gen[s] EXCEPT ![latest(s)] =
                         [state |-> "absent", role |-> "retired"]]
                 ELSE gen[s]])

\* Every candidate of an old or new service is retired.
begin_up(id, def) ==
    begin(id, def, {},
          [s \in Services |->
             IF s \in active \cup ServicesOf[def]
             THEN [g \in 1..latest(s) |->
                     IF gen[s][g].role = "candidate"
                     THEN [gen[s][g] EXCEPT !.role = "retired"] ELSE gen[s][g]]
             ELSE gen[s]])

Begin(id, def) ==
    /\ d.pc = "idle"
    /\ ops[id] = NoOp
    /\ ~unfinished
    /\ up_ok(def)
    /\ \/ recovery(def) = "recover" /\ begin_candidate_recovery(id, def)
       \/ /\ recovery(def) = "not_found" /\ begin_up_ok(def)
          /\ begin_up(id, def)

\* The loop over the start order (its order is a matter of module Runtime).
NextService ==
    /\ d.pc = "next"
    /\ \E s \in d.todo :
          d' = [d EXCEPT !.cur = s, !.todo = @ \ {s},
                  !.pc = IF rows[s].phase = "installed" THEN "start"
                         ELSE "logs"]
    /\ UNCHANGED <<dbVars, disk>>

\* set_service_phase on the row of the service at hand.
set_phase(p) == ops' = [ops EXCEPT ![d.id].row[d.cur].phase = p]
set_generation(state) ==
    gen' = [gen EXCEPT ![d.cur][row.gen].state = state]

\* A step of install_and_start_candidate that only writes a phase; it, or
\* what precedes it, may fail.
Mark(pc, phase, then, faults) ==
    /\ d.pc = pc
    /\ \/ set_phase(phase) /\ goto(then)
       \/ faults \cap Faults # {} /\ error("failed") /\ UNCHANGED ops
    /\ UNCHANGED <<stack, active, svc, gen, cand, disk>>

MarkLogsPrepared == Mark("logs", "logs_prepared", "invoke", {"io", "store"})
MarkInstallInvoked == Mark("invoke", "install_invoked", "install", {"store"})
\* After open_logs and ensure_dependencies_running.
MarkStartInvoked == Mark("start", "start_invoked", "spawn",
                         {"io", "start", "store"})

\* engine.install under the alias of the row's generation.
installed(left) ==
    disk' = [disk EXCEPT ![d.cur][row.gen] =
               IF @ = "none" THEN left ELSE "twice"]
Install ==
    /\ d.pc = "install"
    /\ \/ installed("complete") /\ goto("mark_installed")
       \/ /\ "install" \in Faults
          /\ \E left \in {"empty", "partial", "complete"} : installed(left)
          /\ goto("mark_rootfs_unknown")
    /\ UNCHANGED dbVars

MarkInstalled ==
    /\ d.pc = "mark_installed"
    /\ \/ set_generation("installed") /\ set_phase("installed") /\ goto("start")
       \/ "store" \in Faults /\ error("failed") /\ UNCHANGED <<gen, ops>>
    /\ UNCHANGED <<stack, active, svc, cand, disk>>

MarkRootfsUnknown ==
    /\ d.pc = "mark_rootfs_unknown"
    /\ \/ set_generation("unknown") /\ goto("mark_unknown")
       \/ "store" \in Faults /\ error("failed") /\ UNCHANGED gen
    /\ UNCHANGED <<stack, active, svc, ops, cand, disk>>

\* Mutant: every failure counts as one before the install.
MutMarkServiceFailed(s, unknown) ==
    /\ ops' = [ops EXCEPT ![d.id].row[s].phase = "failed_pre_effect",
                          ![d.id].row[s].outcome = "failure"]
    /\ svc' = [svc EXCEPT ![s] = IF unknown THEN "unknown" ELSE "quiet"]

mark_service_failed(s, unknown) ==
    /\ ops' = [ops EXCEPT ![d.id].row[s] =
                 [gen |-> @.gen, outcome |-> "failure",
                  phase |-> IF unknown THEN "unknown"
                            ELSE IF @.phase \in {"intent", "logs_prepared"}
                            THEN "failed_pre_effect" ELSE "failed"]]
    /\ svc' = [svc EXCEPT ![s] = IF unknown THEN "unknown" ELSE "quiet"]

\* The failed install; abort_start_operation then records it once more.
MarkUnknown ==
    /\ d.pc = "mark_unknown"
    /\ \/ mark_service_failed(d.cur, TRUE)
       \/ "store" \in Faults /\ UNCHANGED <<ops, svc>>
    /\ error("failed")
    /\ UNCHANGED <<stack, active, gen, cand, disk>>

\* start_operation_child: qualified and marked running, or proven absent, or
\* ambiguous.
Spawn ==
    /\ d.pc = "spawn"
    /\ \/ /\ ops' = [ops EXCEPT ![d.id].row[d.cur].phase = "running",
                                ![d.id].row[d.cur].outcome = "success"]
          /\ goto(IF d.todo = {} THEN "commit" ELSE "next")
       \/ /\ "start" \in Faults
          /\ \E e \in {"failed", "unknown"} : error(e)
          /\ UNCHANGED ops
    /\ UNCHANGED <<stack, active, svc, gen, cand, disk>>

\* Mutant: the generations of the services are not switched together.
MutCommitGen(s) ==
    IF s = d.cur
    THEN [gen[s] EXCEPT ![rows[s].gen].role = "current"] ELSE gen[s]

commit_gen(s) ==
    [g \in 1..latest(s) |->
       IF g = rows[s].gen THEN [gen[s][g] EXCEPT !.role = "current"]
       ELSE IF gen[s][g].role = "current"
       THEN [gen[s][g] EXCEPT !.role = "retired"] ELSE gen[s][g]]

commit_up ==
    /\ \A s \in names(d.id) :
          /\ rows[s].outcome = "success"
          /\ gen[s][rows[s].gen] = [state |-> "installed", role |-> "candidate"]
    /\ gen' = [s \in Services |->
                 IF s \in names(d.id) THEN commit_gen(s) ELSE gen[s]]
    /\ stack' = [desired |-> "running", revision |-> ops[d.id].revision,
                 def |-> ops[d.id].def]
    /\ ops' = [ops EXCEPT ![d.id].outcome = "success"]
    /\ cand' = 0
    /\ goto("idle")
    /\ UNCHANGED <<active, svc>>

Commit ==
    /\ d.pc = "commit"
    /\ \/ commit_up
       \/ "store" \in Faults /\ error("failed") /\ UNCHANGED dbVars
    /\ UNCHANGED disk

-----------------------------------------------------------------------------
(* abort_start_operation.  Its journal writes are ignored when they fail. *)

Record(s, unknown) ==
    /\ \/ mark_service_failed(s, unknown)
       \/ "store" \in Faults /\ UNCHANGED <<ops, svc>>
    /\ UNCHANGED <<stack, active, gen, cand, disk>>

RecordFailed ==
    /\ d.pc = "record_failed"
    /\ Record(d.cur, d.err = "unknown")
    /\ d' = [d EXCEPT !.pc = "abort_others"]

\* d.todo is now what the loop had not reached.
AbortOthers ==
    /\ d.pc = "abort_others"
    /\ \E s \in d.todo :
          /\ Record(s, FALSE)
          /\ d' = [d EXCEPT !.todo = @ \ {s}]

\* stop_started_after_failed_up: each one is proven stopped or quarantined.
StopStarted ==
    /\ d.pc = "abort_others" /\ d.todo = {}
    /\ LET started == {s \in names(d.id) : rows[s].outcome = "success"}
       IN  \E bad \in SUBSET (IF "start" \in Faults THEN started ELSE {}) :
             /\ svc' = [s \in Services |->
                          IF s \in bad THEN "unknown"
                          ELSE IF s \in started THEN "quiet" ELSE svc[s]]
             /\ ops' = [ops EXCEPT ![d.id].row =
                          [s \in Services |->
                             IF s \in bad
                             THEN [@[s] EXCEPT !.phase = "unknown",
                                               !.outcome = "failure"]
                             ELSE @[s]]]
    /\ goto("finalize")
    /\ UNCHANGED <<stack, active, gen, cand, disk>>

\* Without a failure row, or with a row left open, nothing is finalized and
\* the operation stays unfinished until a cold start.
Finalize ==
    /\ d.pc = "finalize"
    /\ \/ /\ \E s \in Services : rows[s].outcome = "failure"
          /\ \A s \in Services : rows[s].outcome # "null"
          /\ ops' = [ops EXCEPT ![d.id].outcome = "failure"]
          /\ cand' = d.id
       \/ /\ \/ "store" \in Faults
             \/ \A s \in Services : rows[s].outcome # "failure"
             \/ \E s \in Services : rows[s].outcome = "null"
          /\ UNCHANGED <<ops, cand>>
    /\ d' = [d EXCEPT !.pc = "idle", !.err = "none"]
    /\ UNCHANGED <<stack, active, svc, gen, disk>>

-----------------------------------------------------------------------------
(* Around the candidates *)

\* down, and up, restart or resume on committed generations: no candidate is
\* touched; what is quiet or unknown stays so unless it is started.
Down ==
    /\ d.pc = "idle" /\ ~unfinished /\ active # {}
    /\ stack' = [stack EXCEPT !.desired = "stopped"]
    /\ \E stopped \in SUBSET active :
          /\ "start" \notin Faults => stopped = active
          /\ svc' = [s \in Services |->
                       IF svc[s] \notin {"busy", "backoff"} \/ s \notin active
                       THEN svc[s]
                       ELSE IF s \in stopped THEN "quiet" ELSE "unknown"]
    /\ UNCHANGED <<active, gen, ops, d, disk, cand>>

Converge ==
    /\ d.pc = "idle" /\ ~unfinished /\ stack.revision > 0
    /\ \A s \in active : svc[s] # "unknown"
    /\ stack' = [stack EXCEPT !.desired = "running"]
    /\ \E now \in {"busy"} \cup
          (IF "start" \in Faults THEN {"quiet", "unknown"} ELSE {}) :
          svc' = [s \in Services |-> IF s \in active THEN now ELSE svc[s]]
    /\ UNCHANGED <<active, gen, ops, d, disk, cand>>

\* tick: an exit, a restart that is scheduled, made or given up.
Tick(s) ==
    /\ d.pc = "idle" /\ "start" \in Faults
    /\ s \in active /\ svc[s] \in {"busy", "backoff"}
    /\ \E now \in {"quiet", "backoff", "busy", "unknown"} :
          svc' = [svc EXCEPT ![s] = now]
    /\ UNCHANGED <<stack, active, gen, ops, d, disk, cand>>

Crash ==
    /\ "crash" \in Faults
    /\ d.pc # "dead"
    /\ d' = [d EXCEPT !.pc = "dead", !.err = "none"]
    \* An install that was running is cut off.
    /\ IF d.pc = "install"
       THEN installed("partial")
       ELSE UNCHANGED disk
    /\ UNCHANGED dbVars

\* Mutants: an invoked install is taken for one that never happened; a
\* candidate that was only planned is kept.
MutColdGenKeeps(phase, g) ==
    IF phase = "install_invoked" THEN [g EXCEPT !.state = "unknown"] ELSE g
MutColdGen(phase, g) ==
    IF phase \in {"intent", "logs_prepared", "install_invoked"}
    THEN [state |-> "absent", role |-> "retired"] ELSE g

cold_gen(phase, g) ==
    IF phase \in {"intent", "logs_prepared"}
    THEN [state |-> "absent", role |-> "retired"]
    ELSE IF phase = "install_invoked" THEN [g EXCEPT !.state = "unknown"]
    ELSE g

\* reconcile_cold_start on the unfinished operation and on active rows.
ColdStart ==
    /\ d.pc = "dead"
    /\ LET open(i, s) == /\ ops[i].outcome = "null"
                         /\ ops[i].row[s].outcome = "null"
           safe(phase) == phase \in {"intent", "logs_prepared", "installed"}
       IN  /\ gen' = [s \in Services |->
                        [g \in 1..latest(s) |->
                           IF \E i \in Ids : open(i, s) /\ ops[i].row[s].gen = g
                           THEN LET i == CHOOSE i \in Ids : open(i, s)
                                IN  cold_gen(ops[i].row[s].phase, gen[s][g])
                           ELSE gen[s][g]]]
           /\ svc' = [s \in Services |->
                        IF \E i \in Ids : open(i, s)
                        THEN LET i == CHOOSE i \in Ids : open(i, s)
                             IN  IF safe(ops[i].row[s].phase) THEN "quiet"
                                 ELSE "unknown"
                        ELSE IF s \in active /\ svc[s] = "busy" THEN "unknown"
                        ELSE svc[s]]
           /\ ops' = [i \in Ids |->
                        IF ops[i].outcome # "null" THEN ops[i]
                        ELSE [ops[i] EXCEPT !.outcome = "failure", !.row =
                                [s \in Services |->
                                   IF ~open(i, s) THEN @[s]
                                   ELSE [gen |-> @[s].gen,
                                         phase |-> IF safe(@[s].phase)
                                                   THEN "failed" ELSE "unknown",
                                         outcome |-> "failure"]]]]
           /\ cand' = IF unfinished
                      THEN CHOOSE i \in Ids : ops[i].outcome = "null" ELSE cand
    /\ d' = [d EXCEPT !.pc = "idle"]
    /\ UNCHANGED <<stack, active, disk>>

Next ==
    \/ \E id \in Ids, def \in Defs : Begin(id, def)
    \/ NextService \/ MarkLogsPrepared \/ MarkInstallInvoked \/ Install
    \/ MarkInstalled \/ MarkRootfsUnknown \/ MarkUnknown \/ MarkStartInvoked
    \/ Spawn \/ Commit
    \/ RecordFailed \/ AbortOthers \/ StopStarted \/ Finalize
    \/ Down \/ Converge \/ \E s \in Services : Tick(s)
    \/ Crash \/ ColdStart

Spec == Init /\ [][Next]_vars

-----------------------------------------------------------------------------
(* Properties *)

\* SPECIFICATION.md: an effect is never retried.  No alias sees a second
\* install; a rootfs is called installed, reused or started only after its own
\* install completed, and called absent only if it was never invoked.
RootfsTruth ==
    \A s \in Services :
        /\ \A g \in 1..latest(s) :
              /\ disk[s][g] # "twice"
              /\ gen[s][g].state = "installed" => disk[s][g] = "complete"
              /\ gen[s][g].state = "absent" => disk[s][g] = "none"
        /\ \A i \in Ids :
              ops[i].row[s].phase \in {"installed", "start_invoked", "running"}
              => disk[s][ops[i].row[s].gen] = "complete"

\* A rootfs left partial by an install blocks the stack: whatever requests
\* follow, in whatever order, its generation stays the newest of an active
\* service, so that no later candidate hides it from terminal_candidate_*.
AmbiguityStays ==
    \A s \in Services : \A g \in 1..latest(s) :
        disk[s][g] = "partial" => s \in active /\ g = latest(s)

\* begin_candidate_recovery looks at all failed candidates in the order of
\* their request ids and takes the first that fits; its doc comment, and
\* module Store, speak of the newest.  The verdict is the same.
NewestDecides ==
    \A def \in Defs :
        active # {} /\ quiet /\ ~unfinished
        /\ (stack.revision > 0 => active = ServicesOf[def])
        => recovery(def) =
             IF cand = 0 THEN "not_found"
             ELSE IF ~terminal_candidate_allows_fresh_up(cand) THEN "conflict"
             ELSE IF ops[cand].def # def THEN "not_found"
             ELSE "recover"

\* A failed update leaves the committed stack alone: each of its services has
\* exactly one current generation, installed, and the committed definition
\* names exactly the active services.
CommittedSurvives ==
    stack.revision > 0 =>
        /\ active = ServicesOf[stack.def]
        /\ \A s \in active :
              \E g \in 1..latest(s) :
                 /\ gen[s][g].role = "current"
                 /\ disk[s][g] = "complete"
                 /\ \A h \in 1..latest(s) :
                       gen[s][h].role = "current" => h = g

\* A corrected manifest can always be tried: if no install was cut short or
\* lost its record, and nothing runs, no sequence of failed candidates,
\* retries and cold starts leaves the stack refusing a definition.
CorrectableCandidate ==
    /\ ~unfinished /\ quiet
    /\ \A s \in active :
          \/ gen[s][latest(s)].state = "installed"
          \/ gen[s][latest(s)].state # "unknown" /\ disk[s][latest(s)] = "none"
    => \A def \in Defs :
          (stack.revision > 0 => active = ServicesOf[def])
          => \/ recovery(def) = "recover"
             \/ recovery(def) = "not_found" /\ begin_up_ok(def)
=============================================================================
