------------------------------- MODULE Fleet -------------------------------
(***************************************************************************)
(* Several stacks under one daemon (runtime.rs): initialize resumes the    *)
(* stacks that were stopped gracefully one after the other, in the order   *)
(* of their names; the first resume that fails ends the daemon, whose drop *)
(* stops what had been resumed, and runit starts the next daemon.          *)
(*                                                                         *)
(* What one stack does by itself is the subject of module Runtime.  Here a *)
(* service is its journal row and the handle of this daemon; the start of  *)
(* a stack is one step per service, its abort and its shutdown are one     *)
(* step per stack.                                                         *)
(***************************************************************************)
EXTENDS Naturals

CONSTANTS
    N,       \* stacks 1..N, in the order of their names
    K,       \* services 1..K of each stack, in start order
    Faults   \* the kinds of failure the environment may produce

ASSUME SizeAssumption == N \in Nat \ {0} /\ K \in Nat \ {0}
ASSUME FleetFaultsAssumption ==
    Faults \subseteq {"crash", "start", "stop", "exit", "signal"}

Stacks == 1..N
Services == 1..K

VARIABLES
    desired,   \* the stacks rows
    svc,       \* the services rows: stopped, failed, proven (stopped with
               \* phase shutdown_proven), intent (start_intent), starting,
               \* running, backoff or unknown
    handle,    \* children and uncertain_children of the daemon
    d,         \* the daemon: position, and the stack at hand
    harmed     \* history: stacks with a failure of their own since their up

vars == <<desired, svc, handle, d, harmed>>

all(v) == [s \in Services |-> v]

Init ==
    /\ desired = [k \in Stacks |-> "stopped"]
    /\ svc = [k \in Stacks |-> all("stopped")]
    /\ handle = [k \in Stacks |-> all("none")]
    /\ d = [pc |-> "serve", at |-> 1]
    /\ harmed = {}

-----------------------------------------------------------------------------
(* initialize *)

Boot ==
    /\ d.pc = "dead"
    /\ d' = [d EXCEPT !.pc = "cold_start"]
    /\ UNCHANGED <<desired, svc, handle, harmed>>

\* reconcile_cold_start
cold_row(r) ==
    CASE r = "intent" -> "proven"
      [] r \in {"starting", "running"} -> "unknown"
      [] OTHER -> r
ColdStart ==
    /\ d.pc = "cold_start"
    /\ svc' = [k \in Stacks |-> [s \in Services |-> cold_row(svc[k][s])]]
    /\ handle' = [k \in Stacks |-> all("none")]
    /\ d' = [pc |-> "resume", at |-> 1]
    /\ UNCHANGED <<desired, harmed>>

\* resume_gracefully_stopped: all services of the stack, or none.
resumable(k) == desired[k] = "running" /\ svc[k] = all("proven")

Resume ==
    /\ d.pc = "resume" /\ d.at <= N
    /\ IF resumable(d.at)
       THEN /\ svc' = [svc EXCEPT ![d.at] = all("intent")]
            /\ d' = [d EXCEPT !.pc = "start"]
       ELSE UNCHANGED svc /\ d' = [d EXCEPT !.at = @ + 1]
    /\ UNCHANGED <<desired, handle, harmed>>

\* The services of the stack at hand that are not started yet.
todo == {s \in Services : svc[d.at][s] = "intent"}
next == CHOOSE s \in todo : \A t \in todo : s <= t
current == CHOOSE s \in Services : svc[d.at][s] = "starting"

\* mark_start_invoked, or the end of the loop.
StartNext ==
    /\ d.pc = "start"
    /\ IF todo = {}
       THEN d' = [pc |-> "resume", at |-> d.at + 1] /\ UNCHANGED svc
       ELSE /\ svc' = [svc EXCEPT ![d.at][next] = "starting"]
            /\ d' = [d EXCEPT !.pc = "spawn"]
    /\ UNCHANGED <<desired, handle, harmed>>

Spawn ==
    /\ d.pc = "spawn"
    /\ svc' = [svc EXCEPT ![d.at][current] = "running"]
    /\ handle' = [handle EXCEPT ![d.at][current] = "child"]
    /\ d' = [d EXCEPT !.pc = "start"]
    /\ UNCHANGED <<desired, harmed>>

\* The failed start itself: nothing was left behind, or the child ended
\* without proof, or it is kept as an uncertain child.
start_fates ==
    [row : {"failed", "unknown"}, handle : {"none"}]
        \cup {[row |-> "unknown", handle |-> "uncertain"]}

\* A dependency that did not pass validate_owned_service_running: it exited,
\* and may have a restart deadline, or it cannot be validated.
gone_fates ==
    [row : {"failed", "backoff", "unknown"}, handle : {"none"}]
        \cup {[row |-> "unknown", handle |-> "uncertain"]}

\* Mutant: the rows of the stack are left as they were.
MutAbortFates(s, failed, bad, gone) ==
    {[row |-> "proven", handle |-> "none"]}

\* abort_start_operation and stop_started_after_failed_up: what had been
\* started is stopped in reverse order and recorded by record_exit, which
\* writes failed for a wanted service.  bad is the least service stopped
\* properly.  The one before it, if any, could not be stopped: its error is
\* recorded, ambiguous or not; for a dependency that is gone it is
\* IdentityChanged.  Its predecessors are quarantined, as far as they are
\* owned.  gone is that dependency, 0 if the start itself failed.
abort_fates(s, failed, bad, gone) ==
    CASE s = gone /\ s + 1 < bad -> gone_fates
      [] s = gone /\ s + 1 = bad ->
            [row : {"unknown"}, handle : {"none", "uncertain"}]
      [] s # gone /\ s + 1 < bad -> {[row |-> "unknown", handle |-> "uncertain"]}
      [] s # gone /\ s + 1 = bad ->
            [row : {"failed", "unknown"}, handle : {"uncertain"}]
      [] s = failed /\ gone = 0 -> start_fates
      [] OTHER -> {[row |-> "failed", handle |-> "none"]}

\* Mutant: a runtime that was never returned is dropped without a shutdown.
MutDropShuts(h) == FALSE

\* Drop of Runtime calls shutdown only if there is some handle.
drop_shuts(h) == \E k \in Stacks, s \in Services : h[k][s] # "none"

\* The error leaves initialize, which drops the runtime.
abort_start(failed, gone) ==
    /\ \E bad \in (gone + 1)..failed :
          /\ bad = gone + 1 \/ "stop" \in Faults
          /\ \E fate \in [Services -> UNION {abort_fates(s, failed, bad, gone) :
                                             s \in Services}] :
                /\ \A s \in Services : fate[s] \in abort_fates(s, failed, bad, gone)
                /\ svc' = [svc EXCEPT ![d.at] =
                             [s \in Services |-> fate[s].row]]
                /\ handle' = [handle EXCEPT ![d.at] =
                                [s \in Services |-> fate[s].handle]]
    /\ harmed' = harmed \cup {d.at}
    /\ d' = [pc |-> "shutdown", at |-> IF drop_shuts(handle') THEN 1 ELSE N + 1]
    /\ UNCHANGED desired

\* ensure_dependencies_running finds that a service already started is gone.
DependencyFails ==
    /\ d.pc = "start" /\ todo # {}
    /\ "exit" \in Faults
    /\ \E gone \in 1..(next - 1) : abort_start(next, gone)

SpawnFails ==
    /\ d.pc = "spawn"
    /\ "start" \in Faults
    /\ abort_start(current, 0)

\* Mutant: the loop ends one stack early.
MutAllResumed == d.at >= N
all_resumed == d.at = N + 1

\* initialize returns.
Initialized ==
    /\ d.pc = "resume" /\ all_resumed
    /\ d' = [pc |-> "serve", at |-> 1]
    /\ UNCHANGED <<desired, svc, handle, harmed>>

\* A signal came meanwhile: run() goes on to the shutdown without serving.
Interrupted ==
    /\ d.pc = "resume" /\ all_resumed
    /\ "signal" \in Faults
    /\ d' = [pc |-> "shutdown", at |-> 1]
    /\ UNCHANGED <<desired, svc, handle, harmed>>

-----------------------------------------------------------------------------
(* shutdown *)

\* shutdown takes the stacks with a handle or a pending restart.  A second
\* call, when the runtime is dropped after it, finds nothing more to stop.
shuts(k) == \E s \in Services : handle[k][s] # "none" \/ svc[k][s] = "backoff"

\* Services are stopped in reverse order down to the first uncertain child,
\* unowned active row or failed stop.
blocks(k, s) ==
    \/ handle[k][s] = "uncertain"
    \/ handle[k][s] = "none" /\ svc[k][s] \in {"intent", "starting", "running"}

shutdown_row(k, s, halt) ==
    IF s < halt THEN svc[k][s]
    ELSE IF s = halt THEN "unknown"
    ELSE IF handle[k][s] = "child" \/ svc[k][s] = "backoff" THEN "proven"
    ELSE svc[k][s]

ShutdownStack ==
    /\ d.pc = "shutdown" /\ d.at <= N
    /\ LET k == d.at
           stops == {s \in Services : blocks(k, s)}
           last == IF stops = {} THEN 0
                   ELSE CHOOSE s \in stops : \A t \in stops : t <= s
           fails == {s \in Services : s > last /\ handle[k][s] = "child"}
       IN  IF ~shuts(k)
           THEN UNCHANGED <<svc, handle, harmed>>
           ELSE \E halt \in {last} \cup (IF "stop" \in Faults THEN fails ELSE {}) :
                  /\ svc' = [svc EXCEPT ![k] =
                               [s \in Services |-> shutdown_row(k, s, halt)]]
                  /\ handle' = [handle EXCEPT ![k] =
                       [s \in Services |->
                          IF s > halt THEN "none"
                          ELSE IF s = halt /\ handle[k][s] = "child"
                          THEN "uncertain" ELSE handle[k][s]]]
                  /\ harmed' = IF halt = 0 THEN harmed ELSE harmed \cup {k}
    /\ d' = [d EXCEPT !.at = @ + 1]
    /\ UNCHANGED desired

Exit ==
    /\ d.pc = "shutdown" /\ d.at = N + 1
    /\ d' = [pc |-> "dead", at |-> 1]
    /\ handle' = [k \in Stacks |-> all("none")]
    /\ UNCHANGED <<desired, svc, harmed>>

-----------------------------------------------------------------------------
(* The serve loop *)

SigTerm ==
    /\ d.pc = "serve"
    /\ d' = [pc |-> "shutdown", at |-> 1]
    /\ UNCHANGED <<desired, svc, handle, harmed>>

\* up and down of a stack that succeed; module Runtime has the rest.
Up(k) ==
    /\ d.pc = "serve"
    /\ \A s \in Services : svc[k][s] \in {"stopped", "failed", "proven"}
    /\ desired' = [desired EXCEPT ![k] = "running"]
    /\ svc' = [svc EXCEPT ![k] = all("running")]
    /\ handle' = [handle EXCEPT ![k] = all("child")]
    /\ harmed' = harmed \ {k}
    /\ UNCHANGED d

Down(k) ==
    /\ d.pc = "serve"
    /\ desired[k] = "running"
    /\ \A s \in Services : handle[k][s] # "uncertain" /\ svc[k][s] # "unknown"
    /\ desired' = [desired EXCEPT ![k] = "stopped"]
    /\ svc' = [svc EXCEPT ![k] = all("stopped")]
    /\ handle' = [handle EXCEPT ![k] = all("none")]
    /\ UNCHANGED <<d, harmed>>

\* A workload exits and tick sees it.
WorkloadExits(k, s) ==
    /\ d.pc = "serve" /\ "exit" \in Faults
    /\ handle[k][s] = "child"
    /\ \E r \in {"failed", "backoff", "unknown"} :
          svc' = [svc EXCEPT ![k][s] = r]
    /\ handle' = [handle EXCEPT ![k][s] = "none"]
    /\ harmed' = harmed \cup {k}
    /\ UNCHANGED <<desired, d>>

\* A due restart.
Restart(k, s) ==
    /\ d.pc = "serve"
    /\ svc[k][s] = "backoff" /\ desired[k] = "running"
    /\ svc' = [svc EXCEPT ![k][s] = "running"]
    /\ handle' = [handle EXCEPT ![k][s] = "child"]
    /\ UNCHANGED <<desired, d, harmed>>

\* SIGKILL harms the stacks that may have a session.
Crash ==
    /\ "crash" \in Faults
    /\ d.pc # "dead"
    /\ harmed' = harmed \cup {k \in Stacks : \E s \in Services :
                                svc[k][s] \in {"starting", "running"}}
    /\ handle' = [k \in Stacks |-> all("none")]
    /\ d' = [pc |-> "dead", at |-> 1]
    /\ UNCHANGED <<desired, svc>>

Daemon == \/ ColdStart \/ Resume \/ StartNext \/ Spawn
          \/ DependencyFails \/ SpawnFails \/ Initialized \/ Interrupted
          \/ ShutdownStack \/ Exit

Next ==
    \/ Boot \/ Daemon \/ SigTerm \/ Crash
    \/ \E k \in Stacks :
          \/ Up(k) \/ Down(k)
          \/ \E s \in Services : WorkloadExits(k, s) \/ Restart(k, s)

Spec == Init /\ [][Next]_vars

\* runit starts a daemon whenever none runs; a daemon keeps running.
FairSpec == Spec /\ WF_vars(Boot) /\ WF_vars(Daemon)

-----------------------------------------------------------------------------
(* Properties *)

\* SPECIFICATION.md promises independent stacks.  Whatever other stacks do
\* (failed resumes that end the daemon, failed stops, exits), a stack that
\* should run and had no failure of its own runs whenever a daemon serves.
UnharmedStacksRun ==
    d.pc = "serve" => \A k \in Stacks \ harmed :
        desired[k] = "running" =>
            svc[k] = all("running") /\ handle[k] = all("child")

\* No stack is resumed by halves: when the daemon serves, none is left with a
\* service in the middle of a start, and none with every service resumable.
NothingHalfResumed ==
    d.pc = "serve" => \A k \in Stacks :
        /\ \A s \in Services : svc[k][s] \notin {"intent", "starting"}
        /\ ~resumable(k)

\* A resume that fails ends the daemon, but not for ever: it leaves its stack
\* not resumable, so that some later daemon gets to serve, once nobody kills
\* or interrupts daemons while they start.
DaemonServesAgain ==
    <>[][(Crash => Exit) /\ ~Interrupted]_vars => (d.pc = "dead" ~> d.pc = "serve")
=============================================================================
