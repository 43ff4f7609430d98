----------------------------- MODULE DaemonLock -----------------------------
(***************************************************************************)
(* Start and end of the daemon processes of one installation (daemon.rs):  *)
(* the flock of DaemonLock, the control socket, and Runtime, which opens   *)
(* the database and owns the workloads.  Every process runs the same code: *)
(* the service supervisor and an operator may start one at any time, and   *)
(* SIGKILL may end one between any two of its system calls.                *)
(*                                                                         *)
(* The socket path is absent (None), the socket file of a listener that is *)
(* gone (Stale), or the socket bound by a process, whose device and inode  *)
(* identify it.  Nothing but the daemon removes the lock or the socket.    *)
(***************************************************************************)
EXTENDS Naturals, TLAPS

CONSTANTS
    Proc,          \* daemon processes
    None, Stale    \* no socket file; one that nobody listens on

ASSUME ProcAssumption == None \notin Proc /\ Stale \notin Proc /\ None # Stale

VARIABLES
    pc,    \* where each process is in run()
    lock,  \* the process holding the flock, or None
    path   \* what the control socket path names

vars == <<pc, lock, path>>

PC == {"out", "acquire", "bind", "probe", "remove", "rebind", "finish",
       "initialize", "serve", "shutdown", "drop_check", "drop_remove",
       "unlock"}

TypeOK ==
    /\ pc \in [Proc -> PC]
    /\ lock \in Proc \cup {None}
    /\ path \in Proc \cup {None, Stale}

Init ==
    /\ pc = [p \in Proc |-> "out"]
    /\ lock = None
    /\ path \in {None, Stale}

goto(p, l) == pc' = [pc EXCEPT ![p] = l]

-----------------------------------------------------------------------------
Start(p) ==
    /\ pc[p] = "out"
    /\ goto(p, "acquire")
    /\ UNCHANGED <<lock, path>>

MutAcquireUnlocked(p) ==
    /\ pc[p] = "acquire"
    /\ goto(p, "bind")
    /\ lock' = p
    /\ UNCHANGED path

\* DaemonLock::acquire: a non-blocking exclusive flock.  It fails when the
\* lock is held (AlreadyRunning) or its file is unusable; a signal that
\* arrived meanwhile ends a process that has just got it.
Acquire(p) ==
    /\ pc[p] = "acquire"
    /\ \/ /\ lock = None
          /\ lock' = p
          /\ \E l \in {"bind", "unlock"} : goto(p, l)
       \/ goto(p, "out") /\ UNCHANGED lock
    /\ UNCHANGED path

\* A system call of ControlSocket::bind that fails ends the process.
fails(p) == goto(p, "unlock") /\ UNCHANGED path

\* ControlSocket::bind
Bind(p) ==
    /\ pc[p] = "bind"
    /\ \/ path = None /\ path' = p /\ goto(p, "finish")
       \/ path # None /\ goto(p, "probe") /\ UNCHANGED path
       \/ fails(p)
    /\ UNCHANGED lock

MutProbeGivesUp(p) ==
    /\ pc[p] = "probe"
    /\ goto(p, "unlock")
    /\ UNCHANGED <<lock, path>>

\* AddrInUse: only a socket file that refuses a connection is removed.
Probe(p) ==
    /\ pc[p] = "probe"
    /\ \/ path \notin Proc /\ goto(p, "remove") /\ UNCHANGED path
       \/ fails(p)
    /\ UNCHANGED lock

Remove(p) ==
    /\ pc[p] = "remove"
    /\ \/ path' = None /\ goto(p, "rebind")
       \/ fails(p)
    /\ UNCHANGED lock

Rebind(p) ==
    /\ pc[p] = "rebind"
    /\ \/ path = None /\ path' = p /\ goto(p, "finish")
       \/ fails(p)
    /\ UNCHANGED lock

\* ControlSocket::finish; on an error the listener is closed but nothing
\* owns the socket file yet, so it stays behind.
Finish(p) ==
    /\ pc[p] = "finish"
    /\ \/ goto(p, "initialize") /\ UNCHANGED path
       \/ goto(p, "unlock") /\ path' = Stale
    /\ UNCHANGED lock

\* Runtime::initialize opens the database.  A signal before it, or an error,
\* skips the serve loop; a signal during it leads to Runtime::shutdown.
Initialize(p) ==
    /\ pc[p] = "initialize"
    /\ \E l \in {"serve", "shutdown", "drop_check"} : goto(p, l)
    /\ UNCHANGED <<lock, path>>

\* SIGTERM, SIGINT or a listener error ends the serve loop.
Serve(p) ==
    /\ pc[p] = "serve"
    /\ goto(p, "shutdown")
    /\ UNCHANGED <<lock, path>>

MutUnlockFirst(p) ==
    /\ pc[p] = "shutdown"
    /\ goto(p, "drop_check")
    /\ lock' = None
    /\ UNCHANGED path

\* Runtime::shutdown and the drop of Runtime come before the drops of the
\* control socket and of the lock.
Shutdown(p) ==
    /\ pc[p] = "shutdown"
    /\ goto(p, "drop_check")
    /\ UNCHANGED <<lock, path>>

\* Drop for ControlSocket: remove the file only if it is still ours.  When
\* that cannot be told, the file stays and its listener is closed.
DropCheck(p) ==
    /\ pc[p] = "drop_check"
    /\ \/ path = p /\ goto(p, "drop_remove") /\ UNCHANGED path
       \/ goto(p, "unlock") /\ path' = IF path = p THEN Stale ELSE path
    /\ UNCHANGED lock

\* A failed removal is ignored; the file outlives its listener.
DropRemove(p) ==
    /\ pc[p] = "drop_remove"
    /\ path' \in {None, Stale}
    /\ goto(p, "unlock")
    /\ UNCHANGED lock

\* Drop for DaemonLock
Unlock(p) ==
    /\ pc[p] = "unlock"
    /\ lock' = IF lock = p THEN None ELSE lock
    /\ goto(p, "out")
    /\ UNCHANGED path

\* SIGKILL: the kernel releases the flock and closes the listener.
Kill(p) ==
    /\ pc[p] # "out"
    /\ goto(p, "out")
    /\ lock' = IF lock = p THEN None ELSE lock
    /\ path' = IF path = p THEN Stale ELSE path

-----------------------------------------------------------------------------
Step(p) ==
    \/ Acquire(p) \/ Bind(p) \/ Probe(p) \/ Remove(p) \/ Rebind(p)
    \/ Finish(p) \/ Initialize(p) \/ Shutdown(p) \/ DropCheck(p)
    \/ DropRemove(p) \/ Unlock(p)

Next == \E p \in Proc : Start(p) \/ Step(p) \/ Serve(p) \/ Kill(p)

Spec == Init /\ [][Next]_vars

-----------------------------------------------------------------------------
(* Properties *)

\* The places where a process uses the database and the workloads.
Mutating == {"initialize", "serve", "shutdown"}

\* The places where a process holds the lock, and those where the control
\* path names its socket.
Holding == PC \ {"out", "acquire"}
Bound == {"finish", "initialize", "serve", "shutdown", "drop_check",
          "drop_remove"}

\* The invariant the other two rest on: everything from bind to the removal
\* of the socket happens under the flock, and the path names the socket of a
\* process from its bind to its removal, failures and SIGKILL included.
LockInv ==
    /\ TypeOK
    /\ \A p \in Proc : pc[p] \in Holding => lock = p
    /\ \A p \in Proc : pc[p] \in Bound <=> path = p

\* SPECIFICATION.md, invariant 1: at most one mutating daemon per
\* installation, also while one process is shutting down and another starts.
OneMutatingDaemon ==
    \A p, q \in Proc : pc[p] \in Mutating /\ pc[q] \in Mutating => p = q

\* The control path of a daemon that serves leads to that daemon: neither the
\* stale-socket recovery nor the Drop of another process, each a check
\* followed by a removal, takes its socket away.
ServesItsPath == \A p \in Proc : pc[p] = "serve" => path = p

\* A socket file whose listener is gone never blocks the installation: some
\* daemon comes to serve although others were killed and left it behind.
StaleSocketRecovered == path = Stale ~> \E p \in Proc : pc[p] = "serve"

-----------------------------------------------------------------------------
(* Proofs: one mutating daemon and an unbroken control path, for any set of
   daemon processes *)

\* Every initial state of an installation satisfies the invariant.
LEMMA InitLockInv == Init => LockInv
  BY ProcAssumption DEF Init, LockInv, TypeOK, PC, Holding, Bound

\* A step of one process, whichever it is, preserves the invariant: each step
\* between acquire and unlock is taken by the lock holder alone.
LEMMA NextLockInv == LockInv /\ [Next]_vars => LockInv'
<1> SUFFICES ASSUME LockInv, [Next]_vars PROVE LockInv'
  OBVIOUS
<1> USE ProcAssumption DEF LockInv, TypeOK, PC, Holding, Bound, goto, fails
<1>1. CASE UNCHANGED vars
  BY <1>1 DEF vars
<1>2. ASSUME NEW p \in Proc, Start(p) PROVE LockInv'
  BY <1>2 DEF Start
<1>3. ASSUME NEW p \in Proc, Acquire(p) PROVE LockInv'
  BY <1>3 DEF Acquire
<1>4. ASSUME NEW p \in Proc, Bind(p) PROVE LockInv'
  BY <1>4 DEF Bind
<1>5. ASSUME NEW p \in Proc, Probe(p) PROVE LockInv'
  BY <1>5 DEF Probe
<1>6. ASSUME NEW p \in Proc, Remove(p) PROVE LockInv'
  BY <1>6 DEF Remove
<1>7. ASSUME NEW p \in Proc, Rebind(p) PROVE LockInv'
  BY <1>7 DEF Rebind
<1>8. ASSUME NEW p \in Proc, Finish(p) PROVE LockInv'
  BY <1>8 DEF Finish
<1>9. ASSUME NEW p \in Proc, Initialize(p) PROVE LockInv'
  BY <1>9 DEF Initialize
<1>10. ASSUME NEW p \in Proc, Serve(p) PROVE LockInv'
  BY <1>10 DEF Serve
<1>11. ASSUME NEW p \in Proc, Shutdown(p) PROVE LockInv'
  BY <1>11 DEF Shutdown
<1>12. ASSUME NEW p \in Proc, DropCheck(p) PROVE LockInv'
  BY <1>12 DEF DropCheck
<1>13. ASSUME NEW p \in Proc, DropRemove(p) PROVE LockInv'
  BY <1>13 DEF DropRemove
<1>14. ASSUME NEW p \in Proc, Unlock(p) PROVE LockInv'
  BY <1>14 DEF Unlock
<1>15. ASSUME NEW p \in Proc, Kill(p) PROVE LockInv'
  BY <1>15 DEF Kill
<1> QED
  BY <1>1, <1>2, <1>3, <1>4, <1>5, <1>6, <1>7, <1>8, <1>9, <1>10, <1>11,
     <1>12, <1>13, <1>14, <1>15 DEF Next, Step

\* The lock and the control path stay consistent for any number of daemon
\* processes, started, stopped and killed in any order.
THEOREM LockInvariant == Spec => []LockInv
  BY InitLockInv, NextLockInv, PTL DEF Spec

\* At most one daemon process uses the database and the workloads.
THEOREM MutualExclusion == Spec => []OneMutatingDaemon
<1>1. LockInv => OneMutatingDaemon
  BY DEF LockInv, OneMutatingDaemon, Mutating, Holding, PC
<1> QED
  BY <1>1, LockInvariant, PTL

\* No process ever removes or replaces the socket of a serving daemon.
THEOREM ControlPath == Spec => []ServesItsPath
<1>1. LockInv => ServesItsPath
  BY DEF LockInv, ServesItsPath, Bound
<1> QED
  BY <1>1, LockInvariant, PTL
=============================================================================
