---------------------------- MODULE MCDaemonLock ----------------------------
(***************************************************************************)
(* The daemon processes with at most MaxKills SIGKILLs, for liveness: an   *)
(* installation whose daemons are killed for ever makes no progress.       *)
(***************************************************************************)
EXTENDS DaemonLock

CONSTANT MaxKills
ASSUME MaxKillsAssumption == MaxKills \in Nat

VARIABLE kills

MCInit == Init /\ kills = 0

MCNext ==
    \E p \in Proc :
        \/ (Start(p) \/ Step(p) \/ Serve(p)) /\ UNCHANGED kills
        \/ kills < MaxKills /\ Kill(p) /\ kills' = kills + 1

\* A process takes the step from one place to the next one.
advance(from, to) ==
    \E p \in Proc : Step(p) /\ pc[p] = from /\ pc'[p] = to

\* The supervisor starts a process that ended, a process is not suspended
\* for ever, and no system call of the start fails every time.
MCSpec ==
    /\ MCInit
    /\ [][MCNext]_<<vars, kills>>
    /\ \A p \in Proc : WF_vars(Start(p)) /\ WF_vars(Step(p))
    /\ SF_vars(advance("acquire", "bind"))
    /\ SF_vars(advance("bind", "probe"))
    /\ SF_vars(advance("bind", "finish"))
    /\ SF_vars(advance("probe", "remove"))
    /\ SF_vars(advance("remove", "rebind"))
    /\ SF_vars(advance("rebind", "finish"))
    /\ SF_vars(advance("finish", "initialize"))
    /\ SF_vars(advance("initialize", "serve"))
=============================================================================
