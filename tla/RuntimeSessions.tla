--------------------------- MODULE RuntimeSessions ---------------------------
(***************************************************************************)
(* Runtime implements Sessions.  The journal's word on a service is what   *)
(* reconcile_cold_start would make of it if the daemon were killed now.    *)
(***************************************************************************)
EXTENDS Runtime

journalled(s) ==
    IF cold_row(s).observed # "unknown" THEN "absent"
    ELSE IF d.pc = "spawn" /\ d.cur = s THEN "invoked"
    ELSE "open"

Abstract == INSTANCE Sessions WITH
    alive <- {s \in Services : guest[s] \/ orphan[s]},
    journal <- [s \in Services |-> journalled(s)]

\* Every behaviour of the daemon is one of Sessions: each session of a
\* service is preceded by an intent that is durable, and each intent by the
\* durable proof that the session before it is gone, over all crash points,
\* failures, restarts, candidates and requests.
ImplementsSessions == Abstract!Spec
=============================================================================
