------------------------------ MODULE Sessions ------------------------------
(***************************************************************************)
(* What the daemon promises about the sessions of a service, whatever      *)
(* fails and whenever it is killed: a session begins only after a durable  *)
(* intent, and an intent is only taken after durable proof that no earlier *)
(* session of the service is left.  Module Runtime implements this         *)
(* (module RuntimeSessions); nothing else about daemons, requests or       *)
(* transactions is said here.                                              *)
(***************************************************************************)
CONSTANT Services

VARIABLES
    alive,    \* the services with a guest tree
    journal   \* what the database alone would tell of each service:
              \* "absent", "invoked" (a session may begin), "open"

vars == <<alive, journal>>

Init ==
    /\ alive = {}
    /\ journal = [s \in Services |-> "absent"]

\* The intent to start a session is made durable.
Invoke(s) ==
    /\ journal[s] = "absent"
    /\ journal'[s] = "invoked"
    /\ s \in alive' <=> s \in alive

\* The session begins: once for each intent, and never beside another.
Begin(s) ==
    /\ journal[s] = "invoked"
    /\ s \notin alive
    /\ s \in alive'
    /\ journal'[s] = "open"

\* The daemon is gone, or gave up, before it knew whether a session began.
Lose(s) ==
    /\ journal[s] \in {"absent", "invoked"}
    /\ journal'[s] = "open"
    /\ s \in alive' <=> s \in alive

\* The guest tree ends, unseen.
End(s) ==
    /\ s \in alive /\ s \notin alive'
    /\ journal'[s] = journal[s]

\* Absence is recorded only when it is true.
Prove(s) ==
    /\ journal[s] # "absent"
    /\ s \notin alive /\ s \notin alive'
    /\ journal'[s] = "absent"

Idle(s) ==
    /\ journal'[s] = journal[s]
    /\ s \in alive' <=> s \in alive

\* A cold start or a crash concerns several services at once.
Next ==
    /\ journal' \in [Services -> {"absent", "invoked", "open"}]
    /\ alive' \subseteq Services
    /\ \A s \in Services :
          Invoke(s) \/ Begin(s) \/ Lose(s) \/ End(s) \/ Prove(s) \/ Idle(s)

Spec == Init /\ [][Next]_vars
=============================================================================
