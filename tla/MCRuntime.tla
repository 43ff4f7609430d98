----------------------------- MODULE MCRuntime -----------------------------
(***************************************************************************)
(* The runtime on small stacks for TLC.  The name order of the services is *)
(* the reverse of their start order, so the two cannot be confused.        *)
(***************************************************************************)
EXTENDS RuntimeSessions

CONSTANTS app, db

\* app depends on db.
OneServices == {db}
OneOrder == <<db>>
OneDependsOn == [s \in OneServices |-> << >>]
OnePolicy == [s \in OneServices |-> "always"]

TwoServices == {app, db}
TwoOrder == <<db, app>>
TwoNames == <<app, db>>
TwoDependsOn == [s \in TwoServices |-> IF s = app THEN <<db>> ELSE << >>]
TwoPolicy == [s \in TwoServices |-> IF s = app THEN "always" ELSE "on-failure"]
=============================================================================
