------------------------------ MODULE MCTracker ------------------------------
(* The whole program on small instances. *)
EXTENDS Tracker

\* The classifier can report an empty label ("| Microsoft Teams"), which is
\* also what the fields hold while no session is active.
MCContexts == {[type |-> "meeting", label |-> NoText],
               [type |-> "vscode", label |-> "notes"]}

MCOneContext == {[type |-> "vscode", label |-> "notes"]}

\* Every type and label of the instances; the empty string is one of them.
MCNames == {"", "vscode", "meeting", "notes"}
=============================================================================
