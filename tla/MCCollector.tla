----------------------------- MODULE MCCollector -----------------------------
(* The collector on small instances. *)
EXTENDS Collector

\* The classifier can report an empty label ("| Microsoft Teams"), which is
\* also what the fields hold while no session is active.
MCContexts == {[type |-> "meeting", label |-> NoText],
               [type |-> "vscode", label |-> "notes"]}

\* Every type and label of the instance; the empty string is one of them.
MCNames == {"", "vscode", "meeting", "notes"}
=============================================================================
