---------------------------- MODULE MCIdleWindows ----------------------------
(* Counters that wrap at four, through almost three turns of them. *)
EXTENDS IdleWindows

=============================================================================
