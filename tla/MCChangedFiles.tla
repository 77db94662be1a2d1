--------------------------- MODULE MCChangedFiles ---------------------------
(* A workspace of three files, worked on in up to two sessions. *)
EXTENDS ChangedFiles

MCTree == <<"a", "b", "c">>

=============================================================================
