------------------------------ MODULE MCBrowser ------------------------------
(* One page with one card, one text beside the edge cases, and a live      *)
(* session that changes once.                                              *)
EXTENDS Browser
=============================================================================
