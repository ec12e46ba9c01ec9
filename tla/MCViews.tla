------------------------------ MODULE MCViews -------------------------------
(* TLC instance of Views. *)
EXTENDS Views
=============================================================================
