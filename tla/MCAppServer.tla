---------------------------- MODULE MCAppServer -----------------------------
(* A small instance of AppServer for TLC. *)
EXTENDS AppServer
=============================================================================
