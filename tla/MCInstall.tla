------------------------------ MODULE MCInstall ------------------------------
(* Install.tla on a small instance, for TLC. *)
EXTENDS Install
=============================================================================
