-------------------------- MODULE MCServerReboot --------------------------
(* A small instance of ServerReboot for TLC. *)
EXTENDS ServerReboot
=============================================================================
