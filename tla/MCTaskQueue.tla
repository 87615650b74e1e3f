--------------------------- MODULE MCTaskQueue ---------------------------
(* Small instances of TaskQueue for TLC. *)
EXTENDS TaskQueue

\* One plain type, one CIDR type and both sync types.
MCKinds == {"run_doall", "cidr_db_refresh", "node_sync_setup", "node_sync_shared_domain"}
=============================================================================
