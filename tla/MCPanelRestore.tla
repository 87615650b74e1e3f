--------------------------- MODULE MCPanelRestore ---------------------------
(* One auto-backup loop, backups by hand, and restores from the web and the bot. *)
EXTENDS PanelRestore, TLC

CONSTANTS a1, m1, r1, r2, u1

\* A backup of another panel, and an archive whose CIDR database is damaged.
MCUploads == {<<Roles, "other">>, <<{"db", "env"}, "other">>, <<{"cidr"}, "damaged">>, <<{}, "other">>}

MCSymmetry == Permutations({r1, r2})
=============================================================================
