-------------------------- MODULE MCBackgroundGate --------------------------
(* A small panel for TLC: two workers, steps and restores spread over them. *)
EXTENDS BackgroundGate, TLC

CONSTANTS p1, p2, s1, s2, s3, r1, r2

MCProcs == {p1, p2}
MCSteps == {s1, s2, s3}
MCRestores == {r1, r2}

\* Worker p1 runs a step and both restores: they share one _pause_fds list.
MCHome == s1 :> p1 @@ s2 :> p2 @@ s3 :> p2 @@ r1 :> p1 @@ r2 :> p1
=============================================================================
