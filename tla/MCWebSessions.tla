--------------------------- MODULE MCWebSessions ---------------------------
(* Instances of WebSessions for TLC.                                       *)
EXTENDS WebSessions, TLC

\* Session ids and requests of a kind are interchangeable.
MCSymmetry ==
    Permutations(Families) \cup Permutations(Refreshers)
=============================================================================
