----------------------------- MODULE PauseLock ------------------------------
(***************************************************************************)
(* What services/background_gate.py promises its callers, without the two  *)
(* flock files, the polling and the list of descriptors that implement it: *)
(* background steps share the panel's database, a restore has it alone.    *)
(* Holders may leave in any number at once, since the end of a worker      *)
(* process ends all of its threads.  BackgroundGate implements this        *)
(* specification; PanelRestore is built on it.                             *)
(***************************************************************************)
CONSTANTS
    Steps,      \* background steps that ask for the database
    Restores    \* restores that ask for it alone

VARIABLES
    running,    \* background steps between _run_gated's lock and its finally
    owner       \* the restore that owns the database, as a set of at most one

lockVars == <<running, owner>>

LockInit == running = {} /\ owner = {}

StepEnters(s) ==
    /\ owner = {}
    /\ running' = running \cup {s}
    /\ UNCHANGED owner

RestoreEnters(r) ==
    /\ owner = {} /\ running = {}
    /\ owner' = {r}
    /\ UNCHANGED running

Leave(T) ==
    /\ running' = running \ T
    /\ owner' = owner \ T

LockNext ==
    \/ \E s \in Steps : StepEnters(s)
    \/ \E r \in Restores : RestoreEnters(r)
    \/ \E T \in SUBSET (Steps \cup Restores) : Leave(T)

LockSpec == LockInit /\ [][LockNext]_lockVars
=============================================================================
