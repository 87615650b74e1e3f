--------------------------- MODULE MCClientAccess ---------------------------
(***************************************************************************)
(* Instances of ClientAccess.  Request threads are interchangeable.        *)
(***************************************************************************)
EXTENDS ClientAccess, TLC

ApiSymmetry == Permutations(Api)

=============================================================================
