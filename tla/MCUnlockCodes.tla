--------------------------- MODULE MCUnlockCodes ---------------------------
(***************************************************************************)
(* Instances of UnlockCodes: client 1 has two protocols, client 2 one.     *)
(* Code k1 is unrestricted and covers OpenVPN, k2 is bound to client 1.    *)
(***************************************************************************)
EXTENDS UnlockCodes, TLC

CONSTANTS k1, k2

MCProfiles == {<<1, "ovpn">>, <<1, "wg">>, <<2, "ovpn">>}
MCDays     == (k1 :> 2) @@ (k2 :> 1)
MCMaxUses  == (k1 :> 2) @@ (k2 :> 1)
MCBound    == (k1 :> {}) @@ (k2 :> {1})
MCCovers   == (k1 :> {"ovpn"}) @@ (k2 :> {})
MCEnds     == (k1 :> 0) @@ (k2 :> 2)
RedeemSymmetry == Permutations(Redeems)
=============================================================================
