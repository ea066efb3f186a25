--------------------------- MODULE MCAddressProof ---------------------------
(* AddressProof with a passkey and a provider link.                        *)
EXTENDS AddressProof, TLC

CONSTANTS a1, a2, l1, l2

TwoProofs == Permutations(Proofs)

OneLink == (l1 :> a1)
OneTagged == (l1 :> a1) @@ (l2 :> a1)
=============================================================================
