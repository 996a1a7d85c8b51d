------------------------ MODULE MCIdentityHandover ------------------------
(***************************************************************************)
(* Hosts of one inventory that carry the same identity, all alike.         *)
(***************************************************************************)
EXTENDS IdentityHandover, TLC

Symmetric == Permutations(Host)
=============================================================================
