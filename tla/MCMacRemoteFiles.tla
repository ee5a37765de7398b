-------------------------- MODULE MCMacRemoteFiles --------------------------
(***************************************************************************)
(* MacRemoteFiles for TLC.                                                 *)
(***************************************************************************)
EXTENDS MacRemoteFiles, TLC

OfferSymmetry == Permutations(Offers)
=============================================================================
