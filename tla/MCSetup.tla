------------------------------ MODULE MCSetup ------------------------------
(***************************************************************************)
(* Setup for TLC.                                                          *)
(***************************************************************************)
EXTENDS Setup

CONSTANTS p, q

WithPeers == [NoFlags EXCEPT !.peers = {p}]
AnyHost   == [peers |-> {p}, host |-> "*", files |-> FALSE]
AnyHostAndFiles == [AnyHost EXCEPT !.files = TRUE]

UsualLines == {NoFlags, WithPeers, AnyHost}
AnyLines   == {AnyHostAndFiles}
OldConfig  == {[peers |-> {p}, host |-> "tailscale", complete |-> c] : c \in BOOLEAN}
=============================================================================
