----------------------------- MODULE MCInbound -----------------------------
(***************************************************************************)
(* Inbound for TLC: two connections of one peer, one of a peer of version  *)
(* 1, and one of the node itself.  An image's payload reads like the start *)
(* of a frame.                                                             *)
(***************************************************************************)
EXTENDS Inbound

Text  == 11
Image == 12
Offer == 13
Fetch == 14
Peer  == <<21>>
This  == <<22>>

CONSTANTS c1, c2, c3, c4

PeersOf        == (c1 :> Peer) @@ (c2 :> Peer) @@ (c3 :> Legacy) @@ (c4 :> This)
ConnSymmetry   == Permutations({c1, c2})
Types    == (Text :> TypeText) @@ (Image :> TypeImage) @@ (Offer :> TypeFileOffer) @@ (Fetch :> TypeFileFetch)
Payloads == (Text :> <<1>>) @@ (Image :> <<ProtocolVersion, TypeText>>) @@ (Offer :> <<1>>) @@ (Fetch :> << >>)
PeerNames == {Peer, Legacy}
Senders   == (Peer :> {Image, Offer, Fetch}) @@ (Legacy :> {Text}) @@ (This :> {Text})
=============================================================================
