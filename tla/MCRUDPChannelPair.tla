------------------------- MODULE MCRUDPChannelPair -------------------------
(* Two ends and the network between them, on small instances.              *)
EXTENDS RUDPChannelPair
=============================================================================
