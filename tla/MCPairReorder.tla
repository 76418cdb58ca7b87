--------------------------- MODULE MCPairReorder ---------------------------
(* Two instances of a pair of streams whose network reorders and            *)
(* duplicates: "packets" with the values of the configuration, and "burst", *)
(* in which A sends four packets at once.                                   *)
EXTENDS MCRUDPChannelPair

VARIABLE at

Burst == INSTANCE RUDPChannelPair WITH
  SeqModulus <- 16, Window <- 4, PacketsPerBurst <- 4, ParityBits <- BOOLEAN,
  MaxBurst <- 4, UnitsA <- 4

MCInit == \/ at = "packets" /\ Init
          \/ at = "burst" /\ Burst!Init

MCNext ==
  /\ UNCHANGED at
  /\ \/ at = "packets" /\ Next
     \/ at = "burst" /\ Burst!Next

MCSpec == MCInit /\ [][MCNext]_<<vars, at>>

(* A sends all it has in one burst before anything arrives at either end,   *)
(* and nothing a second time; what B receives, and what A is told of it,    *)
(* comes in any order.                                                      *)
AllSent == txA.next = FirstA + 4 /\ burstA.pc = "idle"

OneBurst ==
  at = "burst" => IF AllSent THEN UNCHANGED burstA ELSE UNCHANGED <<rxA, rxB, burstB>>
=============================================================================
