--------------------------- MODULE ReliableStream ---------------------------
(***************************************************************************)
(* What one direction of a reliable UDP channel promises the applications  *)
(* at its ends (the delivery IRUDPChannel.h offers over the transport      *)
(* streams it is opened with): what is read is what was written, in order, *)
(* nothing missing, nothing twice and nothing taken back. How the channel  *)
(* does it over a network that keeps none of this is RUDPChannelPair.      *)
(***************************************************************************)
EXTENDS Naturals, Sequences

VARIABLES
  written,  \* how many units the sending application has written
  read      \* the units the receiving application was handed, in order

vars == <<written, read>>

Init == written = 0 /\ read = << >>

Write == written' = written + 1 /\ UNCHANGED read

(* Some of the units that are next, in one go. *)
Read ==
  \E n \in 1..(written - Len(read)) :
    /\ read' = read \o [i \in 1..n |-> Len(read) + i]
    /\ UNCHANGED written

Next == Write \/ Read

Spec == Init /\ [][Next]_vars
=============================================================================
