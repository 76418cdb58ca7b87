------------------------------ MODULE MCStream ------------------------------
(* Two instances of one end of a stream, "life" with the values of the      *)
(* configuration and "sender": its streams are there from the start, its    *)
(* peer acknowledges anything at any moment of a burst and sends nothing.   *)
EXTENDS MCRUDPChannelStream

VARIABLE at

(* What the theorem on NeverStalled assumes (RUDPChannelStreamProofs).      *)
ASSUME ProofsApply == SharedQueue /\ FirstInWindow

Sender == INSTANCE RUDPChannelStream WITH
  HoldSending <- FALSE, StreamsGiven <- TRUE, Directions <- {}, DelegateMayGo <- FALSE,
  MaxUnits <- 2, MaxBatons <- 2, MaxBurst <- 2, Messages <- {}

MCInit == \/ at = "life" /\ Init
          \/ at = "sender" /\ Sender!Init

Life == at = "life" /\ UNCHANGED at

MCNext ==
  \/ Life /\ SendNow
  \/ Life /\ SendIndication
  \/ Life /\ \E m \in Messages : HandlePacket(m)
  \/ Life /\ \E id \in {Indication} \cup due, a \in Acks : HandleExternalAck(id, a)
  \/ Life /\ OnBurstTimer
  \/ Life /\ OnEnsureTimer
  \/ Life /\ OnSendNow
  \/ Life /\ Write
  \/ Life /\ SetStreams
  \/ Life /\ ShutdownNow
  \/ Life /\ CheckShutdown
  \/ Life /\ BeginShutdown
  \/ Life /\ \E dirs \in (SUBSET Directions) \ {{}} : ShutdownDirection(dirs)
  \/ at = "sender" /\ UNCHANGED at /\ Sender!OnAddTimer
  \/ at = "sender" /\ UNCHANGED at /\ Sender!Next

MCSpec == MCInit /\ [][MCNext]_<<vars, at>>

WithoutWireAt == <<WithoutWire, at>>
=============================================================================
