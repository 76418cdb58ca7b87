------------------------------- MODULE MCEnds -------------------------------
(* What two ends make of it in the end.  Three instances of a pair of       *)
(* streams whose network delays but does not reorder: "ends" with the       *)
(* values of the configuration, where both applications end gracefully and  *)
(* requests time out; "lossy", where the sender ends so and packets are     *)
(* lost; and "duplex", where both ends send, and B is given its streams     *)
(* late.  And "dialogs", a call between the locations of two contacts.      *)
EXTENDS MCRUDPChannelPair, CallDialogs

VARIABLE at

(* Two locations that ring *)
TwoCallees == <<"b1", "b2">>

Lossy == INSTANCE RUDPChannelPair WITH
  MaxLosses <- 2, KeepAlives <- FALSE, GracefulEnds <- {"A"}

Duplex == INSTANCE RUDPChannelPair WITH
  UnitsB <- 1, KeepAlives <- FALSE, RequestsMayFail <- FALSE,
  GracefulEnds <- {}, StreamsGivenB <- FALSE

MCInit ==
  /\ DialogInit
  /\ \/ at \in {"ends", "dialogs"} /\ Init
     \/ at = "lossy" /\ Lossy!Init
     \/ at = "duplex" /\ Duplex!Init

OnlyEnds   == at = "ends" /\ UNCHANGED <<at, dialogVars>>
OnlyLossy  == at = "lossy" /\ UNCHANGED <<at, dialogVars>>
OnlyDuplex == at = "duplex" /\ UNCHANGED <<at, dialogVars>>
OnlyDialogs == at = "dialogs" /\ UNCHANGED <<at, vars>>

(* Each has the actions that its constants allow. *)
MCNext ==
  \/ OnlyEnds /\ BurstA
  \/ OnlyEnds /\ TimerA
  \/ OnlyEnds /\ PostA
  \/ OnlyEnds /\ ApplicationA
  \/ OnlyEnds /\ BurstB
  \/ OnlyEnds /\ PostB
  \/ OnlyEnds /\ ApplicationB
  \/ OnlyEnds /\ ToB
  \/ OnlyEnds /\ RequestAckA
  \/ OnlyEnds /\ RequestToA
  \/ OnlyEnds /\ RequestToB
  \/ OnlyEnds /\ AnswerToA
  \/ OnlyEnds /\ AnswerToB
  \/ OnlyEnds /\ IndicateB
  \/ OnlyEnds /\ IndicationToA
  \/ OnlyEnds /\ KeepAlive
  \/ OnlyEnds /\ ShutdownA
  \/ OnlyEnds /\ ShutdownB
  \/ OnlyEnds /\ RequestTimesOut
  \/ OnlyEnds /\ PeerCloses
  \/ OnlyLossy /\ Lossy!BurstA
  \/ OnlyLossy /\ Lossy!TimerA
  \/ OnlyLossy /\ Lossy!PostA
  \/ OnlyLossy /\ Lossy!ApplicationA
  \/ OnlyLossy /\ Lossy!BurstB
  \/ OnlyLossy /\ Lossy!PostB
  \/ OnlyLossy /\ Lossy!ToB
  \/ OnlyLossy /\ Lossy!Lose
  \/ OnlyLossy /\ Lossy!Refuse
  \/ OnlyLossy /\ Lossy!RequestAckA
  \/ OnlyLossy /\ Lossy!RequestToB
  \/ OnlyLossy /\ Lossy!AnswerToA
  \/ OnlyLossy /\ Lossy!IndicateB
  \/ OnlyLossy /\ Lossy!IndicationToA
  \/ OnlyLossy /\ Lossy!ShutdownA
  \/ OnlyLossy /\ Lossy!RequestTimesOut
  \/ OnlyLossy /\ Lossy!PeerCloses
  \/ OnlyDuplex /\ Duplex!BurstA
  \/ OnlyDuplex /\ Duplex!TimerA
  \/ OnlyDuplex /\ Duplex!PostA
  \/ OnlyDuplex /\ Duplex!ApplicationA
  \/ OnlyDuplex /\ Duplex!BurstB
  \/ OnlyDuplex /\ Duplex!TimerB
  \/ OnlyDuplex /\ Duplex!PostB
  \/ OnlyDuplex /\ Duplex!ApplicationB
  \/ OnlyDuplex /\ Duplex!ToA
  \/ OnlyDuplex /\ Duplex!ToB
  \/ OnlyDuplex /\ Duplex!RequestAckA
  \/ OnlyDuplex /\ Duplex!RequestAckB
  \/ OnlyDuplex /\ Duplex!RequestToA
  \/ OnlyDuplex /\ Duplex!RequestToB
  \/ OnlyDuplex /\ Duplex!AnswerToA
  \/ OnlyDuplex /\ Duplex!AnswerToB
  \/ OnlyDuplex /\ Duplex!IndicateA
  \/ OnlyDuplex /\ Duplex!IndicateB
  \/ OnlyDuplex /\ Duplex!IndicationToA
  \/ OnlyDuplex /\ Duplex!IndicationToB
  \/ OnlyDialogs /\ PlaceCall
  \/ OnlyDialogs /\ \E e \in Called : Answer(e)
  \/ OnlyDialogs /\ \E e \in Ends : Step(e)
  \/ OnlyDialogs /\ \E e \in Ends : CancelCloses(e)
  \/ OnlyDialogs /\ \E e \in Ends : Cleanup(e)
  \/ OnlyDialogs /\ \E e \in Ends : \E reason \in Reasons(e) : Hangup(e, reason)
  \/ OnlyDialogs /\ \E e \in Ends : \E x \in OtherEnds(e) : LocationReady(e, x)
  \/ OnlyDialogs /\ \E e \in Ends : \E x \in OtherEnds(e) : LocationFails(e, x)
  \/ OnlyDialogs /\ \E e \in Ends : \E x \in OtherEnds(e) : Replicate(e, x)
  \/ OnlyDialogs /\ TimePasses

MCSpec == MCInit /\ [][MCNext]_<<at, vars, dialogVars>>
=============================================================================
