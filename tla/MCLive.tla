------------------------------- MODULE MCLive -------------------------------
(* What arrives in the end, at a pair of streams and in a conversation.     *)
(* "at" is what moves.                                                      *)
(*                                                                          *)
(* "pair": only A sends and nobody ends, which is what the constants of the *)
(* configuration leave possible.  Packets are lost, and B sends nothing but *)
(* ACKs that it is asked for, or indications.                               *)
(*                                                                          *)
(* "two": the host and one guest send a message each, while a connection is *)
(* lost and the host is started anew; another guest cannot be found.        *)
(* "more": the host sends two messages and then a guest one, and they are   *)
(* connected throughout.  "three": both guests can be found, and what one   *)
(* of them sends goes to the other by the host.                             *)
(*                                                                          *)
(* Nothing that is fair can happen in the initial state of either part, so  *)
(* that the one that does not move is treated fairly.                       *)
EXTENDS MCRUDPChannelPair, MessageDelivery

VARIABLE at

MCInit ==
  /\ Init /\ DeliveryInit
  /\ at \in {"pair", "two", "more", "three"}
  /\ up = IF at = "more" THEN {{"h", "a"}} ELSE {}

OnlyPair == at = "pair" /\ UNCHANGED <<at, deliveryVars>>
OnlyDelivery == at # "pair" /\ UNCHANGED <<at, vars>>

(* Those that can be found *)
Found == IF at = "three" THEN {"h", "a", "b"} ELSE {"h", "a"}

MCNext ==
  \/ OnlyPair /\ BurstA
  \/ OnlyPair /\ TimerA
  \/ OnlyPair /\ PostA
  \/ OnlyPair /\ ApplicationA
  \/ OnlyPair /\ BurstB
  \/ OnlyPair /\ PostB
  \/ OnlyPair /\ ToB
  \/ OnlyPair /\ Lose
  \/ OnlyPair /\ Refuse
  \/ OnlyPair /\ RequestAckA
  \/ OnlyPair /\ RequestToB
  \/ OnlyPair /\ AnswerToA
  \/ OnlyPair /\ IndicateB
  \/ OnlyPair /\ IndicationToA
  \/ OnlyDelivery /\ (at = "more" \/ sent["h"] = 0) /\ HostSends
  \/ OnlyDelivery /\ sent["a"] = 0 /\ (at = "more" => sent["h"] = 2) /\
       \E s \in Sides : GuestSends(s)
  \/ OnlyDelivery /\ \E s \in Sides : OnSlavePublicationUpdated(s)
  \/ OnlyDelivery /\ \E s \in Sides :
       \E late \in 0 .. Len(doc[Own(s)].messages) :
         OnHostPublicationUpdated(s, late)
  \/ OnlyDelivery /\ \E s \in Sides : OnWake(s)
  \/ OnlyDelivery /\ \E s \in Sides : OnTimer(s)
  \/ OnlyDelivery /\ \E e, x \in Found : Find(e, x)
  \/ OnlyDelivery /\ \E e, x \in Found : FindEnds(e, x)
  \/ OnlyDelivery /\ \E e, x \in Found : Connect(e, x)
  \/ OnlyDelivery /\ at = "two" /\ \E e, x \in Found : Disconnect(e, x)
  \/ OnlyDelivery /\ at = "two" /\ Restart

(* What cannot happen owes nothing. *)
MCSpec ==
  /\ MCInit /\ [][MCNext]_<<at, vars, deliveryVars>>
  /\ Fairness
  /\ DeliveryFairness
=============================================================================
