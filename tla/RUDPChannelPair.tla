--------------------------- MODULE RUDPChannelPair ---------------------------
(***************************************************************************)
(* Two ends of a channel: a stream at each, their channels                 *)
(* (openpeer/services/cpp/services_RUDPChannel.cpp) as far as they carry   *)
(* packets and external ACKs between them, and a network that loses,       *)
(* delays, reorders and duplicates. The caller is A; B was called and      *)
(* holds sending until it hears from A.                                    *)
(*                                                                         *)
(* A forced ACK travels as a STUN request that is sent again until it is   *)
(* answered or times out; an ordinary external ACK is an indication.       *)
(***************************************************************************)
EXTENDS Integers, Sequences, FiniteSets

CONSTANTS
  SeqModulus, MaxRun, MaxVector, Window, PacketsPerBurst, SharedQueue,
  ParityBits, AckIds, MaxBatons, MaxBurst,
  FirstA, FirstB,  \* the first sequence numbers of the two directions
  UnitsA, UnitsB,  \* bounds: what the two applications write
  Duplicates,      \* the network may deliver again what it delivered
  MaxLosses,       \* bound on what it loses and the sockets refuse
  KeepAlives,      \* the channels' timers send ACK requests of their own
  RequestsMayFail, \* a STUN request may time out
  GracefulEnds,    \* the ends whose application calls shutdown()
  StreamsGivenB    \* B's streams are set at once, not later

(* Each end sends fewer packets than half of what a sequence number can     *)
(* tell apart, 2^23 in the code: further apart, two numbers with the same   *)
(* low bits cannot be told from each other, and getNumberWithHint guesses.  *)
ASSUME PairAssumption ==
  /\ Window \in Nat \ {0}
  /\ PacketsPerBurst \in Nat \ {0}
  /\ FirstA \in Nat \ {0}
  /\ FirstB \in Nat \ {0}
  /\ SharedQueue \in BOOLEAN
  /\ StreamsGivenB \in BOOLEAN
  /\ ParityBits \subseteq BOOLEAN
  /\ 0 \notin AckIds
  /\ MaxBatons \in Nat
  /\ MaxBurst \in Nat
  /\ UnitsA \in Nat /\ 2 * (UnitsA + 1) < SeqModulus
  /\ UnitsB \in Nat /\ 2 * (UnitsB + 1) < SeqModulus

ASSUME WireAssumption ==
  /\ SeqModulus \in Nat \ {0}
  /\ MaxRun \in Nat \ {0}
  /\ MaxVector \in Nat \ {0, 1}

VARIABLES
  ctlA, txA, rxA, ioA, burstA, postedA, dueA, wireA, appA,
  ctlB, txB, rxB, ioB, burstB, postedB, dueB, wireB, appB,
  requests,    \* ACK requests outstanding (mOutstandingACKs): [from, id, ack]
  answers,     \* answers to them in the network: [to, id, ack]
  indications, \* ACK indications in the network: [to, ack]
  cancelled,   \* the forced ACKs whose request cancel() gave up: [from, id]
  closing,     \* the ends whose channel was shut down
  timedOut,    \* those a request timed out on (mSTUNRequestPreviouslyTimedOut)
  losses

varsA == <<ctlA, txA, rxA, ioA, burstA, postedA, dueA, wireA, appA>>
varsB == <<ctlB, txB, rxB, ioB, burstB, postedB, dueB, wireB, appB>>
net == <<requests, answers, indications, cancelled, closing, timedOut, losses>>
vars == <<varsA, varsB, net>>

(* The streams, with what is proved of one end (RUDPChannelStreamProofs).   *)
A == INSTANCE RUDPChannelStreamProofs WITH
       ctl <- ctlA, tx <- txA, rx <- rxA, io <- ioA, burst <- burstA,
       posted <- postedA, due <- dueA, wire <- wireA, app <- appA,
       FirstSend <- FirstA, FirstReceive <- FirstB, HoldSending <- FALSE,
       StreamsGiven <- TRUE,
       MaxUnits <- UnitsA, Directions <- {}, DelegateMayGo <- FALSE,
       Messages <- {}, Acks <- {}

B == INSTANCE RUDPChannelStreamProofs WITH
       ctl <- ctlB, tx <- txB, rx <- rxB, io <- ioB, burst <- burstB,
       posted <- postedB, due <- dueB, wire <- wireB, app <- appB,
       FirstSend <- FirstB, FirstReceive <- FirstA, HoldSending <- TRUE,
       StreamsGiven <- StreamsGivenB,
       MaxUnits <- UnitsB, Directions <- {}, DelegateMayGo <- FALSE,
       Messages <- {}, Acks <- {}

Init ==
  /\ A!Init /\ B!Init
  /\ requests = {} /\ answers = {} /\ indications = {} /\ cancelled = {}
  /\ closing = {} /\ timedOut = {} /\ losses = 0

-----------------------------------------------------------------------------
(* What the streams do of themselves. *)

BurstA ==
  /\ \/ A!BeginBurst \/ A!PickResend \/ A!CreatePacket \/ A!NothingToSend
     \/ A!SendPacket \/ A!AfterSend \/ A!FinishBurst \/ A!UnwindBurst
  /\ UNCHANGED <<varsB, net>>

BurstB ==
  /\ \/ B!BeginBurst \/ B!PickResend \/ B!CreatePacket \/ B!NothingToSend
     \/ B!SendPacket \/ B!AfterSend \/ B!FinishBurst \/ B!UnwindBurst
  /\ UNCHANGED <<varsA, net>>

TimerA == (A!OnBurstTimer \/ A!OnEnsureTimer \/ A!OnAddTimer) /\ UNCHANGED <<varsB, net>>
TimerB == (B!OnBurstTimer \/ B!OnEnsureTimer \/ B!OnAddTimer) /\ UNCHANGED <<varsA, net>>

PostA == A!OnSendNow /\ UNCHANGED <<varsB, net>>
PostB == B!OnSendNow /\ UNCHANGED <<varsA, net>>

-----------------------------------------------------------------------------
(* Packets. *)

Left(S, m) == IF Duplicates THEN S ELSE S \ {m}

ToB ==
  \E m \in wireA :
    /\ B!HandlePacket(m)
    /\ wireA' = Left(wireA, m)
    /\ UNCHANGED <<ctlA, txA, rxA, ioA, burstA, postedA, dueA, appA, net>>

ToA ==
  \E m \in wireB :
    /\ A!HandlePacket(m)
    /\ wireB' = Left(wireB, m)
    /\ UNCHANGED <<ctlB, txB, rxB, ioB, burstB, postedB, dueB, appB, net>>

(* A socket refuses the packet. *)
Refuse ==
  /\ losses < MaxLosses
  /\ losses' = losses + 1
  /\ \/ A!SendFails /\ UNCHANGED varsB
     \/ B!SendFails /\ UNCHANGED varsA
  /\ UNCHANGED <<requests, answers, indications, cancelled, closing, timedOut>>

(* S, or S with one member lost. *)
Thinned(S) == {S} \cup {S \ {m} : m \in S}

Lose ==
  /\ losses < MaxLosses
  /\ losses' = losses + 1
  /\ wireA' \in Thinned(wireA)
  /\ wireB' \in Thinned(wireB)
  /\ indications' \in Thinned(indications)
  /\ <<wireA', wireB', indications'>> # <<wireA, wireB, indications>>
  /\ UNCHANGED <<ctlA, txA, rxA, ioA, burstA, postedA, dueA, appA,
                 ctlB, txB, rxB, ioB, burstB, postedB, dueB, appB,
                 requests, answers, cancelled, closing, timedOut>>

-----------------------------------------------------------------------------
(* External ACKs. onRUDPChannelStreamSendExternalACKNow is posted to the    *)
(* channel, so the ACK says what the stream knows when the channel gets to  *)
(* it, not when it was asked for.                                           *)

(* The forced ACKs of an end that its channel has not yet turned into a     *)
(* request.                                                                 *)
Asked(end, due) ==
  {id \in due \ {A!Indication} :
     /\ \A r \in requests : r.from = end => r.id # id
     /\ [from |-> end, id |-> id] \notin cancelled}

RequestAckA ==
  /\ A!Running
  /\ \E id \in Asked("A", dueA) :
       requests' = requests \cup {[from |-> "A", id |-> id, ack |-> A!ExternalAck]}
  /\ UNCHANGED <<varsA, varsB, answers, indications, cancelled, closing, timedOut, losses>>

RequestAckB ==
  /\ B!Running
  /\ \E id \in Asked("B", dueB) :
       requests' = requests \cup {[from |-> "B", id |-> id, ack |-> B!ExternalAck]}
  /\ UNCHANGED <<varsA, varsB, answers, indications, cancelled, closing, timedOut, losses>>

IndicateA ==
  /\ A!SendIndication
  /\ indications' = indications \cup {[to |-> "B", ack |-> A!ExternalAck]}
  /\ UNCHANGED <<varsB, requests, answers, cancelled, closing, timedOut, losses>>

IndicateB ==
  /\ B!SendIndication
  /\ indications' = indications \cup {[to |-> "A", ack |-> B!ExternalAck]}
  /\ UNCHANGED <<varsA, requests, answers, cancelled, closing, timedOut, losses>>

(* handleSTUN, an indication. *)
IndicationToA ==
  \E i \in indications :
    /\ i.to = "A"
    /\ A!HandleExternalAck(A!Indication, i.ack)
    /\ indications' = Left(indications, i)
    /\ UNCHANGED <<varsB, requests, answers, cancelled, closing, timedOut, losses>>

IndicationToB ==
  \E i \in indications :
    /\ i.to = "B"
    /\ B!HandleExternalAck(B!Indication, i.ack)
    /\ indications' = Left(indications, i)
    /\ UNCHANGED <<varsA, requests, answers, cancelled, closing, timedOut, losses>>

(* A request that was answered is handled again only if the network repeats *)
(* it, or the answer is late.                                               *)
Unanswered(r) == Duplicates \/ \A a \in answers : a.to # r.from \/ a.id # r.id

(* The stream that has shut down takes no ACK; its channel still answers.   *)
HandleRequestA(a) ==
  \/ A!HandleExternalAck(A!Indication, a)
  \/ A!IsShutdown /\ UNCHANGED varsA

HandleRequestB(a) ==
  \/ B!HandleExternalAck(B!Indication, a)
  \/ B!IsShutdown /\ UNCHANGED varsB

(* handleSTUN, a request: the ACK is handled and one of its own is answered.*)
RequestToA ==
  \E r \in requests :
    /\ r.from = "B" /\ Unanswered(r)
    /\ HandleRequestA(r.ack)
    /\ answers' = answers \cup {[to |-> "B", id |-> r.id, ack |-> A!ExternalAck]}
    /\ UNCHANGED <<varsB, requests, indications, cancelled, closing, timedOut, losses>>

RequestToB ==
  \E r \in requests :
    /\ r.from = "A" /\ Unanswered(r)
    /\ HandleRequestB(r.ack)
    /\ answers' = answers \cup {[to |-> "A", id |-> r.id, ack |-> B!ExternalAck]}
    /\ UNCHANGED <<varsA, requests, indications, cancelled, closing, timedOut, losses>>

Others(S, end, id) == {a \in S : a.to # end \/ a.id # id}

(* handleSTUNRequesterResponse: only of a request still outstanding. *)
AnswerToA ==
  \E a \in answers, r \in requests :
    /\ a.to = "A" /\ r.from = "A" /\ r.id = a.id
    /\ A!HandleExternalAck(a.id, a.ack)
    /\ requests' = requests \ {r}
    /\ answers' = Others(answers, "A", a.id)
    /\ UNCHANGED <<varsB, indications, cancelled, closing, timedOut, losses>>

AnswerToB ==
  \E a \in answers, r \in requests :
    /\ a.to = "B" /\ r.from = "B" /\ r.id = a.id
    /\ B!HandleExternalAck(a.id, a.ack)
    /\ requests' = requests \ {r}
    /\ answers' = Others(answers, "B", a.id)
    /\ UNCHANGED <<varsA, indications, cancelled, closing, timedOut, losses>>

(* RUDPChannel::onTimer has an ACK requested when the channel was quiet for *)
(* long and no ACK is outstanding; cancel() stops that timer.               *)
Quiet(end) == end \notin closing /\ \A r \in requests : r.from # end

KeepAlive ==
  /\ KeepAlives
  /\ \/ /\ Quiet("A") /\ ctlA.delegate
        /\ requests' = requests \cup {[from |-> "A", id |-> A!Indication, ack |-> A!ExternalAck]}
     \/ /\ Quiet("B") /\ ctlB.delegate
        /\ requests' = requests \cup {[from |-> "B", id |-> B!Indication, ack |-> B!ExternalAck]}
  /\ UNCHANGED <<varsA, varsB, answers, indications, cancelled, closing, timedOut, losses>>

-----------------------------------------------------------------------------
(* The ends of the channels. *)

(* cancel() gives up every ACK request that is outstanding. *)
CancelAcks(end) ==
  /\ requests' = {r \in requests : r.from # end}
  /\ answers' = {a \in answers : a.to # end}
  /\ cancelled' = cancelled \cup
       {[from |-> end, id |-> r.id] : r \in {q \in requests : q.from = end}}
  /\ closing' = closing \cup {end}

(* RUDPChannel::shutdown: cancel(true), and with it the stream's            *)
(* shutdown(true).                                                          *)
ShutdownA ==
  /\ "A" \in GracefulEnds \ closing
  /\ A!CheckShutdown
  /\ CancelAcks("A")
  /\ UNCHANGED <<varsB, indications, timedOut, losses>>

ShutdownB ==
  /\ "B" \in GracefulEnds \ closing
  /\ B!CheckShutdown
  /\ CancelAcks("B")
  /\ UNCHANGED <<varsA, indications, timedOut, losses>>

(* onSTUNRequesterTimedOut: "any timeout is considered fatal". *)
RequestTimesOut ==
  /\ RequestsMayFail
  /\ UNCHANGED <<indications, losses>>
  /\ \/ /\ \E r \in requests : r.from = "A"
        /\ A!ShutdownNow /\ CancelAcks("A") /\ timedOut' = timedOut \cup {"A"}
        /\ UNCHANGED varsB
     \/ /\ \E r \in requests : r.from = "B"
        /\ B!ShutdownNow /\ CancelAcks("B") /\ timedOut' = timedOut \cup {"B"}
        /\ UNCHANGED varsA

(* A channel whose stream has shut down asks the peer to close, with an     *)
(* open request of lifetime 0, and the peer does: cancel(false). One that   *)
(* had a request time out no longer asks.                                   *)
PeerCloses ==
  /\ UNCHANGED <<indications, timedOut, losses>>
  /\ \/ /\ ctlA.state = "Shutdown" /\ "A" \notin timedOut
        /\ B!ShutdownNow /\ CancelAcks("B") /\ UNCHANGED varsA
     \/ /\ ctlB.state = "Shutdown" /\ "B" \notin timedOut
        /\ A!ShutdownNow /\ CancelAcks("A") /\ UNCHANGED varsB

ApplicationA == (A!Write \/ A!BeginShutdown) /\ UNCHANGED <<varsB, net>>
ApplicationB ==
  (B!Write \/ B!SetStreams \/ B!BeginShutdown) /\ UNCHANGED <<varsA, net>>

Next ==
  \/ BurstA \/ TimerA \/ PostA \/ ApplicationA
  \/ BurstB \/ TimerB \/ PostB \/ ApplicationB
  \/ ToA \/ ToB \/ Lose \/ Refuse
  \/ RequestAckA \/ RequestAckB \/ RequestToA \/ RequestToB \/ AnswerToA \/ AnswerToB
  \/ IndicateA \/ IndicateB \/ IndicationToA \/ IndicationToB \/ KeepAlive
  \/ ShutdownA \/ ShutdownB \/ RequestTimesOut \/ PeerCloses

Spec == Init /\ [][Next]_vars

(* A burst goes on by itself; a message queue gets to what is posted to it  *)
(* and a timer that is set expires; a packet the network does not lose is   *)
(* handled, although bursts keep it waiting (SF: the queue is in order); a  *)
(* STUN request is sent until it is answered. The applications owe nothing  *)
(* but the rest of a shutdown() they are inside. Indications may all be     *)
(* lost, so nothing is asked of them.                                       *)
Fairness ==
  /\ WF_vars(BurstA) /\ WF_vars(BurstB)
  /\ WF_vars(PostA) /\ WF_vars(PostB)
  /\ WF_vars(A!OnBurstTimer /\ UNCHANGED <<varsB, net>>)
  /\ WF_vars(A!OnEnsureTimer /\ UNCHANGED <<varsB, net>>)
  /\ WF_vars(B!OnBurstTimer /\ UNCHANGED <<varsA, net>>)
  /\ WF_vars(B!OnEnsureTimer /\ UNCHANGED <<varsA, net>>)
  /\ SF_vars(ToA) /\ SF_vars(ToB)
  /\ WF_vars(RequestAckA) /\ WF_vars(RequestAckB)
  /\ WF_vars(RequestToA) /\ WF_vars(RequestToB)
  /\ WF_vars(AnswerToA) /\ WF_vars(AnswerToB)
  /\ WF_vars(A!BeginShutdown /\ UNCHANGED <<varsB, net>>)
  /\ WF_vars(B!BeginShutdown /\ UNCHANGED <<varsA, net>>)
  /\ WF_vars(KeepAlive)
  /\ WF_vars(PeerCloses)

FairSpec == Spec /\ Fairness

-----------------------------------------------------------------------------
(* Properties. *)

(* Each direction implements the reliable stream: what an application is   *)
(* handed is what the other wrote, in that order, nothing missing, repeated *)
(* or taken back, whatever the network loses, delays, reorders or repeats   *)
(* (handlePacket's window and duplicate tests, deliverReadPackets).         *)
AtoB == INSTANCE ReliableStream WITH written <- ioA.written, read <- ioB.delivered
BtoA == INSTANCE ReliableStream WITH written <- ioB.written, read <- ioA.delivered

DeliversInOrder == AtoB!Spec /\ BtoA!Spec

(* A sender forgets or frees only what the other end has: the ACKs it       *)
(* believes are never ahead of the receiver, even when they arrive late, out*)
(* of order or twice.                                                       *)
Has(rx, s) == s <= rx.gsnfr \/ s \in DOMAIN rx.pending

AckedOnlyReceived ==
  /\ ctlA.delegate /\ ctlB.delegate =>
       \A s \in FirstA..(txA.next - 1) :
         s \notin DOMAIN txA.packets \/ s \in txA.acked => Has(rxB, s)
  /\ ctlA.delegate /\ ctlB.delegate =>
       \A s \in FirstB..(txB.next - 1) :
         s \notin DOMAIN txB.packets \/ s \in txB.acked => Has(rxA, s)

(* Ends that tell the truth never take each other's ACK for an illegal one: *)
(* no stream ends with IllegalStreamState, whatever becomes of the messages *)
(* (the parities of handleAck against those of getState and sendNow).       *)
NoFalseAlarm ==
  ctlA.error # "IllegalStreamState" /\ ctlB.error # "IllegalStreamState"

(* "Older packets containing acknowledgements ... can be used to acknowledge*)
(* packets but never be used to mark already acknowledged packets as having *)
(* not been received" (RUDPProtocol.h).                                     *)
AcksNeverRevoked ==
  [][txA'.failed \ txA.failed \subseteq (DOMAIN txA'.packets) \ txA.acked]_vars

(* Everything written arrives, whatever the network loses on the way: the  *)
(* timers of sendNowCleanup and the forced ACK always have the packet that  *)
(* was lost sent again, and handleForcedAck frees the baton it held.        *)
EventuallyDelivered ==
  \A n \in 1..UnitsA : ioA.written = n ~> Len(ioB.delivered) >= n

(* The forced ACK an end waits for is yet to be made a request, or is one.  *)
AckUnderWay(end, tx, due) ==
  tx.forceID # 0 =>
    \/ tx.forceID \in Asked(end, due)
    \/ \E r \in requests : r.from = end /\ r.id = tx.forceID

(* A stream that waits for a forced ACK has one under way: "a stream will   *)
(* require external ACKs to be delivered if the remote side is not          *)
(* acknowledging packets" (services_IRUDPChannelStream.h). It sets no timer *)
(* in the meantime.                                                         *)
ForcedAckPursued ==
  A!Running /\ ~A!IsShutdown => AckUnderWay("A", txA, dueA)

(* It has, as long as its channel has not been shut down, which gives up    *)
(* the ACKs of a stream that goes on: whatever is lost, repeated, answered  *)
(* late or superseded (handleForcedAck).                                    *)
OpenAckPursued ==
  /\ A!Running /\ ~A!IsShutdown /\ "A" \notin closing => AckUnderWay("A", txA, dueA)
  /\ B!Running /\ ~B!IsShutdown /\ "B" \notin closing => AckUnderWay("B", txB, dueB)

(* A stream that shuts down of itself, gracefully, leaves nothing behind:   *)
(* all that was written was sent, and all that was sent the other end has   *)
(* (closeOnAllDataSent).                                                    *)
GracefulEndDelivers ==
  [][(BurstA \/ ApplicationA) /\ ctlA.state # "Shutdown" /\ ctlA'.state = "Shutdown"
     => ioA.unread = << >> /\ rxB.gsnfr >= txA.next - 1]_vars
=============================================================================
