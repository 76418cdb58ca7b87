-------------------------- MODULE RUDPChannelStream --------------------------
(***************************************************************************)
(* One end of a reliable UDP channel                                       *)
(* (openpeer/services/cpp/services_RUDPChannelStream.cpp): the window of   *)
(* packets sent and not yet acknowledged, the burst batons that pace it,   *)
(* the buffer of packets received out of order, the timers and the forced  *)
(* acknowledgement that keep it going, and its shutdown.                   *)
(*                                                                         *)
(* The network, timer and message-queue callbacks run on the stream's      *)
(* message queue; the application calls in from threads of its own. A step *)
(* is one locked section of a callback. sendNow releases the lock around   *)
(* every packet it hands to its delegate, so it is several steps.          *)
(***************************************************************************)
EXTENDS RUDPPacket, FiniteSets

CONSTANTS
  Window,          \* OPENPEER_SERVICES_MAX_WINDOW_TO_NEXT_SEQUENCE_NUMBER
  PacketsPerBurst, \* OPENPEER_SERVICES_DEFAULT_PACKETS_PER_BURST
  FirstSend,       \* the first sequence number this end sends
  FirstReceive,    \* the first sequence number it expects
  HoldSending,     \* the accepting end holds sending until it hears the other
  SharedQueue,     \* all callbacks run on one thread, as RUDPChannel sets up
  ParityBits,      \* the values getRandomFlag may return
  AckIds,          \* the PUIDs of forced acknowledgements
  StreamsGiven,    \* setStreams is called as the stream is created
  Directions,      \* the directions the application may shut down
  DelegateMayGo,   \* the channel may be destroyed under the stream
  Messages,        \* the packets the network may hand to this end
  Acks,            \* the external ACKs it may hand to this end
  MaxUnits,        \* bound: what the application writes
  MaxBatons,       \* bound on the batons the add timer creates
  MaxBurst         \* bound on the packets per burst the add timer reaches

ASSUME StreamAssumption ==
  /\ Window \in Nat \ {0}
  /\ PacketsPerBurst \in Nat \ {0}
  /\ FirstSend \in Nat \ {0}
  /\ FirstReceive \in Nat \ {0}
  /\ HoldSending \in BOOLEAN
  /\ SharedQueue \in BOOLEAN
  /\ StreamsGiven \in BOOLEAN
  /\ Directions \subseteq {"Send", "Receive"}
  /\ DelegateMayGo \in BOOLEAN
  /\ ParityBits \subseteq BOOLEAN
  /\ 0 \notin AckIds
  /\ MaxUnits \in Nat
  /\ MaxBatons \in Nat
  /\ MaxBurst \in Nat

ASSUME MessagesAssumption == \A m \in Messages : m.seq \in Nat

VARIABLES
  ctl,     \* mCurrentState, mShutdownState, mDelegate, mLastError
  tx,      \* mSendingPackets, the batons, the timers, the forced ACK
  rx,      \* mReceivedPackets, mGSNR, mGSNFR, the hold on sending
  io,      \* the transport streams to and from the application
  burst,   \* the locals of the sendNow in progress (mAttemptingSendNow)
  posted,  \* an onSendNow or onTransportStreamReaderReady is queued
  due,     \* external ACKs asked of the channel and not yet answered
  wire,    \* packets handed to the delegate and still in the network
  app      \* the application thread inside shutdown(true)

vars == <<ctl, tx, rx, io, burst, posted, due, wire, app>>

Indication == 0    \* the id of an external ACK that needs no answer
NoPacket == 0      \* no sequence number: they start at 1

Smallest(S) == CHOOSE s \in S : \A u \in S : s <= u
Greatest(S) == CHOOSE s \in S : \A u \in S : u <= s

Keep(f, S) == [s \in (DOMAIN f) \cap S |-> f[s]]

(* The xor of the PS bits of the packets S of f. *)
Parity(f, S) == Cardinality({s \in S : f[s].ps}) % 2 = 1

-----------------------------------------------------------------------------
(* BufferedPacket. tx.packets maps each number in mSendingPackets to what   *)
(* was put on the wire; acked holds the ones whose mPacket was reset,       *)
(* holding those with mHoldsBaton, flagged those with                       *)
(* mFlagForResendingInNextBurst, failed those with mFlaggedAsFailedToReceive*)

Sending(t) == DOMAIN t.packets

(* A mutation of DoNotResend: counts packets that were not flagged. *)
MutantDoNotResend(t, S) ==
  [t EXCEPT !.flagged = @ \ S, !.resend = @ - Cardinality(S)]

DoNotResend(t, S) ==
  [t EXCEPT !.flagged = @ \ S, !.resend = @ - Cardinality(S \cap t.flagged)]

FlagForResending(t, S) ==
  LET new == S \ (t.acked \cup t.flagged)
  IN  [t EXCEPT !.flagged = @ \cup new, !.resend = @ + Cardinality(new)]

ReleaseBaton(t, S) ==
  [t EXCEPT !.holding = @ \ S, !.avail = @ + Cardinality(S \cap t.holding)]

ConsumeBaton(t, s) ==
  IF s \in t.holding \/ t.avail = 0 THEN t
  ELSE [t EXCEPT !.holding = @ \cup {s}, !.avail = @ - 1]

FlagAsReceived(t, S) ==
  [ReleaseBaton(DoNotResend(t, S), S) EXCEPT !.acked = @ \cup S]

(* The packets up to the remote GSNFR leave mSendingPackets. *)
Erase(t, S) ==
  LET u == FlagAsReceived(t, S)
  IN  [u EXCEPT !.packets = Keep(@, Sending(t) \ S),
                !.acked = @ \ S, !.failed = @ \ S]

-----------------------------------------------------------------------------
(* Acknowledgements. An ACK is a record of the peer's next sequence number, *)
(* GSNR, GSNFR, vector and the flags VP, PG and XP. DP and EC change        *)
(* nothing: handleDuplicate and handleECN are empty.                        *)

(* A mutation of HandlePacketLoss: destroys the last baton. *)
MutantHandlePacketLoss(t) ==
  IF t.avail = 0 THEN [t EXCEPT !.holding = @ \ {Smallest(@)}] ELSE t

(* handlePacketLoss: fewer packets per burst, or else one baton less, but   *)
(* never the last one.                                                      *)
HandlePacketLoss(t) ==
  LET u     == [t EXCEPT !.frozen = TRUE, !.timers = @ \ {"add"}]
      spare == IF u.avail = 0 /\ u.holding # {}
                 THEN u.holding \ {Smallest(u.holding)} ELSE u.holding
  IN  IF u.ppb > 1 THEN [u EXCEPT !.ppb = @ \div 2]
      ELSE IF u.avail > 1 THEN [u EXCEPT !.avail = @ - 1]
      ELSE IF spare # {} THEN [u EXCEPT !.holding = @ \ {Smallest(spare)}]
      ELSE u

AckIgnored(t, r, a) ==
  \/ a.next < r.gsnfr
  \/ a.next > r.gsnr + Window
  \/ a.gsnr > t.next

(* A mutation of Reported: one off. *)
MutantReported(t, a, S) ==
  LET v == DecodeVector(a.vector, a.gsnr, a.gsnfr)
  IN  {s \in Sending(t) : s >= a.gsnfr /\ s - a.gsnfr < Len(v) /\ v[s - a.gsnfr + 1] \in S}

(* The unacknowledged packets the ACK's vector says something of the kind S *)
(* about.                                                                   *)
Reported(t, a, S) ==
  LET v == DecodeVector(a.vector, a.gsnr, a.gsnfr)
  IN  {s \in Sending(t) : /\ s > a.gsnfr
                          /\ s - a.gsnfr <= Len(v)
                          /\ v[s - a.gsnfr] \in S}

Arrived == {"Received", "ReceivedECNMarked"}

(* A mutation of VectorParityWrong: although packets it covers are gone.    *)
MutantParityOfErased(t, a) ==
  a.vp # XOR(a.xp, Parity(t.packets, Reported(t, a, Arrived)))

(* The vector's parity is only checked if every packet it reports as        *)
(* received is still there to compare with.                                 *)
VectorParityWrong(t, a) ==
  LET v    == DecodeVector(a.vector, a.gsnr, a.gsnfr)
      left == {s \in Sending(t) : s > a.gsnfr}
      gone == {i \in 1..Len(v) : /\ v[i] \in Arrived
                                 /\ \E s \in left : a.gsnfr + i < s
                                 /\ a.gsnfr + i \notin left}
  IN  /\ gone = {}
      /\ a.vp # XOR(a.xp, Parity(t.packets, Reported(t, a, Arrived)))

(* Exceptions::IllegalACK *)
AckIllegal(t, r, a) ==
  /\ Sending(t) # {}
  /\ \/ a.gsnfr > a.gsnr
     \/ /\ ~AckIgnored(t, r, a)
        /\ \/ a.gsnfr \in Sending(t) /\ a.xp # t.packets[a.gsnfr].xorNow
           \/ a.gsnr \in Sending(t) /\ a.pg # t.packets[a.gsnr].ps
           \/ a.gsnr # a.gsnfr /\ VectorParityWrong(t, a)

(* With nothing left to acknowledge a forced ACK is forgotten. *)
ForgetForce(t) == IF Sending(t) = {} THEN [t EXCEPT !.forceID = 0] ELSE t

(* handleUnfreezing, at the end of a send period; "good" says whether ten   *)
(* seconds of sending without loss have added up.                           *)
HandleUnfreezing(t, good) ==
  IF Sending(t) = {} /\ good
    THEN [t EXCEPT !.frozen = FALSE, !.timers = @ \ {"add"}] ELSE t

(* The packets first reported missing by this ACK. *)
NewlyLost(t, a) == Reported(t, a, {"NotReceived"}) \ t.failed

HandleVector(t, a) ==
  LET lost == NewlyLost(t, a)
      got  == Reported(t, a, Arrived) \cup ({a.gsnr} \cap Sending(t))
      u    == FlagAsReceived(
                FlagForResending([t EXCEPT !.failed = @ \cup lost], lost), got)
  IN  IF lost = {} THEN u ELSE HandlePacketLoss(u)

(* handleAck, when it does not throw. *)
HandleAck(t, r, a, good) ==
  IF Sending(t) = {} THEN ForgetForce(t)
  ELSE IF AckIgnored(t, r, a) THEN t
  ELSE LET u == Erase(t, {s \in Sending(t) : s <= a.gsnfr})
       IN  ForgetForce(HandleUnfreezing(
             IF a.gsnr = a.gsnfr THEN u ELSE HandleVector(u, a), good))

(* A mutation of HandleForcedAck: the batons stay with the lost packets. *)
MutantHandleForcedAck(t, id) ==
  IF id # Indication /\ t.forceID = id /\ Sending(t) # {}
    THEN [FlagForResending(t, {s \in Sending(t) : s <= t.forceSeq}) EXCEPT
            !.forceID = 0, !.forceNext = FALSE]
    ELSE t

(* A mutation of HandleForcedAck: mForceACKOfSentPacketsRequestID is not    *)
(* cleared.                                                                 *)
MutantForcedAckKept(t, id) ==
  IF id # Indication /\ t.forceID = id
    THEN FlagForResending(t, {s \in Sending(t) : s <= t.forceSeq}) ELSE t

(* A forced ACK was answered: whatever was sent before it and is still      *)
(* unacknowledged is resent.                                                *)
HandleForcedAck(t, id) ==
  IF id # Indication /\ t.forceID = id /\ Sending(t) # {}
    THEN LET S == {s \in Sending(t) : s <= t.forceSeq}
         IN  [ReleaseBaton(FlagForResending(t, S), S) EXCEPT
                !.forceID = 0, !.forceNext = FALSE]
    ELSE t

-----------------------------------------------------------------------------
(* The receiving half. *)

(* deliverReadPackets: the run of packets that now follows the GSNFR. *)
DeliverableTo(r) ==
  CHOOSE n \in r.gsnfr..r.gsnr :
    /\ (r.gsnfr + 1)..n \subseteq DOMAIN r.pending
    /\ n + 1 \notin DOMAIN r.pending

(* A mutation of Deliver: the GSNFR stays one behind. *)
MutantDeliver(r) ==
  LET n == DeliverableTo(r)
  IN  [r EXCEPT !.gsnfr = IF n > @ THEN n - 1 ELSE @,
                !.pending = [s \in {u \in DOMAIN r.pending : u > n} |-> r.pending[s]]]

Deliver(r) ==
  LET n == DeliverableTo(r)
  IN  [r EXCEPT !.gsnfr = n,
                !.xorFull = XOR(@, Parity(r.pending, (r.gsnfr + 1)..n)),
                !.pending = [s \in {u \in DOMAIN r.pending : u > n} |-> r.pending[s]]]

Delivered(r) ==
  [i \in 1..(DeliverableTo(r) - r.gsnfr) |-> r.pending[r.gsnfr + i].data]

(* The packets put in mReceivedPackets so far, as a vector. *)
ReceiverVector(r) ==
  LET between == (r.gsnfr + 1)..(r.gsnr - 1)
  IN  EncodeVector(r.gsnr, r.gsnfr, r.xorFull,
        [s \in between |-> IF s \in DOMAIN r.pending THEN "Received" ELSE "NotReceived"],
        [s \in between |-> s \in DOMAIN r.pending /\ r.pending[s].ps])

(* getState: what an external ACK says of this end. *)
ExternalAck ==
  LET v == ReceiverVector(rx)
  IN  [next |-> tx.next, gsnr |-> rx.gsnr, gsnfr |-> rx.gsnfr, vector |-> v.vector,
       vp |-> v.vp, pg |-> rx.gsnrParity, xp |-> rx.xorFull]

-----------------------------------------------------------------------------
(* Initially: the constructor, and holdSendingUntilReceiveSequenceNumber of *)
(* the end that was called.                                                 *)

IdleBurst ==
  [pc |-> "idle", left |-> 0, last |-> NoPacket, picked |-> NoPacket,
   message |-> << >>, first |-> NoPacket, vector |-> << >>, vp |-> FALSE,
   ext |-> FALSE]

Init ==
  /\ ctl = [state |-> "Connected", dirs |-> {}, delegate |-> TRUE, error |-> "None"]
  /\ tx = [next |-> FirstSend, xorNow |-> FALSE, packets |-> << >>, acked |-> {},
           holding |-> {}, flagged |-> {}, failed |-> {}, resend |-> 0,
           avail |-> 1, ppb |-> PacketsPerBurst, timers |-> {}, frozen |-> FALSE,
           forceID |-> 0, forceSeq |-> 0, forceNext |-> FALSE]
  /\ rx = [gsnr |-> FirstReceive - 1, gsnfr |-> FirstReceive - 1,
           pending |-> << >>, xorFull |-> FALSE, gsnrParity |-> FALSE,
           hold |-> IF HoldSending THEN FirstReceive ELSE 0]
  /\ io = [unread |-> << >>, delivered |-> << >>, kept |-> << >>,
           attached |-> StreamsGiven, written |-> 0]
  /\ burst = IdleBurst
  /\ posted = FALSE
  /\ due = {}
  /\ wire = {}
  /\ app = "none"

-----------------------------------------------------------------------------
(* The end of the stream. *)

IsShutdown == ctl.state = "Shutdown"
IsShuttingDown == ctl.state = "ShuttingDown"

(* A null mDelegate was called: the process is gone. *)
Running == ctl.state # "Crashed"

Cancelled(t) ==
  [t EXCEPT !.packets = << >>, !.acked = {}, !.holding = {}, !.flagged = {},
            !.failed = {}, !.timers = {}]

(* setError, then cancel. What is left in the counters is not used again.   *)
Cancel(reason) ==
  IF IsShutdown THEN UNCHANGED <<ctl, tx, rx, io>>
  ELSE /\ ctl' = [ctl EXCEPT !.state = "Shutdown", !.delegate = FALSE,
                    !.error = IF IsShuttingDown \/ @ # "None" THEN @ ELSE reason]
       /\ tx' = Cancelled(tx)
       /\ rx' = [rx EXCEPT !.pending = << >>]
       /\ io' = [io EXCEPT !.unread = IF io.attached THEN << >> ELSE @]

(* getTotalReadBuffersAvailable of the send stream is not zero. *)
ToWrite == io.attached /\ io.unread # << >>

-----------------------------------------------------------------------------
(* sendNow is entered at the end of every callback, after its lock is       *)
(* released; ext is fireExternalACKIfNotSent. Refused, it leaves an ACK     *)
(* that was asked for to an external one.                                   *)
EnterSendNow(ext, hold) ==
  IF IsShutdown \/ hold # 0 \/ burst.pc # "idle"
    THEN /\ due' = IF ext THEN due \cup {Indication} ELSE due
         /\ UNCHANGED burst
    ELSE /\ burst' = [IdleBurst EXCEPT !.pc = "begun", !.ext = ext]
         /\ UNCHANGED due

(* RUDPChannel calls handleExternalAck, setStreams, shutdown and            *)
(* shutdownDirection under its own lock, and takes it to send a packet.     *)
ChannelFree == app = "none"

(* A callback on the queue waits for the one before it. *)
MayCallBack == Running /\ (SharedQueue => burst.pc = "idle")

(* The hold ends with the first number at or above the one waited for. *)
HoldAfter(seq) == IF seq >= rx.hold THEN 0 ELSE rx.hold

AckOf(m, seq) ==
  [next |-> seq, gsnr |-> NumberWithHint(m.gsnr, tx.next),
   gsnfr |-> NumberWithHint(m.gsnfr, tx.next), vector |-> m.vector,
   vp |-> m.vp, pg |-> m.pg, xp |-> m.xp]

Accepted(m, seq) ==
  [rx EXCEPT !.pending = [s \in (DOMAIN @) \cup {seq} |->
                            IF s = seq THEN [ps |-> m.ps, data |-> m.data] ELSE @[s]],
             !.gsnr = IF seq > @ THEN seq ELSE @,
             !.gsnrParity = IF seq > rx.gsnr THEN m.ps ELSE @,
             !.hold = HoldAfter(seq)]

(* What is delivered while the receive direction is shut down is dropped;   *)
(* what is delivered before setStreams is kept.                             *)
IoAfter(units) ==
  IF "Receive" \in ctl.dirs THEN io
  ELSE IF io.attached THEN [io EXCEPT !.delivered = @ \o units]
  ELSE [io EXCEPT !.kept = @ \o units]

(* handlePacket returns before it looks at the ACK. *)
PacketIgnored(seq) == seq <= rx.gsnfr \/ seq > rx.gsnr + Window

IgnorePacket(m) ==
  LET seq == NumberWithHint(m.seq, rx.gsnr)
  IN  /\ MayCallBack
      /\ ctl.delegate
      /\ PacketIgnored(seq)
      /\ rx' = [rx EXCEPT !.hold = HoldAfter(seq)]
      /\ UNCHANGED <<ctl, tx, io, burst, posted, due, wire, app>>

RejectPacket(m) ==
  LET seq == NumberWithHint(m.seq, rx.gsnr)
  IN  /\ MayCallBack
      /\ ctl.delegate
      /\ ~PacketIgnored(seq)
      /\ AckIllegal(tx, rx, AckOf(m, seq))
      /\ Cancel("IllegalStreamState")
      /\ UNCHANGED <<burst, posted, due, wire, app>>

(* The ACK is taken but the data is not: it is already there, or the window *)
(* would grow although nothing was delivered for three RTTs.                *)
DropData(m) ==
  LET seq == NumberWithHint(m.seq, rx.gsnr)
  IN  /\ MayCallBack
      /\ ctl.delegate
      /\ ~PacketIgnored(seq)
      /\ ~AckIllegal(tx, rx, AckOf(m, seq))
      /\ seq \notin DOMAIN rx.pending => seq > rx.gsnfr + Window /\ seq > rx.gsnr
      /\ \E good \in BOOLEAN : tx' = HandleAck(tx, rx, AckOf(m, seq), good)
      /\ rx' = [rx EXCEPT !.hold = HoldAfter(seq)]
      /\ UNCHANGED <<ctl, io, burst, posted, due, wire, app>>

AcceptPacket(m) ==
  LET seq == NumberWithHint(m.seq, rx.gsnr)
  IN  /\ MayCallBack
      /\ ctl.delegate
      /\ ~PacketIgnored(seq)
      /\ ~AckIllegal(tx, rx, AckOf(m, seq))
      /\ seq \notin DOMAIN rx.pending
      /\ \E good \in BOOLEAN : tx' = HandleAck(tx, rx, AckOf(m, seq), good)
      /\ rx' = Deliver(Accepted(m, seq))
      /\ io' = IoAfter(Delivered(Accepted(m, seq)))
      /\ EnterSendNow(m.ar, HoldAfter(seq))
      /\ UNCHANGED <<ctl, posted, wire, app>>

(* handlePacket *)
HandlePacket(m) ==
  IgnorePacket(m) \/ RejectPacket(m) \/ DropData(m) \/ AcceptPacket(m)

(* handleExternalAck: an ACK from the peer's request or indication (id 0),  *)
(* or its answer to the forced one named id.                                *)
HandleExternalAck(id, a) ==
  LET t == ForgetForce(tx)
  IN  /\ MayCallBack
      /\ ChannelFree
      /\ ctl.delegate
      /\ IF AckIllegal(t, rx, a)
           THEN Cancel("IllegalStreamState") /\ UNCHANGED posted
           ELSE /\ \E good \in BOOLEAN :
                     tx' = [HandleForcedAck(HandleAck(t, rx, a, good), id) EXCEPT
                              !.timers = @ \ {"ensure"}]
                /\ rx' = [rx EXCEPT !.hold = HoldAfter(a.next)]
                /\ posted' = TRUE
                /\ UNCHANGED <<ctl, io>>
      /\ due' = IF id = Indication THEN due ELSE due \ {id}
      /\ UNCHANGED <<burst, wire, app>>

-----------------------------------------------------------------------------
(* sendNow. *)

(* No baton, no burst; otherwise the burst is ppb packets long. *)
BeginBurst ==
  /\ Running
  /\ burst.pc = "begun"
  /\ burst' = IF tx.avail = 0 THEN [burst EXCEPT !.pc = "finish"]
              ELSE [burst EXCEPT !.pc = "loop", !.left = tx.ppb]
  /\ UNCHANGED <<ctl, tx, rx, io, posted, due, wire, app>>

(* The flagged packets from the last one sent on, or from the first if that *)
(* one is gone.                                                             *)
Resendable ==
  IF tx.resend = 0 THEN {}
  ELSE IF burst.last \in Sending(tx) THEN {s \in tx.flagged : s >= burst.last}
  ELSE tx.flagged

Wired(p) ==
  [f \in (DOMAIN p) \ {"xorNow"} |-> p[f]]

(* The loop has no break: it is the last of them that is resent. *)
PickResend ==
  /\ Running
  /\ burst.pc = "loop"
  /\ Resendable # {}
  /\ LET s == Greatest(Resendable)
     IN  burst' = [burst EXCEPT !.pc = "picked", !.picked = s,
                                !.message = Wired(tx.packets[s])]
  /\ UNCHANGED <<ctl, tx, rx, io, posted, due, wire, app>>

(* The vector of this burst: made for its first packet, copied by the rest. *)
BurstVector ==
  IF burst.first = NoPacket THEN ReceiverVector(rx)
  ELSE [vector |-> burst.vector, vp |-> burst.vp]

(* The packet that carries the last data there is, or is the last of the    *)
(* burst, requires an ACK.                                                  *)
NeedsAck == Len(io.unread) = 1 \/ burst.left = 1

NewPacket(ps) ==
  [seq |-> LowBits(tx.next), ps |-> ps, ar |-> NeedsAck,
   gsnr |-> LowBits(rx.gsnr), gsnfr |-> LowBits(rx.gsnfr),
   vector |-> BurstVector.vector, vp |-> BurstVector.vp,
   pg |-> rx.gsnrParity, xp |-> rx.xorFull, data |-> Head(io.unread),
   xorNow |-> XOR(tx.xorNow, ps)]

CreatePacket ==
  /\ Running
  /\ burst.pc = "loop"
  /\ Resendable = {}
  /\ ToWrite
  /\ \E ps \in ParityBits :
       LET p == NewPacket(ps)
       IN  /\ tx' = [tx EXCEPT !.next = @ + 1, !.xorNow = p.xorNow,
                       !.packets = [s \in (DOMAIN @) \cup {tx.next} |->
                                      IF s = tx.next THEN p ELSE @[s]],
                       !.timers = IF NeedsAck THEN @ \ {"ensure"} ELSE @]
           /\ burst' = [burst EXCEPT !.pc = "picked", !.picked = tx.next,
                          !.message = Wired(p), !.vector = p.vector, !.vp = p.vp,
                          !.first = IF @ = NoPacket THEN tx.next ELSE @]
  /\ io' = [io EXCEPT !.unread = Tail(@)]
  /\ UNCHANGED <<ctl, rx, posted, due, wire, app>>

NothingToSend ==
  /\ Running
  /\ burst.pc = "loop"
  /\ Resendable = {}
  /\ ~ToWrite
  /\ burst' = [burst EXCEPT !.pc = "finish"]
  /\ UNCHANGED <<ctl, tx, rx, io, posted, due, wire, app>>

(* notifyRUDPChannelStreamSendPacket, called without the lock. *)
SendPacket ==
  /\ Running
  /\ ChannelFree
  /\ burst.pc = "picked"
  /\ wire' = wire \cup {burst.message}
  /\ burst' = [burst EXCEPT !.pc = "sent"]
  /\ UNCHANGED <<ctl, tx, rx, io, posted, due, app>>

(* It returns false: the socket, or the channel, does not take the packet.  *)
SendFails ==
  /\ Running
  /\ ChannelFree
  /\ burst.pc = "picked"
  /\ burst' = [burst EXCEPT !.pc = "finish",
                            !.first = IF @ = burst.picked THEN NoPacket ELSE @]
  /\ UNCHANGED <<ctl, tx, rx, io, posted, due, wire, app>>

(* It throws DelegateGone. *)
SendGone ==
  /\ Running
  /\ burst.pc = "picked"
  /\ DelegateMayGo
  /\ Cancel("DelegateGone")
  /\ burst' = [burst EXCEPT !.pc = "finish"]
  /\ UNCHANGED <<posted, due, wire, app>>

(* A packet that was resent calls for a forced ACK.                         *)
AfterSend ==
  /\ Running
  /\ burst.pc = "sent"
  /\ tx' = IF burst.picked \in tx.flagged
             THEN [DoNotResend(tx, {burst.picked}) EXCEPT !.forceNext = TRUE]
             ELSE tx
  /\ burst' = [burst EXCEPT !.pc = IF burst.left = 1 THEN "finish" ELSE "loop",
                            !.left = @ - 1, !.last = burst.picked]
  /\ UNCHANGED <<ctl, rx, io, posted, due, wire, app>>

-----------------------------------------------------------------------------
(* sendNowCleanup. *)

BurstRequired(t) == t.avail # 0 /\ ((Sending(t) # {} /\ t.resend # 0) \/ ToWrite)

(* With batons to spare and data to write no ACK needs to be forced. *)
RoomToSend(t) == t.avail # 0 /\ ToWrite

(* A packet holding a baton may yet bring an ACK of its own accord. *)
AckExpected(t) == \E s \in t.holding \ t.flagged : t.packets[s].ar

ForceRequired(t) ==
  /\ Sending(t) # {}
  /\ t.forceID = 0
  /\ RoomToSend(t) => t.forceNext
  /\ t.forceNext \/ ~AckExpected(t)

(* A forced ACK is asked for, or is outstanding. *)
Forcing(t) == ForceRequired(t) \/ (Sending(t) # {} /\ t.forceID # 0)

(* A mutation of EnsureRequired: only while there are batons. *)
MutantEnsureRequired(t) ==
  Sending(t) # {} /\ t.avail # 0 /\ ~RoomToSend(t) /\ ~Forcing(t)

EnsureRequired(t) == Sending(t) # {} /\ ~RoomToSend(t) /\ ~Forcing(t)

AddRequired(t) ==
  /\ ~t.frozen
  /\ t.resend = 0
  /\ Sending(t) # {} \/ ToWrite
  /\ ~Forcing(t)

TimersAfter(t) ==
  (IF BurstRequired(t) THEN {"burst"} ELSE {}) \cup
  (IF EnsureRequired(t) THEN {"ensure"} ELSE {}) \cup
  (IF AddRequired(t) THEN {"add"} ELSE {})

Cleanup(t, id) ==
  LET u == [ForgetForce(t) EXCEPT !.timers = TimersAfter(t)]
  IN  IF ForceRequired(t)
        THEN [u EXCEPT !.forceID = id, !.forceSeq = t.next - 1, !.forceNext = FALSE]
        ELSE u

(* A mutation of AllDataSent: sent, but not acknowledged. *)
MutantAllDataSent(t) == IsShuttingDown /\ ~ToWrite

(* closeOnAllDataSent *)
AllDataSent(t) == IsShuttingDown /\ ~ToWrite /\ Sending(t) = {}

(* The last packet sent takes the baton of the burst, if not yet ACKed. *)
AfterBurst ==
  IF burst.last \in Sending(tx) \ tx.acked THEN ConsumeBaton(tx, burst.last) ELSE tx

FinishBurst ==
  /\ Running
  /\ burst.pc = "finish"
  /\ burst' = [burst EXCEPT !.pc = "unwind"]
  /\ UNCHANGED <<posted, wire, app>>
  /\ IF AllDataSent(AfterBurst)
       THEN Cancel("None") /\ UNCHANGED due
     ELSE IF ~ForceRequired(AfterBurst)
       THEN tx' = Cleanup(AfterBurst, 0) /\ UNCHANGED <<ctl, rx, io, due>>
     ELSE IF ~ctl.delegate
       THEN ctl' = [ctl EXCEPT !.state = "Crashed"] /\ UNCHANGED <<tx, rx, io, due>>
     ELSE \/ \E id \in AckIds \ (due \cup {tx.forceID}) :
               /\ tx' = Cleanup(AfterBurst, id)
               /\ due' = due \cup {id}
               /\ UNCHANGED <<ctl, rx, io>>
          \/ DelegateMayGo /\ Cancel("DelegateGone") /\ UNCHANGED due

(* The Unwinder clears mAttemptingSendNow, in a locked section of its own;  *)
(* handlePacket asks for an external ACK if no packet was created.          *)
UnwindBurst ==
  /\ Running
  /\ burst.pc = "unwind"
  /\ burst' = IdleBurst
  /\ UNCHANGED <<posted, wire, app>>
  /\ IF ~burst.ext \/ burst.first # NoPacket \/ ~ctl.delegate
       THEN UNCHANGED <<ctl, tx, rx, io, due>>
       ELSE \/ due' = due \cup {Indication} /\ UNCHANGED <<ctl, tx, rx, io>>
            \/ DelegateMayGo /\ Cancel("DelegateGone") /\ UNCHANGED due

SendNow ==
  \/ BeginBurst \/ PickResend \/ CreatePacket \/ NothingToSend
  \/ SendPacket \/ SendFails \/ SendGone \/ AfterSend \/ FinishBurst \/ UnwindBurst

-----------------------------------------------------------------------------
(* Timers and posted calls: each ends in sendNow.                           *)

OnBurstTimer ==
  /\ MayCallBack
  /\ "burst" \in tx.timers
  /\ EnterSendNow(FALSE, rx.hold)
  /\ UNCHANGED <<ctl, tx, rx, io, posted, wire, app>>

(* It fires once, and has an ACK forced.                                    *)
OnEnsureTimer ==
  /\ MayCallBack
  /\ "ensure" \in tx.timers
  /\ tx' = [tx EXCEPT !.timers = @ \ {"ensure"}, !.forceNext = TRUE]
  /\ EnterSendNow(FALSE, rx.hold)
  /\ UNCHANGED <<ctl, rx, io, posted, wire, app>>

(* One baton more or one packet per burst more, as rand() has it.           *)
OnAddTimer ==
  /\ MayCallBack
  /\ "add" \in tx.timers
  /\ \/ /\ tx.avail + Cardinality(tx.holding) < MaxBatons
        /\ tx' = [tx EXCEPT !.avail = @ + 1]
     \/ /\ tx.ppb < MaxBurst
        /\ tx' = [tx EXCEPT !.ppb = @ + 1]
  /\ EnterSendNow(FALSE, rx.hold)
  /\ UNCHANGED <<ctl, rx, io, posted, wire, app>>

(* onSendNow, onTransportStreamReaderReady. Posts that wait together count  *)
(* as one.                                                                  *)
OnSendNow ==
  /\ MayCallBack
  /\ posted
  /\ posted' = FALSE
  /\ EnterSendNow(FALSE, rx.hold)
  /\ UNCHANGED <<ctl, tx, rx, io, wire, app>>

-----------------------------------------------------------------------------
(* The application, on a thread of its own. *)

(* It writes to the transport stream, which reports it to the reader; the   *)
(* stream that cancel() closed takes no more.                               *)
Write ==
  /\ Running
  /\ io.written < MaxUnits
  /\ ~(IsShutdown /\ io.attached)
  /\ io' = [io EXCEPT !.written = @ + 1, !.unread = Append(@, io.written + 1)]
  /\ posted' = (posted \/ io.attached)
  /\ UNCHANGED <<ctl, tx, rx, burst, due, wire, app>>

(* setStreams *)
SetStreams ==
  /\ Running
  /\ ChannelFree
  /\ ~io.attached
  /\ io' = [io EXCEPT !.attached = TRUE, !.kept = << >>,
                      !.delivered = IF "Receive" \in ctl.dirs THEN @ ELSE @ \o io.kept]
  /\ posted' = (posted \/ io.unread # << >>)
  /\ UNCHANGED <<ctl, tx, rx, burst, due, wire, app>>

ShutDirections(dirs) ==
  [ctl EXCEPT !.dirs = @ \cup dirs,
              !.state = IF IsShutdown \/ IsShuttingDown THEN @
                        ELSE "DirectionalShutdown"]

ShutdownDirection(dirs) ==
  /\ Running
  /\ ChannelFree
  /\ ctl' = ShutDirections(dirs)
  /\ UNCHANGED <<tx, rx, io, burst, posted, due, wire, app>>

(* shutdown(false) *)
ShutdownNow ==
  /\ Running
  /\ ChannelFree
  /\ ~IsShutdown
  /\ Cancel("None")
  /\ UNCHANGED <<burst, posted, due, wire, app>>

(* shutdown(true) asks isShutdown before it takes the lock ...              *)
CheckShutdown ==
  /\ Running
  /\ ChannelFree
  /\ ~IsShutdown
  /\ app' = "checked"
  /\ UNCHANGED <<ctl, tx, rx, io, burst, posted, due, wire>>

(* ... and has setState call mDelegate under it.                            *)
BeginShutdown ==
  /\ Running
  /\ app = "checked"
  /\ app' = "none"
  /\ UNCHANGED <<burst, posted, due, wire>>
  /\ IF ~ctl.delegate
       THEN ctl' = [ctl EXCEPT !.state = "Crashed"] /\ UNCHANGED <<tx, rx, io>>
     ELSE IF ~ToWrite /\ Sending(tx) = {}
       THEN /\ ctl' = [ctl EXCEPT !.state = "Shutdown", !.delegate = FALSE,
                                  !.dirs = @ \cup {"Receive"}]
            /\ tx' = Cancelled(tx)
            /\ rx' = [rx EXCEPT !.pending = << >>]
            /\ UNCHANGED io
     ELSE /\ ctl' = [ctl EXCEPT !.state = "ShuttingDown", !.dirs = @ \cup {"Receive"}]
          /\ UNCHANGED <<tx, rx, io>>

(* The channel has sent the indication it was asked for. *)
SendIndication ==
  /\ Running
  /\ Indication \in due
  /\ due' = due \ {Indication}
  /\ UNCHANGED <<ctl, tx, rx, io, burst, posted, wire, app>>

-----------------------------------------------------------------------------
(* This end in an environment that may deliver any of Messages and Acks. *)

Callback ==
  \/ \E m \in Messages : HandlePacket(m)
  \/ \E id \in {Indication} \cup due, a \in Acks : HandleExternalAck(id, a)
  \/ OnBurstTimer \/ OnEnsureTimer \/ OnAddTimer \/ OnSendNow

Application ==
  \/ Write \/ SetStreams \/ ShutdownNow \/ CheckShutdown \/ BeginShutdown
  \/ \E dirs \in (SUBSET Directions) \ {{}} : ShutdownDirection(dirs)

Next == Callback \/ SendNow \/ Application \/ SendIndication

Spec == Init /\ [][Next]_vars
-----------------------------------------------------------------------------
(* Properties. *)

(* The sender's books balance, whatever the peer acknowledges and however   *)
(* the callbacks interleave: mTotalPacketsToResend counts the packets       *)
(* flagged for the next burst (doNotResend throws when it would pass zero), *)
(* a packet whose buffer was freed by an ACK is neither flagged nor holds a *)
(* baton, and there is always a baton, free or held by a packet that is     *)
(* still unacknowledged: handlePacketLoss never destroys the last one, so   *)
(* that sending can go on.                                                  *)
TxConsistent ==
  /\ tx.acked \subseteq Sending(tx)
  /\ tx.failed \subseteq Sending(tx)
  /\ tx.flagged \subseteq Sending(tx) \ tx.acked
  /\ tx.holding \subseteq Sending(tx) \ tx.acked
  /\ \A s \in Sending(tx) : s < tx.next
  /\ ctl.delegate => /\ tx.resend = Cardinality(tx.flagged)
                     /\ tx.avail = 0 => tx.holding # {}

(* While data waits to be sent or acknowledged, something is under way that *)
(* will call sendNow again: a burst, a posted call, the burst or the ensure *)
(* timer, or the answer to a forced ACK, even to one that was forgotten. (A *)
(* stream that holds sending waits for the peer instead.) A duplicate may   *)
(* carry the ACK that frees everything, and does not call sendNow.          *)
WorkPending == Sending(tx) # {} \/ ToWrite

NeverStalled ==
  Running /\ ~IsShutdown /\ WorkPending /\ rx.hold = 0 =>
    \/ burst.pc # "idle"
    \/ posted
    \/ tx.timers \cap {"burst", "ensure"} # {}
    \/ due \ {Indication} # {}

(* What the end that holds sending may be handed first: no packet of its    *)
(* peer lies beyond the window, which handlePacket drops (see IgnorePacket) *)
(* when it has ended the hold already.                                      *)
FirstInWindow ==
  HoldSending => \A m \in Messages :
    NumberWithHint(m.seq, FirstReceive - 1) < FirstReceive + Window

(* The state's types, with what they say of the receiver: the GSNFR never   *)
(* passes the GSNR, and whatever follows the GSNFR was delivered.           *)
TypeOK ==
  /\ ctl.state \in {"Connected", "DirectionalShutdown", "ShuttingDown", "Shutdown", "Crashed"}
  /\ ctl.dirs \subseteq {"Send", "Receive"}
  /\ ctl.delegate \in BOOLEAN
  /\ tx.avail \in Nat /\ tx.resend \in Nat /\ tx.ppb \in Nat \ {0}
  /\ tx.timers \subseteq {"burst", "ensure", "add"}
  /\ rx.gsnfr <= rx.gsnr
  /\ \A s \in DOMAIN rx.pending : rx.gsnfr + 1 < s /\ s <= rx.gsnr
  /\ due \subseteq AckIds \cup {Indication}
  /\ app \in {"none", "checked"}
  /\ burst.pc \in {"idle", "begun", "loop", "picked", "sent", "finish", "unwind"}

(* A shutdown of a stream that is already cancelled does nothing: the test  *)
(* at the head of shutdown(true), "shutdown called but already cancelled".  *)
NoCrash == Running
=============================================================================
