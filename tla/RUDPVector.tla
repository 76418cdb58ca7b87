----------------------------- MODULE RUDPVector -----------------------------
(***************************************************************************)
(* One acknowledgement from the receiver that encodes it to the sender     *)
(* that decodes it. The receiver walks its buffered packets                *)
(* (RUDPChannelStream::getState, sendNow) and calls vectorEncoderAdd for   *)
(* every number above its GSNFR until the encoder refuses. The low bits of *)
(* its GSNR and GSNFR travel with the vector; the sender (handlePacket,    *)
(* handleAck) expands them with its own next number as the hint, and pulls *)
(* one packet's state at a time until there is no more data.               *)
(***************************************************************************)
EXTENDS RUDPPacket, FiniteSets

CONSTANTS
  FirstMissing, \* which numbers the first missing packet may have
  MaxGap,       \* bound: the greatest GSNR - GSNFR
  MaxAhead      \* bound: how far beyond the GSNR the sender may be

ASSUME VectorAssumption ==
  /\ FirstMissing \subseteq Nat \ {0}
  /\ MaxGap \in Nat
  /\ MaxAhead \in Nat

VARIABLES
  gsnfr,    \* the receiver's GSNFR
  status,   \* what is known of each packet between GSNFR and GSNR
  parity,   \* the PS bit of each received packet
  xp,       \* mXORedParityToGSNFR
  enc,      \* VectorEncoderState
  sent,     \* the acknowledgement as it is in the packet
  got,      \* GSNR and GSNFR as the sender expands them
  dec,      \* VectorDecoderState
  seen,     \* the states the decoder returned so far
  phase     \* "encode", "sent", "decode", "done"

receiver == <<gsnfr, status, parity, xp>>
vars == <<receiver, enc, sent, got, dec, seen, phase>>

Gap == Len(status) + 1      \* GSNR - GSNFR
GSNR == gsnfr + Gap

(* The hint is near enough to the number: the window of 256 packets is far  *)
(* below half the modulus.                                                  *)
Near(number, hint) ==
  2 * (number - hint) < SeqModulus /\ 2 * (hint - number) < SeqModulus

Init ==
  /\ \E first \in FirstMissing : gsnfr = first - 1
  /\ \E n \in 0..(MaxGap - 1) :
       /\ status \in [1..n -> VectorStates]
       /\ parity \in [1..n -> BOOLEAN]
  /\ xp \in BOOLEAN
  /\ enc = EncoderStart(GSNR, gsnfr, xp)
  /\ sent = [gsnr |-> 0, gsnfr |-> 0, vector |-> << >>, vp |-> FALSE]
  /\ got = [gsnr |-> 0, gsnfr |-> 0]
  /\ dec = DecoderStart(<< >>, 0, 0)
  /\ seen = << >>
  /\ phase = "encode"

(* The GSNR itself is in the buffer too, so the walk reaches it; what is    *)
(* passed for it does not matter, the encoder refuses it.                   *)
Encode ==
  /\ phase = "encode" /\ ~enc.full
  /\ LET i == enc.cur + 1 - gsnfr IN
       enc' = EncoderAdd(enc, IF i < Gap THEN status[i] ELSE "Received",
                              i < Gap /\ parity[i])
  /\ UNCHANGED <<receiver, sent, got, dec, seen, phase>>

(* vectorEncoderFinalize and setGSN *)
Finalize ==
  /\ phase = "encode" /\ enc.full
  /\ LET final == EncoderFinalize(enc) IN
       sent' = [gsnr |-> LowBits(GSNR), gsnfr |-> LowBits(gsnfr),
                vector |-> final.vector, vp |-> final.vp]
  /\ phase' = "sent"
  /\ UNCHANGED <<receiver, enc, got, dec, seen>>

(* The sender has sent the GSNR, perhaps more since, and uses its next      *)
(* number as the hint for both numbers.                                     *)
Receive ==
  /\ phase = "sent"
  /\ \E ahead \in 0..MaxAhead :
       LET hint == GSNR + 1 + ahead
           n    == [gsnr  |-> NumberWithHint(sent.gsnr, hint),
                    gsnfr |-> NumberWithHint(sent.gsnfr, hint)]
       IN  /\ Near(gsnfr, hint)
           /\ got' = n
           /\ dec' = DecoderStart(sent.vector, n.gsnr, n.gsnfr)
  /\ phase' = "decode"
  /\ UNCHANGED <<receiver, enc, sent, seen>>

Decode ==
  /\ phase = "decode" /\ DecoderHasData(dec)
  /\ seen' = Append(seen, DecoderState(dec))
  /\ dec' = DecoderAdvance(dec)
  /\ UNCHANGED <<receiver, enc, sent, got, phase>>

NoMoreData ==
  /\ phase = "decode" /\ ~DecoderHasData(dec)
  /\ phase' = "done"
  /\ UNCHANGED <<receiver, enc, sent, got, dec, seen>>

Next == Encode \/ Finalize \/ Receive \/ Decode \/ NoMoreData

Spec == Init /\ [][Next]_vars

-----------------------------------------------------------------------------

(* The numbers the receiver meant are the numbers the sender reads, across  *)
(* every wrap of the low bits and however far the sender has gone on:       *)
(* getNumberWithHint picks the candidate nearest the hint and never a       *)
(* negative one.                                                            *)
Recovered ==
  phase \in {"decode", "done"} => got = [gsnr |-> GSNR, gsnfr |-> gsnfr]

(* What the sender decodes about a packet is what the receiver knows of it, *)
(* position by position, and it stops short of the GSNR only when the       *)
(* vector was full: a run split at the wrong place, or an omitted vector    *)
(* read with the wrong length, would acknowledge or resend the wrong        *)
(* packets.                                                                 *)
DecodedIsTrue ==
  /\ Len(seen) <= Len(status)
  /\ \A i \in 1..Len(seen) : seen[i] = status[i]
  /\ phase = "done" => Len(seen) = Len(status) \/ Len(sent.vector) = MaxVector

(* The VP bit in the packet is the parity handleAck computes from the       *)
(* packets it decodes as received; otherwise it would throw IllegalACK at   *)
(* an honest peer.                                                          *)
ParityOfDecoded ==
  phase = "done" =>
    LET odd == {i \in 1..Len(seen) : seen[i] # "NotReceived" /\ parity[i]}
    IN  sent.vp = XOR(xp, Cardinality(odd) % 2 = 1)

=============================================================================
