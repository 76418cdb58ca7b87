-------------------------- MODULE RUDPVectorProofs --------------------------
(***************************************************************************)
(* What the receiver tells the sender reads, step by step: the numbers of  *)
(* an acknowledgement survive the cut to their low bits, and what is       *)
(* decoded is what was encoded, for every modulus, longest run and longest *)
(* vector.                                                                 *)
(***************************************************************************)
EXTENDS RUDPVector, RUDPPacketProofs

(* What the receiver has is described by natural numbers, and what it puts  *)
(* in the packet are their low bits.                                        *)
Inv ==
  /\ gsnfr \in Nat /\ GSNR \in Nat /\ gsnfr < GSNR
  /\ phase \in {"encode", "sent", "decode", "done"}
  /\ phase # "encode" => sent.gsnr = LowBits(GSNR) /\ sent.gsnfr = LowBits(gsnfr)
  /\ Recovered

LEMMA InvInit ==
  ASSUME Init
  PROVE  Inv
<1>1. gsnfr \in Nat
  BY VectorAssumption DEF Init
<1>2. Gap \in Nat \ {0}
  <2>1. PICK n \in 0..(MaxGap - 1) : status \in [1..n -> VectorStates]
    BY DEF Init
  <2>2. n \in Nat
    BY VectorAssumption
  <2>3. Len(status) = n
    BY <2>1, <2>2
  <2> QED BY <2>2, <2>3 DEF Gap
<1> QED BY <1>1, <1>2 DEF Inv, GSNR, Recovered, Init

LEMMA InvNext ==
  ASSUME Inv, [Next]_vars
  PROVE  Inv'
<1>1. CASE UNCHANGED vars
  BY <1>1 DEF Inv, vars, receiver, GSNR, Gap, Recovered
<1>2. CASE Encode
  BY <1>2 DEF Inv, Encode, receiver, GSNR, Gap, Recovered
<1>3. CASE Finalize
  BY <1>3 DEF Inv, Finalize, receiver, GSNR, Gap, Recovered
<1>4. CASE Receive
  <2>1. UNCHANGED <<gsnfr, status, sent>> /\ phase = "sent" /\ phase' = "decode"
    BY <1>4 DEF Receive, receiver
  <2>2. PICK ahead \in 0..MaxAhead :
          /\ Near(gsnfr, GSNR + 1 + ahead)
          /\ got' = [gsnr  |-> NumberWithHint(sent.gsnr, GSNR + 1 + ahead),
                     gsnfr |-> NumberWithHint(sent.gsnfr, GSNR + 1 + ahead)]
    BY <1>4 DEF Receive
  <2> DEFINE hint == GSNR + 1 + ahead
  <2>3. /\ hint \in Nat /\ Near(gsnfr, hint) /\ Near(GSNR, hint)
        /\ gsnfr \in Nat /\ GSNR \in Nat
    BY <2>2, VectorAssumption, SeqModulusAssumption DEF Inv, Near
  <2>4. got' = [gsnr |-> GSNR, gsnfr |-> gsnfr]
    <3> HIDE DEF hint
    <3>1. NumberWithHint(LowBits(GSNR), hint) = GSNR
      BY <2>3, NumberWithHintInverts DEF Near
    <3>2. NumberWithHint(LowBits(gsnfr), hint) = gsnfr
      BY <2>3, NumberWithHintInverts DEF Near
    <3>3. sent.gsnr = LowBits(GSNR) /\ sent.gsnfr = LowBits(gsnfr)
      BY <2>1 DEF Inv
    <3> QED BY <2>2, <3>1, <3>2, <3>3 DEF hint
  <2> QED BY <2>1, <2>4 DEF Inv, GSNR, Gap, Recovered
<1>5. CASE Decode
  BY <1>5 DEF Inv, Decode, receiver, GSNR, Gap, Recovered
<1>6. CASE NoMoreData
  BY <1>6 DEF Inv, NoMoreData, receiver, GSNR, Gap, Recovered
<1> QED BY <1>1, <1>2, <1>3, <1>4, <1>5, <1>6 DEF Next

(* Every acknowledgement's GSNR and GSNFR are read as they were meant, for   *)
(* every modulus, gap, vector and bound, as long as the sender's next       *)
(* number is less than half the modulus beyond the GSNFR.                   *)
THEOREM SequenceRecovered == Spec => []Recovered
<1>1. Init => Inv
  BY InvInit
<1>2. Inv /\ [Next]_vars => Inv'
  BY InvNext
<1>3. Inv => Recovered
  BY DEF Inv
<1> QED
  BY <1>1, <1>2, <1>3, PTL DEF Spec

-----------------------------------------------------------------------------
(* The encoder and the decoder *)

(* How many packets after the GSNFR are in the vector *)
Covered == CoveredBy(enc)

(* The first n packets of which the parity counts *)
Odd(n) == {i \in 1..n : status[i] # "NotReceived" /\ parity[i]}

OddIs(n) == Cardinality(Odd(n)) % 2 = 1

ReceiverOK == status \in Seq(VectorStates) /\ xp \in BOOLEAN /\ gsnfr \in Nat

(* A vector that ends before the packets do is full. *)
EncoderOK == EncoderFits(enc, GSNR, gsnfr, status)

(* VP is the parity of what is in the vector. *)
ParityOK == enc.xor \in BOOLEAN /\ (enc.xor <=> ~(xp <=> OddIs(Covered)))

(* What is sent is what was encoded, or nothing.                            *)
SentOK ==
  phase # "encode" =>
    /\ enc.full
    /\ sent.vp = enc.xor
    /\ sent.vector = EncoderFinalize(enc).vector

(* What the decoder has not yet returned it still holds.                    *)
DecoderOK ==
  /\ phase \in {"encode", "sent"} => seen = << >>
  /\ phase \in {"decode", "done"} => DecoderFits(dec, seen, status, Covered)
  /\ phase = "done" => Len(seen) = Covered

LEMMA OddStart == ~OddIs(0)
<1>1. Odd(0) = {} /\ Cardinality({}) = 0
  BY FS_EmptySet DEF Odd
<1> QED BY <1>1 DEF OddIs

LEMMA OddNext ==
  ASSUME NEW n \in Nat
  PROVE  /\ status[n + 1] # "NotReceived" /\ parity[n + 1] => (OddIs(n + 1) <=> ~OddIs(n))
         /\ ~(status[n + 1] # "NotReceived" /\ parity[n + 1]) => (OddIs(n + 1) <=> OddIs(n))
<1>1. IsFiniteSet(Odd(n)) /\ Cardinality(Odd(n)) \in Nat
  <2>1. Odd(n) \subseteq 1..n
    BY DEF Odd
  <2>2. IsFiniteSet(1..n)
    BY FS_Interval
  <2>3. IsFiniteSet(Odd(n))
    BY <2>1, <2>2, FS_Subset
  <2> QED BY <2>3, FS_CardinalityType
<1>2. n + 1 \notin Odd(n)
  BY DEF Odd
<1>3. CASE status[n + 1] # "NotReceived" /\ parity[n + 1]
  <2>1. Odd(n + 1) = Odd(n) \cup {n + 1}
    BY <1>3 DEF Odd
  <2>2. Cardinality(Odd(n + 1)) = Cardinality(Odd(n)) + 1
    BY <1>1, <1>2, <2>1, FS_AddElement
  <2> QED BY <1>1, <1>3, <2>2 DEF OddIs
<1>4. CASE ~(status[n + 1] # "NotReceived" /\ parity[n + 1])
  <2>1. Odd(n + 1) = Odd(n)
    BY <1>4 DEF Odd
  <2> QED BY <1>4, <2>1 DEF OddIs
<1> QED BY <1>3, <1>4

LEMMA ReceiverInit ==
  ASSUME Init
  PROVE  ReceiverOK
<1>1. PICK n \in 0..(MaxGap - 1) : status \in [1..n -> VectorStates]
  BY DEF Init
<1>2. n \in Nat /\ gsnfr \in Nat
  BY VectorAssumption DEF Init
<1>3. status \in Seq(VectorStates)
  BY <1>1, <1>2
<1> QED BY <1>2, <1>3 DEF ReceiverOK, Init

LEMMA GSNRIs ==
  ASSUME ReceiverOK
  PROVE  GSNR = gsnfr + Len(status) + 1 /\ Len(status) \in Nat
BY DEF ReceiverOK, GSNR, Gap

LEMMA EncoderInit ==
  ASSUME Init
  PROVE  EncoderOK /\ ParityOK
<1>1. ReceiverOK /\ enc = EncoderStart(GSNR, gsnfr, xp)
  BY ReceiverInit DEF Init
<1>2. EncoderOK /\ Covered = 0 /\ enc.xor = xp
  BY <1>1, EncoderStartFits DEF EncoderOK, Covered, ReceiverOK
<1>3. ~OddIs(Covered)
  BY <1>2, OddStart
<1>4. ParityOK
  BY <1>1, <1>2, <1>3, Zenon DEF ParityOK, ReceiverOK
<1> QED BY <1>2, <1>4

(* vectorEncoderAdd *)
LEMMA EncoderAdds ==
  ASSUME ReceiverOK, EncoderOK, ParityOK, Encode
  PROVE  EncoderOK' /\ ParityOK'
<1> DEFINE i == enc.cur + 1 - gsnfr
           state == IF i < Gap THEN status[i] ELSE "Received"
           bit == i < Gap /\ parity[i]
<1>1. /\ ~enc.full /\ UNCHANGED <<gsnfr, status, parity, xp>>
      /\ enc' = EncoderAdd(enc, state, bit)
  BY DEF Encode, receiver
<1>2. /\ status \in Seq(VectorStates) /\ gsnfr \in Nat
      /\ GSNR = gsnfr + Len(status) + 1 /\ Gap = Len(status) + 1 /\ Len(status) \in Nat
      /\ EncoderFits(enc, GSNR, gsnfr, status)
      /\ enc.cur \in Nat /\ enc.gsnfr = gsnfr /\ Covered = enc.cur - gsnfr
      /\ Covered \in Nat
  BY <1>1, GSNRIs DEF EncoderOK, ReceiverOK, EncoderFits, Covered, CoveredBy, Gap
<1>3. enc.cur + 1 < GSNR <=> i < Gap
  BY <1>2
<1>4. i = Covered + 1
  BY <1>2
<1> HIDE DEF i, bit
<1>5. enc.cur + 1 < GSNR => state = status[enc.cur + 1 - gsnfr]
  BY <1>3 DEF i
<1> HIDE DEF state
<1>6. /\ EncoderFits(enc', GSNR, gsnfr, status)
      /\ enc'.full => enc'.xor = enc.xor /\ Covered' = Covered
      /\ ~enc'.full => /\ enc'.xor = ParityWith(enc.xor, state, bit)
                       /\ Covered' = Covered + 1
                       /\ enc.cur + 1 < GSNR
  BY <1>1, <1>2, <1>5, EncoderAddFits DEF Covered
<1>7. UNCHANGED <<GSNR, Gap>>
  BY <1>1 DEF GSNR, Gap
<1>8. EncoderOK'
  BY <1>1, <1>6, <1>7 DEF EncoderOK
<1>9. \A n : OddIs(n)' = OddIs(n)
  BY <1>1 DEF OddIs, Odd
<1>10. CASE enc'.full
  BY <1>1, <1>6, <1>8, <1>9, <1>10 DEF ParityOK, OddIs, Odd
<1>11. CASE ~enc'.full
  <2>1. state = status[i] /\ (bit <=> parity[i])
    BY <1>3, <1>6, <1>11 DEF state, bit
  <2>2. OddIs(Covered)' = OddIs(Covered + 1)
    BY <1>1, <1>6, <1>11 DEF OddIs, Odd
  <2>3. /\ state # "NotReceived" /\ bit => (OddIs(Covered + 1) <=> ~OddIs(Covered))
        /\ ~(state # "NotReceived" /\ bit) => (OddIs(Covered + 1) <=> OddIs(Covered))
    BY <1>2, <1>4, <2>1, OddNext
  <2>4. bit \in BOOLEAN
    BY <1>3, <1>6, <1>11 DEF bit
  <2>5. CASE state # "NotReceived" /\ bit
    <3>1. enc'.xor \in BOOLEAN /\ (enc'.xor <=> ~enc.xor)
      BY <1>6, <1>11, <2>5, Zenon DEF ParityWith, XOR, ParityOK
    <3>2. enc'.xor <=> ~(xp <=> OddIs(Covered + 1))
      BY <2>3, <2>5, <3>1, Zenon DEF ParityOK
    <3> QED BY <1>1, <1>8, <2>2, <3>1, <3>2, Zenon DEF ParityOK
  <2>6. CASE ~(state # "NotReceived" /\ bit)
    <3>1. enc'.xor \in BOOLEAN /\ (enc'.xor <=> enc.xor)
      BY <1>6, <1>11, <2>4, <2>6, Zenon DEF ParityWith, XOR, ParityOK
    <3>2. enc'.xor <=> ~(xp <=> OddIs(Covered + 1))
      BY <2>3, <2>6, <3>1, Zenon DEF ParityOK
    <3> QED BY <1>1, <1>8, <2>2, <3>1, <3>2, Zenon DEF ParityOK
  <2> QED BY <2>5, <2>6
<1> QED BY <1>10, <1>11

VectorInv == Inv /\ ReceiverOK /\ EncoderOK /\ ParityOK /\ SentOK /\ DecoderOK

LEMMA VectorInvInit ==
  ASSUME Init
  PROVE  VectorInv
<1>1. Inv /\ ReceiverOK /\ EncoderOK /\ ParityOK
  BY InvInit, ReceiverInit, EncoderInit
<1>2. phase = "encode" /\ seen = << >>
  BY DEF Init
<1>3. SentOK /\ DecoderOK
  BY <1>2 DEF SentOK, DecoderOK
<1> QED BY <1>1, <1>3 DEF VectorInv

LEMMA VectorInvNext ==
  ASSUME VectorInv, [Next]_vars
  PROVE  VectorInv'
<1>1. Inv'
  BY InvNext DEF VectorInv
<1>2. ReceiverOK'
  BY DEF VectorInv, ReceiverOK, Next, vars, receiver, Encode, Finalize, Receive, Decode, NoMoreData
<1>3. CASE Encode
  <2>1. phase = "encode" /\ phase' = phase /\ UNCHANGED seen
    BY <1>3 DEF Encode, receiver
  <2>2. EncoderOK' /\ ParityOK'
    BY <1>3, EncoderAdds DEF VectorInv
  <2>3. SentOK' /\ DecoderOK'
    BY <2>1 DEF VectorInv, SentOK, DecoderOK
  <2> QED BY <1>1, <1>2, <2>2, <2>3 DEF VectorInv
<1>4. ASSUME UNCHANGED <<receiver, enc>>
      PROVE  EncoderOK' /\ ParityOK' /\ Covered' = Covered /\ status' = status
  <2>1. UNCHANGED <<gsnfr, status, parity, xp, enc>>
    BY <1>4 DEF receiver
  <2>2. UNCHANGED <<GSNR, Covered>>
    BY <2>1 DEF GSNR, Gap, Covered
  <2> QED BY <2>1, <2>2 DEF VectorInv, EncoderOK, ParityOK, OddIs, Odd
<1>5. CASE Finalize
  <2>1. /\ phase = "encode" /\ phase' = "sent" /\ enc.full
        /\ UNCHANGED <<receiver, enc, seen>>
        /\ sent'.vp = enc.xor
        /\ sent'.vector = EncoderFinalize(enc).vector
    BY <1>5 DEF Finalize, EncoderFinalize
  <2>2. SentOK' /\ DecoderOK'
    BY <2>1 DEF VectorInv, SentOK, DecoderOK
  <2> QED BY <1>1, <1>2, <1>4, <2>1, <2>2 DEF VectorInv
<1>6. CASE Receive
  <2>1. /\ phase = "sent" /\ phase' = "decode"
        /\ UNCHANGED <<receiver, enc, sent, seen>>
        /\ dec' = DecoderStart(sent.vector, got'.gsnr, got'.gsnfr)
    BY <1>6 DEF Receive
  <2>2. got'.gsnr = GSNR /\ got'.gsnfr = gsnfr
    <3>1. got' = [gsnr |-> GSNR, gsnfr |-> gsnfr]
      BY <1>1, <2>1 DEF Inv, Recovered, GSNR, Gap, receiver
    <3> QED BY <3>1
  <2>3. DecoderFits(dec', << >>, status, Covered)
    <3>1. dec' = DecoderStart(EncoderFinalize(enc).vector, GSNR, gsnfr)
      BY <2>1, <2>2 DEF VectorInv, SentOK
    <3>2. CoveredBy(enc) = Len(status) \/ Len(enc.bytes) = MaxVector
      BY <2>1 DEF VectorInv, SentOK, EncoderOK, EncoderFits
    <3>3. /\ status \in Seq(VectorStates) /\ gsnfr \in Nat
          /\ GSNR = gsnfr + Len(status) + 1 /\ EncoderFits(enc, GSNR, gsnfr, status)
      BY GSNRIs DEF VectorInv, EncoderOK, ReceiverOK
    <3> QED BY <3>1, <3>2, <3>3, DecoderStartFits DEF Covered
  <2>4. DecoderOK'
    BY <1>4, <2>1, <2>3 DEF VectorInv, DecoderOK
  <2>5. SentOK'
    BY <2>1 DEF VectorInv, SentOK
  <2> QED BY <1>1, <1>2, <1>4, <2>1, <2>4, <2>5 DEF VectorInv
<1>7. CASE Decode
  <2>1. /\ phase = "decode" /\ DecoderHasData(dec)
        /\ seen' = Append(seen, DecoderState(dec)) /\ dec' = DecoderAdvance(dec)
        /\ UNCHANGED <<receiver, enc, sent, phase>>
    BY <1>7 DEF Decode
  <2>2. SentOK'
    BY <2>1 DEF VectorInv, SentOK
  <2>3. DecoderFits(dec, seen, status, Covered) /\ Covered \in Nat
    BY <2>1 DEF VectorInv, DecoderOK, EncoderOK, EncoderFits, ReceiverOK, Covered
  <2>4. DecoderFits(dec', seen', status, Covered)
    BY <2>1, <2>3, DecoderAdvanceFits
  <2>5. DecoderOK'
    BY <1>4, <2>1, <2>4 DEF DecoderOK
  <2> QED BY <1>1, <1>2, <1>4, <2>1, <2>2, <2>5 DEF VectorInv
<1>8. CASE NoMoreData
  <2>1. /\ phase = "decode" /\ phase' = "done" /\ ~DecoderHasData(dec)
        /\ UNCHANGED <<receiver, enc, sent, dec, seen>>
    BY <1>8 DEF NoMoreData
  <2>2. SentOK'
    BY <2>1 DEF VectorInv, SentOK
  <2>3. DecoderFits(dec, seen, status, Covered) /\ Covered \in Nat
    BY <2>1 DEF VectorInv, DecoderOK, EncoderOK, EncoderFits, ReceiverOK, Covered
  <2>4. Len(seen) = Covered
    BY <2>1, <2>3, DecoderEndFits
  <2>5. DecoderOK'
    BY <1>4, <2>1, <2>3, <2>4 DEF DecoderOK
  <2> QED BY <1>1, <1>2, <1>4, <2>1, <2>2, <2>5 DEF VectorInv
<1>9. CASE UNCHANGED vars
  <2>1. UNCHANGED <<receiver, enc, sent, dec, seen, phase>>
    BY <1>9 DEF vars, receiver
  <2>2. SentOK' /\ DecoderOK'
    BY <1>4, <2>1 DEF VectorInv, SentOK, DecoderOK
  <2> QED BY <1>1, <1>2, <1>4, <2>1, <2>2 DEF VectorInv
<1> QED BY <1>3, <1>5, <1>6, <1>7, <1>8, <1>9 DEF Next

(* Of every packet up to where the vector ends the sender decodes what the  *)
(* receiver knew, whatever it knew, and the vector ends early only when it  *)
(* is full: for every longest run, longest vector and modulus.              *)
THEOREM SpecDecodedIsTrue == Spec => []DecodedIsTrue
<1>1. VectorInv => DecodedIsTrue
  <2> SUFFICES ASSUME VectorInv PROVE DecodedIsTrue
    OBVIOUS
  <2>1. Covered \in 0..Len(status) /\ Len(status) \in Nat
    BY DEF VectorInv, EncoderOK, EncoderFits, ReceiverOK, Covered
  <2>2. phase \in {"encode", "sent", "decode", "done"}
    BY DEF VectorInv, Inv
  <2>3. /\ Len(seen) <= Len(status)
        /\ \A i \in 1..Len(seen) : seen[i] = status[i]
    <3>1. CASE phase \in {"encode", "sent"}
      BY <2>1, <3>1 DEF VectorInv, DecoderOK
    <3>2. CASE phase \in {"decode", "done"}
      <4>1. DecoderFits(dec, seen, status, Covered)
        BY <3>2 DEF VectorInv, DecoderOK
      <4> QED BY <2>1, <4>1 DEF DecoderFits
    <3> QED BY <2>2, <3>1, <3>2
  <2>4. ASSUME phase = "done"
        PROVE  Len(seen) = Len(status) \/ Len(sent.vector) = MaxVector
    <3>1. /\ Len(seen) = Covered
          /\ Covered = Len(status) \/ Len(enc.bytes) = MaxVector
          /\ sent.vector = IF OmitsVector(enc) THEN << >> ELSE enc.bytes
          /\ enc.gsnr # enc.gsnfr
      BY <2>1, <2>4, GSNRIs
         DEF VectorInv, DecoderOK, EncoderOK, EncoderFits, ReceiverOK, SentOK, Covered,
             EncoderFinalize
    <3>2. OmitsVector(enc) => Len(enc.bytes) # MaxVector
      BY <3>1, MaxVectorAssumption DEF OmitsVector
    <3> QED BY <3>1, <3>2
  <2> QED BY <2>3, <2>4 DEF DecodedIsTrue
<1> QED BY <1>1, VectorInvInit, VectorInvNext, PTL DEF Spec

(* The parity that travels with the vector is that of the packets which the *)
(* sender decodes as received: handleAck accepts an honest acknowledgement. *)
THEOREM SpecParityOfDecoded == Spec => []ParityOfDecoded
<1>1. VectorInv => ParityOfDecoded
  <2> SUFFICES ASSUME VectorInv, phase = "done" PROVE ParityOfDecoded
    BY DEF ParityOfDecoded
  <2>1. /\ Len(seen) = Covered /\ sent.vp = enc.xor
        /\ enc.xor \in BOOLEAN /\ xp \in BOOLEAN
        /\ enc.xor <=> ~(xp <=> OddIs(Covered))
        /\ \A i \in 1..Len(seen) : seen[i] = status[i]
    BY DEF VectorInv, DecoderOK, DecoderFits, SentOK, ParityOK, ReceiverOK
  <2> DEFINE odd == {i \in 1..Len(seen) : seen[i] # "NotReceived" /\ parity[i]}
  <2>2. odd = Odd(Covered)
    BY <2>1 DEF Odd
  <2> HIDE DEF odd
  <2>3. sent.vp = XOR(xp, Cardinality(odd) % 2 = 1)
    BY <2>1, <2>2, Zenon DEF XOR, OddIs
  <2> QED BY <2>3 DEF ParityOfDecoded, odd
<1> QED BY <1>1, VectorInvInit, VectorInvNext, PTL DEF Spec
=============================================================================
