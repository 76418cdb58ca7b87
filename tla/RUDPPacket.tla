----------------------------- MODULE RUDPPacket -----------------------------
(***************************************************************************)
(* The pure part of the RUDP wire format                                   *)
(* (openpeer/services/cpp/services_RUDPPacket.cpp): how a sequence number  *)
(* cut to the low bits that travel in a packet is expanded again, and the  *)
(* run-length coded vector that tells the sender which of the packets      *)
(* between the receiver's GSNFR (Greatest Sequence Number Fully Received)  *)
(* and GSNR (Greatest Sequence Number Received) have arrived.              *)
(*                                                                         *)
(* A vector byte is the record [state, run]: the code packs a two-bit      *)
(* state and a six-bit run length in a BYTE.                               *)
(***************************************************************************)
EXTENDS Integers, Sequences

CONSTANTS
  SeqModulus,   \* sequence numbers are sent modulo this (2^24 in the code)
  MaxRun,       \* the longest run one vector byte can hold (0x3F)
  MaxVector     \* the most bytes a vector may have (0x7F)

ASSUME SeqModulusAssumption == SeqModulus \in Nat \ {0}
ASSUME MaxRunAssumption == MaxRun \in Nat \ {0}
(* A vector that may have but one byte could be full of missing packets and *)
(* be left out: the sender would not see where it ends.                     *)
ASSUME MaxVectorAssumption == MaxVector \in Nat \ {0, 1}

-----------------------------------------------------------------------------
(* Sequence numbers. *)

(* setSequenceNumber, setGSN: only the low bits are kept. *)
LowBits(n) == n % SeqModulus

(* A mutation of NumberWithHint: the number may only be at or above the    *)
(* hint, as if packets were never late.                                    *)
MutantNumberWithHint(number, hint) ==
  LET merged == hint - (hint % SeqModulus) + number
  IN  IF merged < hint THEN merged + SeqModulus ELSE merged

(* getNumberWithHint: the high part is taken from the hint, or is one above *)
(* or one below it when that lands nearer to the hint.                      *)
NumberWithHint(number, hint) ==
  LET upper  == hint - (hint % SeqModulus)
      merged == upper + number
  IN  IF merged < hint
        THEN IF (merged + SeqModulus) - hint < hint - merged
               THEN merged + SeqModulus ELSE merged
        ELSE IF upper >= SeqModulus /\ hint - (merged - SeqModulus) < merged - hint
               THEN merged - SeqModulus ELSE merged

-----------------------------------------------------------------------------
(* The vector. *)

VectorStates == {"Received", "ReceivedECNMarked", "NotReceived"}

VectorByte == [state : VectorStates, run : 0..MaxRun]

XOR(a, b) == a # b

(* VectorEncoderState. "cur" is mCurrentSequenceNumber, "full" records that *)
(* the last vectorEncoderAdd returned false, after which callers stop.      *)
EncoderStart(gsnr, gsnfr, xp) ==
  [bytes |-> << >>, gsnr |-> gsnr, gsnfr |-> gsnfr, cur |-> gsnfr,
   xor |-> xp, full |-> FALSE]

ByteIsFull(byte) == byte.run = MaxRun

(* A mutation of ParityWith: missing packets count as well. *)
MutantParityWith(xor, state, parity) == XOR(xor, parity)

ParityWith(xor, state, parity) ==
  IF state = "NotReceived" THEN xor ELSE XOR(xor, parity)

(* vectorEncoderAdd: never up to the GSNR; a byte is begun when there is    *)
(* none, when the state changes or when the run is at its longest.          *)
EncoderAdd(e, state, parity) ==
  LET n      == Len(e.bytes)
      begins == n = 0 \/ e.bytes[n].state # state \/ ByteIsFull(e.bytes[n])
      bytes  == IF begins THEN Append(e.bytes, [state |-> state, run |-> 1])
                          ELSE [e.bytes EXCEPT ![n].run = @ + 1]
  IN  IF e.cur + 1 >= e.gsnr \/ (begins /\ n >= MaxVector)
        THEN [e EXCEPT !.cur = @ + 1, !.full = TRUE]
        ELSE [e EXCEPT !.cur = @ + 1, !.bytes = bytes,
                       !.xor = ParityWith(@, state, parity)]

(* A mutation of OmitsVector: any vector of one byte is omitted. *)
MutantOmitsVector(e) == e.gsnfr = e.gsnr \/ Len(e.bytes) = 1

(* One run of packets that are all missing needs no vector at all. *)
OmitsVector(e) ==
  \/ e.gsnfr = e.gsnr
  \/ Len(e.bytes) = 1 /\ e.bytes[1].state = "NotReceived"

(* vectorEncoderFinalize *)
EncoderFinalize(e) ==
  [vector |-> IF OmitsVector(e) THEN << >> ELSE e.bytes, vp |-> e.xor]

(* How many missing packets an omitted vector stands for, in six bits. *)
OmittedRun(gsnr, gsnfr) == (gsnr - gsnfr - 1) % (MaxRun + 1)

(* vectorDecoderStart *)
DecoderStart(vector, gsnr, gsnfr) ==
  [bytes |-> IF gsnr # gsnfr /\ vector = << >>
               THEN << [state |-> "NotReceived", run |-> OmittedRun(gsnr, gsnfr)] >>
               ELSE vector,
   consumed |-> 0]

(* vectorDecoderGetNextPacketState does not return VectorState_NoMoreData. *)
DecoderHasData(d) == d.bytes # << >> /\ Head(d.bytes).run # 0

(* The state vectorDecoderGetNextPacketState then returns ... *)
DecoderState(d) == Head(d.bytes).state

(* ... and the decoder it leaves behind. *)
DecoderAdvance(d) ==
  IF d.consumed + 1 >= Head(d.bytes).run
    THEN [bytes |-> Tail(d.bytes), consumed |-> 0]
    ELSE [d EXCEPT !.consumed = @ + 1]

-----------------------------------------------------------------------------
(* Whole vectors, as the two ends of a stream use them. *)

(* EncoderAdd for every number above gsnfr until it refuses; status and     *)
(* parity are defined on the numbers between gsnfr and gsnr.                *)
EncodeVector(gsnr, gsnfr, xp, status, parity) ==
  LET enc[n \in gsnfr..gsnr] ==
        IF n = gsnfr THEN EncoderStart(gsnr, gsnfr, xp)
        ELSE LET e == enc[n - 1]
             IN  IF e.full \/ n = gsnr THEN e ELSE EncoderAdd(e, status[n], parity[n])
  IN  EncoderFinalize(enc[gsnr])

(* The states a decoder returns, one after the other. *)
DecodeVector(vector, gsnr, gsnfr) ==
  LET start == DecoderStart(vector, gsnr, gsnfr)
      dec[n \in 0..(MaxRun * Len(start.bytes))] ==
        IF n = 0 THEN [d |-> start, seen |-> << >>]
        ELSE LET was == dec[n - 1]
             IN  IF DecoderHasData(was.d)
                   THEN [d    |-> DecoderAdvance(was.d),
                         seen |-> Append(was.seen, DecoderState(was.d))]
                   ELSE was
  IN  dec[MaxRun * Len(start.bytes)].seen

=============================================================================
