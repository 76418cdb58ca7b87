--------------------------- MODULE RUDPPacketProofs ---------------------------
(***************************************************************************)
(* What the operators of RUDPPacket compute, for every modulus, longest    *)
(* run and longest vector: a number survives the cut to its low bits when  *)
(* the hint is near, and a vector says of every packet up to where it ends *)
(* what the encoder was told, with the parity of those that have arrived.  *)
(***************************************************************************)
EXTENDS RUDPPacket, FiniteSetTheorems, SequenceTheorems, WellFoundedInduction, TLAPS

(* Two numbers less than one modulus apart lie in the same or in adjacent   *)
(* periods: the only candidates getNumberWithHint has to consider.          *)
LEMMA AdjacentPeriods ==
  ASSUME NEW M \in Nat \ {0}, NEW p \in Nat, NEW q \in Nat,
         NEW r \in 0..(M - 1), NEW s \in 0..(M - 1),
         (M * p + s) - (M * q + r) < M,
         (M * q + r) - (M * p + s) < M
  PROVE  \/ p = q
         \/ p = q + 1
         \/ q = p + 1
<1>1. CASE p > q + 1
  <2>1. PICK k \in Nat : p = q + 2 + k
    <3>1. p - q - 2 \in Nat BY <1>1
    <3>2. p = q + 2 + (p - q - 2) OBVIOUS
    <3> QED BY <3>1, <3>2
  <2>2. M * p = M * q + 2 * M + M * k BY <2>1
  <2>3. M * k \in Nat BY <2>1
  <2>4. M * p \in Nat /\ M * q \in Nat OBVIOUS
  <2> QED BY <2>2, <2>3, <2>4
<1>2. CASE q > p + 1
  <2>1. PICK k \in Nat : q = p + 2 + k
    <3>1. q - p - 2 \in Nat BY <1>2
    <3>2. q = p + 2 + (q - p - 2) OBVIOUS
    <3> QED BY <3>1, <3>2
  <2>2. M * q = M * p + 2 * M + M * k BY <2>1
  <2>3. M * k \in Nat BY <2>1
  <2>4. M * p \in Nat /\ M * q \in Nat OBVIOUS
  <2> QED BY <2>2, <2>3, <2>4
<1> QED BY <1>1, <1>2

(* getNumberWithHint inverts the cut to the low bits when the number is     *)
(* less than half the modulus from the hint.                                *)
LEMMA NumberWithHintInverts ==
  ASSUME NEW a \in Nat, NEW h \in Nat,
         2 * (a - h) < SeqModulus, 2 * (h - a) < SeqModulus
  PROVE  NumberWithHint(LowBits(a), h) = a
<1> DEFINE M == SeqModulus
           p == a \div M
           s == a % M
           q == h \div M
           r == h % M
<1> USE SeqModulusAssumption
<1>1. /\ p \in Nat /\ s \in 0..(M - 1) /\ a = M * p + s
      /\ q \in Nat /\ r \in 0..(M - 1) /\ h = M * q + r
  OBVIOUS
<1>2. M \in Nat \ {0} OBVIOUS
<1>3. 2 * (a - h) < M /\ 2 * (h - a) < M OBVIOUS
<1>4. p = q \/ p = q + 1 \/ q = p + 1
  <2>1. a - h < M /\ h - a < M BY <1>2, <1>3
  <2> HIDE DEF M, p, s, q, r
  <2> QED BY <1>1, <1>2, <2>1, AdjacentPeriods
<1>5. NumberWithHint(s, h) =
        IF M * q + s < h
          THEN IF (M * q + s + M) - h < h - (M * q + s) THEN M * q + s + M ELSE M * q + s
          ELSE IF M * q >= M /\ h - (M * q + s - M) < M * q + s - h
                 THEN M * q + s - M ELSE M * q + s
  <2>1. h - (h % M) = M * q BY <1>1
  <2> QED BY <2>1 DEF NumberWithHint
<1>6. NumberWithHint(s, h) = a
  <2>0. M * q \in Nat /\ M * p \in Nat BY <1>1
  <2>1. CASE p = q
    BY <2>1, <2>0, <1>1, <1>2, <1>3, <1>5
  <2>2. CASE p = q + 1
    <3>1. M * p = M * q + M BY <2>2, <1>1
    <3> QED BY <3>1, <2>0, <1>1, <1>2, <1>3, <1>5
  <2>3. CASE q = p + 1
    <3>1. M * q = M * p + M BY <2>3, <1>1
    <3> QED BY <3>1, <2>0, <1>1, <1>2, <1>3, <1>5
  <2> HIDE DEF M, p, s, q, r
  <2> QED BY <1>4, <2>1, <2>2, <2>3
<1> QED BY <1>6 DEF LowBits

-----------------------------------------------------------------------------
(* Runs of packets *)

(* The bytes of a vector, none of them of no packets *)
Byte == [state : VectorStates, run : 1..MaxRun]

LEMMA ByteFields ==
  \A byte \in Byte : /\ byte.run \in Nat \ {0} /\ byte.run <= MaxRun
                     /\ byte.state \in VectorStates
BY MaxRunAssumption DEF Byte

(* The bytes say of the packets after from, up to and with to, what is      *)
(* known of them: cut[k] is the last packet of which byte k says it.        *)
Cuts(known, bytes, cut) ==
  \A k \in 1..Len(bytes) :
    /\ cut[k] = cut[k - 1] + bytes[k].run
    /\ \A i \in cut[k - 1] + 1 .. cut[k] : known[i] = bytes[k].state

Described(known, bytes, from, to) ==
  \E cut \in [0..Len(bytes) -> Nat] :
    /\ cut[0] = from /\ cut[Len(bytes)] = to /\ Cuts(known, bytes, cut)
    /\ \A k \in 0..Len(bytes) : cut[k] <= to

LEMMA DescribedNone ==
  ASSUME NEW known, NEW n \in Nat
  PROVE  Described(known, << >>, n, n)
<1> DEFINE cut == [k \in 0..0 |-> n]
<1>1. cut \in [0..Len(<< >>) -> Nat] /\ cut[0] = n /\ Cuts(known, << >>, cut)
  BY DEF Cuts
<1>2. \A k \in 0..Len(<< >>) : cut[k] <= n
  OBVIOUS
<1> QED BY <1>1, <1>2 DEF Described

LEMMA DescribedBegin ==
  ASSUME NEW known, NEW bytes \in Seq(Byte), NEW from \in Nat, NEW to \in Nat,
         Described(known, bytes, from, to),
         NEW byte \in Byte, byte.run = 1, known[to + 1] = byte.state
  PROVE  Described(known, Append(bytes, byte), from, to + 1)
<1> DEFINE n == Len(bytes)
           grown == Append(bytes, byte)
<1>1. PICK cut \in [0..n -> Nat] :
        /\ cut[0] = from /\ cut[n] = to /\ Cuts(known, bytes, cut)
        /\ \A k \in 0..n : cut[k] <= to
  BY DEF Described
<1> DEFINE more == [k \in 0..n+1 |-> IF k = n + 1 THEN to + 1 ELSE cut[k]]
<1>2. /\ n \in Nat /\ Len(grown) = n + 1 /\ grown[n + 1] = byte
      /\ \A k \in 1..n : grown[k] = bytes[k]
  OBVIOUS
<1>3. /\ more \in [0..n+1 -> Nat] /\ more[0] = from /\ more[n + 1] = to + 1
      /\ \A k \in 0..n : more[k] = cut[k]
  BY <1>1, <1>2
<1> HIDE DEF n, grown, more
<1>4. ASSUME NEW k \in 1..Len(grown)
      PROVE  /\ more[k] = more[k - 1] + grown[k].run
             /\ \A i \in more[k - 1] + 1 .. more[k] : known[i] = grown[k].state
  <2>1. CASE k = n + 1
    BY <1>1, <1>2, <1>3, <2>1
  <2>2. CASE k \in 1..n
    <3>1. more[k] = cut[k] /\ more[k - 1] = cut[k - 1] /\ grown[k] = bytes[k]
      BY <1>2, <1>3, <2>2
    <3> QED BY <1>1, <1>2, <2>2, <3>1 DEF Cuts, n
  <2> QED BY <1>2, <1>4, <2>1, <2>2
<1>5. Cuts(known, grown, more)
  BY <1>4 DEF Cuts
<1>6. ASSUME NEW k \in 0..n+1 PROVE more[k] <= to + 1
  <2>1. CASE k = n + 1
    BY <1>3, <2>1
  <2>2. CASE k \in 0..n
    <3>1. more[k] = cut[k] /\ cut[k] \in Nat /\ cut[k] <= to
      BY <1>1, <1>3, <2>2 DEF n
    <3> QED BY <3>1
  <2> QED BY <1>2, <2>1, <2>2
<1> QED BY <1>2, <1>3, <1>5, <1>6 DEF Described, grown

LEMMA DescribedGrow ==
  ASSUME NEW known, NEW bytes \in Seq(Byte), bytes # << >>, NEW from \in Nat, NEW to \in Nat,
         Described(known, bytes, from, to),
         NEW grown \in Seq(Byte), Len(grown) = Len(bytes),
         \A k \in 1..Len(bytes) - 1 : grown[k] = bytes[k],
         grown[Len(bytes)].run = bytes[Len(bytes)].run + 1,
         grown[Len(bytes)].state = bytes[Len(bytes)].state,
         known[to + 1] = bytes[Len(bytes)].state
  PROVE  Described(known, grown, from, to + 1)
<1> DEFINE n == Len(bytes)
<1>1. PICK cut \in [0..n -> Nat] :
        /\ cut[0] = from /\ cut[n] = to /\ Cuts(known, bytes, cut)
        /\ \A k \in 0..n : cut[k] <= to
  BY DEF Described
<1> DEFINE more == [cut EXCEPT ![n] = to + 1]
<1>2. n \in Nat \ {0} /\ bytes[n] \in Byte
  OBVIOUS
<1>3. /\ more \in [0..n -> Nat] /\ more[0] = from /\ more[n] = to + 1
      /\ \A k \in 0..n-1 : more[k] = cut[k]
  BY <1>1, <1>2
<1> HIDE DEF n, more
<1>4. ASSUME NEW k \in 1..Len(grown)
      PROVE  /\ more[k] = more[k - 1] + grown[k].run
             /\ \A i \in more[k - 1] + 1 .. more[k] : known[i] = grown[k].state
  <2>1. CASE k = n
    <3>0. n \in 1..Len(bytes) /\ bytes[n].run \in Nat
      BY <1>2, ByteFields DEF n
    <3>1. /\ cut[n] = cut[n - 1] + bytes[n].run
          /\ \A i \in cut[n - 1] + 1 .. cut[n] : known[i] = bytes[n].state
      BY <1>1, <3>0 DEF Cuts
    <3>2. more[n - 1] = cut[n - 1] /\ cut[n - 1] \in Nat
      BY <1>1, <1>2, <1>3
    <3>3. grown[n].run = bytes[n].run + 1 /\ grown[n].state = bytes[n].state
          /\ known[to + 1] = bytes[n].state
      BY DEF n
    <3> QED BY <1>1, <1>2, <1>3, <2>1, <3>0, <3>1, <3>2, <3>3, SMTT(60)
  <2>2. CASE k \in 1..n-1
    <3>0. k \in 0..n-1 /\ k - 1 \in 0..n-1
      BY <1>2, <2>2
    <3>1. more[k] = cut[k] /\ more[k - 1] = cut[k - 1]
      BY <1>3, <3>0
    <3>2. grown[k] = bytes[k]
      BY <2>2 DEF n
    <3> QED BY <1>1, <1>2, <2>2, <3>1, <3>2 DEF Cuts, n
  <2> QED BY <1>2, <1>4, <2>1, <2>2 DEF n
<1>5. Cuts(known, grown, more)
  BY <1>4 DEF Cuts
<1>6. ASSUME NEW k \in 0..n PROVE more[k] <= to + 1
  <2>1. CASE k = n
    BY <1>3, <2>1
  <2>2. CASE k \in 0..n-1
    <3>1. more[k] = cut[k] /\ cut[k] \in Nat /\ cut[k] <= to
      BY <1>1, <1>2, <1>3, <2>2 DEF n
    <3> QED BY <3>1
  <2> QED BY <1>2, <2>1, <2>2
<1> QED BY <1>2, <1>3, <1>5, <1>6 DEF Described, n

(* What the first byte says, and that the others say the rest.              *)
LEMMA DescribedFirst ==
  ASSUME NEW known, NEW bytes \in Seq(Byte), bytes # << >>, NEW from \in Int, NEW to \in Nat,
         Described(known, bytes, from, to)
  PROVE  /\ Head(bytes) \in Byte /\ from \in Nat
         /\ \A i \in from + 1 .. from + Head(bytes).run : known[i] = Head(bytes).state
         /\ Tail(bytes) \in Seq(Byte)
         /\ Described(known, Tail(bytes), from + Head(bytes).run, to)
         /\ from + Head(bytes).run <= to
<1> DEFINE n == Len(bytes)
           rest == Tail(bytes)
<1>1. PICK cut \in [0..n -> Nat] :
        /\ cut[0] = from /\ cut[n] = to /\ Cuts(known, bytes, cut)
        /\ \A k \in 0..n : cut[k] <= to
  BY DEF Described
<1> DEFINE less == [k \in 0..n-1 |-> cut[k + 1]]
<1>2. /\ n \in Nat \ {0} /\ Head(bytes) = bytes[1] /\ bytes[1] \in Byte
      /\ rest \in Seq(Byte) /\ Len(rest) = n - 1
      /\ \A k \in 1..n-1 : rest[k] = bytes[k + 1]
  OBVIOUS
<1>3. /\ cut[1] = from + bytes[1].run
      /\ \A i \in from + 1 .. cut[1] : known[i] = bytes[1].state
  BY <1>1, <1>2 DEF Cuts
<1>4. /\ less \in [0..n-1 -> Nat] /\ less[0] = cut[1] /\ less[n - 1] = to
      /\ \A k \in 0..n-1 : less[k] = cut[k + 1]
  BY <1>1, <1>2
<1> HIDE DEF n, rest, less
<1>5. ASSUME NEW k \in 1..Len(rest)
      PROVE  /\ less[k] = less[k - 1] + rest[k].run
             /\ \A i \in less[k - 1] + 1 .. less[k] : known[i] = rest[k].state
  <2>1. less[k] = cut[k + 1] /\ less[k - 1] = cut[k] /\ rest[k] = bytes[k + 1]
        /\ k + 1 \in 1..n /\ (k + 1) - 1 = k
    BY <1>2, <1>4
  <2>2. /\ cut[k + 1] = cut[(k + 1) - 1] + bytes[k + 1].run
        /\ \A i \in cut[(k + 1) - 1] + 1 .. cut[k + 1] : known[i] = bytes[k + 1].state
    BY <1>1, <2>1 DEF Cuts, n
  <2> QED BY <2>1, <2>2
<1>6. Cuts(known, rest, less)
  BY <1>5 DEF Cuts
<1>7. \A k \in 0..n-1 : less[k] <= to
  BY <1>1, <1>2, <1>4
<1>8. Described(known, rest, cut[1], to)
  BY <1>2, <1>4, <1>6, <1>7 DEF Described
<1>9. cut[1] <= to
  BY <1>1, <1>2
<1> QED BY <1>1, <1>2, <1>3, <1>8, <1>9 DEF rest

LEMMA DescribedEnd ==
  ASSUME NEW known, NEW from, NEW to, Described(known, << >>, from, to)
  PROVE  from = to
BY DEF Described

(* A byte that is begun, and one whose run grows                            *)
Grown(bytes) == [bytes EXCEPT ![Len(bytes)].run = @ + 1]

LEMMA GrownByte ==
  ASSUME NEW bytes \in Seq(Byte), bytes # << >>, bytes[Len(bytes)].run # MaxRun
  PROVE  /\ Grown(bytes) \in Seq(Byte) /\ Len(Grown(bytes)) = Len(bytes)
         /\ \A k \in 1..Len(bytes) - 1 : Grown(bytes)[k] = bytes[k]
         /\ Grown(bytes)[Len(bytes)].run = bytes[Len(bytes)].run + 1
         /\ Grown(bytes)[Len(bytes)].state = bytes[Len(bytes)].state
<1> DEFINE n == Len(bytes)
           grown == Grown(bytes)
<1>1. n \in Nat \ {0} /\ n \in 1..n /\ bytes[n] \in Byte /\ DOMAIN bytes = 1..n
  OBVIOUS
<1> DEFINE byte == [bytes[n] EXCEPT !.run = @ + 1]
<1>2. byte \in Byte /\ byte.run = bytes[n].run + 1 /\ byte.state = bytes[n].state
  <2>1. bytes[n].run \in Nat \ {0} /\ bytes[n].run <= MaxRun /\ bytes[n].run # MaxRun
    BY <1>1, ByteFields
  <2>2. bytes[n].run + 1 \in 1..MaxRun
    BY <2>1, MaxRunAssumption
  <2> HIDE DEF n
  <2> QED BY <1>1, <2>2 DEF Byte
<1>3. grown = [bytes EXCEPT ![n] = byte]
  BY Zenon DEF Grown
<1> HIDE DEF byte, n, grown
<1>4. /\ DOMAIN grown = 1..n /\ grown[n] = byte
      /\ \A k \in 1..n : k # n => grown[k] = bytes[k]
  BY <1>1, <1>3
<1>5. \A k \in 1..n : grown[k] \in Byte
  <2>1. \A k \in 1..n : bytes[k] \in Byte
    BY <1>1 DEF n
  <2> QED BY <1>2, <1>4, <2>1
<1>6. grown = [k \in 1..n |-> grown[k]]
  BY <1>3, <1>4
<1>7. grown \in Seq(Byte) /\ Len(grown) = n
  BY <1>1, <1>5, <1>6
<1>8. /\ \A k \in 1..n - 1 : grown[k] = bytes[k]
      /\ grown[n].run = bytes[n].run + 1 /\ grown[n].state = bytes[n].state
  BY <1>1, <1>2, <1>4
<1> QED BY <1>7, <1>8 DEF n, grown

LEMMA SmallerThanModulus ==
  ASSUME NEW a \in Nat, NEW m \in Nat \ {0}, a < m
  PROVE  a % m = a
OBVIOUS

LEMMA OneElement ==
  ASSUME NEW T, NEW q \in Seq(T), Len(q) = 1
  PROVE  q # << >> /\ q[1] \in T /\ Head(q) = q[1] /\ Tail(q) = << >> /\ q = <<q[1]>>
<1>1. q # << >> /\ q[1] \in T /\ Head(q) = q[1]
  OBVIOUS
<1>2. Tail(q) \in Seq(T) /\ Len(Tail(q)) = 0
  BY <1>1
<1>3. Tail(q) = << >>
  BY <1>2, EmptySeq
<1>4. q = <<q[1]>>
  OBVIOUS
<1> QED BY <1>1, <1>3, <1>4

-----------------------------------------------------------------------------
(* The encoder *)

(* How many packets after the GSNFR are in the vector so far *)
CoveredBy(e) == (IF e.full THEN e.cur - 1 ELSE e.cur) - e.gsnfr

(* The encoder's bytes describe the first of the known packets, and it      *)
(* stops short of the last only when the vector is full.                    *)
EncoderFits(e, g, f, known) ==
  /\ DOMAIN e = {"bytes", "gsnr", "gsnfr", "cur", "xor", "full"}
  /\ e.gsnr = g /\ e.gsnfr = f /\ e.cur \in Nat
  /\ e.bytes \in Seq(Byte) /\ Len(e.bytes) <= MaxVector
  /\ CoveredBy(e) \in 0..Len(known)
  /\ Described(known, e.bytes, 0, CoveredBy(e))
  /\ e.full => CoveredBy(e) = Len(known) \/ Len(e.bytes) = MaxVector

LEMMA EncoderStartFits ==
  ASSUME NEW known \in Seq(VectorStates), NEW g, NEW f \in Nat, NEW xp
  PROVE  LET e == EncoderStart(g, f, xp)
         IN  /\ EncoderFits(e, g, f, known) /\ ~e.full
             /\ CoveredBy(e) = 0 /\ e.xor = xp /\ e.cur = f
<1> DEFINE e == EncoderStart(g, f, xp)
<1>1. e = [bytes |-> << >>, gsnr |-> g, gsnfr |-> f, cur |-> f, xor |-> xp, full |-> FALSE]
  BY DEF EncoderStart
<1> HIDE DEF e
<1>2. /\ DOMAIN e = {"bytes", "gsnr", "gsnfr", "cur", "xor", "full"}
      /\ e.gsnr = g /\ e.gsnfr = f /\ e.cur = f /\ e.bytes = << >> /\ e.xor = xp
      /\ ~e.full
  BY <1>1
<1>3. CoveredBy(e) = 0
  BY <1>2 DEF CoveredBy
<1>4. Described(known, << >>, 0, 0)
  BY DescribedNone
<1>5. Len(known) \in Nat
  OBVIOUS
<1> QED BY <1>2, <1>3, <1>4, <1>5, MaxVectorAssumption DEF EncoderFits, e

(* vectorEncoderAdd *)
LEMMA EncoderAddFits ==
  ASSUME NEW known \in Seq(VectorStates), NEW f \in Nat, NEW g, g = f + Len(known) + 1,
         NEW e, EncoderFits(e, g, f, known), ~e.full,
         NEW state, NEW parity, e.cur + 1 < g => state = known[e.cur + 1 - f]
  PROVE  LET u == EncoderAdd(e, state, parity)
         IN  /\ EncoderFits(u, g, f, known)
             /\ u.cur = e.cur + 1
             /\ u.full => u.xor = e.xor /\ CoveredBy(u) = CoveredBy(e)
             /\ ~u.full => /\ u.xor = ParityWith(e.xor, state, parity)
                           /\ CoveredBy(u) = CoveredBy(e) + 1
                           /\ e.cur + 1 < g
<1> DEFINE n == Len(e.bytes)
           begins == n = 0 \/ e.bytes[n].state # state \/ ByteIsFull(e.bytes[n])
           first == [state |-> state, run |-> 1]
           bytes == IF begins THEN Append(e.bytes, first)
                              ELSE [e.bytes EXCEPT ![n].run = @ + 1]
           xor == ParityWith(e.xor, state, parity)
           stops == e.cur + 1 >= e.gsnr \/ (begins /\ n >= MaxVector)
           u == EncoderAdd(e, state, parity)
           c == CoveredBy(e)
<1>1. u = IF stops THEN [e EXCEPT !.cur = @ + 1, !.full = TRUE]
          ELSE [e EXCEPT !.cur = @ + 1, !.bytes = bytes, !.xor = xor]
  BY DEF EncoderAdd
<1>2. /\ DOMAIN e = {"bytes", "gsnr", "gsnfr", "cur", "xor", "full"}
      /\ e.gsnr = g /\ e.gsnfr = f /\ e.cur \in Nat
      /\ e.bytes \in Seq(Byte) /\ n <= MaxVector /\ n \in Nat
      /\ Len(known) \in Nat /\ c = e.cur - f /\ c \in 0..Len(known)
      /\ Described(known, e.bytes, 0, c)
  BY DEF EncoderFits, CoveredBy
<1>3. CASE stops
  <2> HIDE DEF stops, xor, u
  <2>1. /\ DOMAIN u = DOMAIN e /\ u.cur = e.cur + 1 /\ u.bytes = e.bytes
        /\ u.gsnr = e.gsnr /\ u.gsnfr = e.gsnfr /\ u.xor = e.xor
        /\ u.full
    BY <1>1, <1>2, <1>3
  <2>2. CoveredBy(u) = c
    BY <1>2, <2>1 DEF CoveredBy
  <2>3. c = Len(known) \/ n = MaxVector
    BY <1>2, <1>3, MaxVectorAssumption DEF stops
  <2>4. EncoderFits(u, g, f, known)
    BY <1>2, <2>1, <2>2, <2>3 DEF EncoderFits
  <2> QED BY <2>1, <2>2, <2>4 DEF u
<1>4. CASE ~stops
  <2>1. c + 1 \in 1..Len(known) /\ ~(begins /\ n >= MaxVector) /\ e.cur + 1 < g
    BY <1>2, <1>4
  <2>2. state = known[c + 1] /\ state \in VectorStates
    <3>1. e.cur + 1 - f = c + 1
      BY <1>2
    <3> QED BY <2>1, <3>1
  <2> HIDE DEF stops, xor, u, c
  <2>3. first \in Byte /\ first.run = 1 /\ first.state = state
    BY <2>2, MaxRunAssumption DEF Byte
  <2>4. bytes \in Seq(Byte) /\ Len(bytes) <= MaxVector
        /\ Described(known, bytes, 0, c + 1)
    <3>1. CASE begins
      <4>1. bytes = Append(e.bytes, first)
        BY <3>1
      <4>2. bytes \in Seq(Byte) /\ Len(bytes) = n + 1
        BY <1>2, <2>3, <4>1
      <4>3. Described(known, Append(e.bytes, first), 0, c + 1)
        <5> HIDE DEF first
        <5> QED BY <1>2, <2>2, <2>3, DescribedBegin
      <4> QED BY <1>2, <2>1, <3>1, <4>1, <4>2, <4>3, MaxVectorAssumption
    <3>2. CASE ~begins
      <4>1. /\ e.bytes # << >> /\ e.bytes[n].run # MaxRun
            /\ e.bytes[n].state = state
            /\ bytes = Grown(e.bytes)
        BY <1>2, <3>2 DEF ByteIsFull, Grown
      <4> HIDE DEF bytes, begins
      <4>2. /\ bytes \in Seq(Byte) /\ Len(bytes) = n
            /\ \A k \in 1..n - 1 : bytes[k] = e.bytes[k]
            /\ bytes[n].run = e.bytes[n].run + 1
            /\ bytes[n].state = e.bytes[n].state
        BY <1>2, <4>1, GrownByte
      <4>3. known[c + 1] = e.bytes[n].state /\ c \in Nat /\ 0 \in Nat
        BY <1>2, <2>2, <4>1
      <4>4. Described(known, bytes, 0, c + 1)
        BY <1>2, <4>1, <4>2, <4>3, DescribedGrow
      <4> QED BY <1>2, <4>2, <4>4
    <3> QED BY <3>1, <3>2
  <2> HIDE DEF bytes, begins
  <2>5. /\ DOMAIN u = DOMAIN e /\ u.cur = e.cur + 1 /\ u.bytes = bytes
        /\ u.gsnr = e.gsnr /\ u.gsnfr = e.gsnfr /\ u.xor = xor
        /\ ~u.full
    BY <1>1, <1>2, <1>4
  <2>6. CoveredBy(u) = c + 1
    BY <1>2, <2>5 DEF CoveredBy
  <2>7. EncoderFits(u, g, f, known)
    BY <1>2, <2>1, <2>4, <2>5, <2>6, SMTT(60) DEF EncoderFits
  <2> QED BY <2>1, <2>5, <2>6, <2>7 DEF u, c, xor
<1> QED BY <1>3, <1>4

-----------------------------------------------------------------------------
(* The decoder *)

(* Of the first n known packets the decoder returned what is in seen, and   *)
(* its bytes describe the rest; or it was made up for no packet at all.     *)
DecoderFits(d, seen, known, n) ==
  /\ DOMAIN d = {"bytes", "consumed"}
  /\ seen \in Seq(VectorStates) /\ Len(seen) <= n
  /\ \A i \in 1..Len(seen) : seen[i] = known[i]
  /\ \/ /\ d.bytes \in Seq(Byte) /\ d.consumed \in Nat
        /\ d.bytes = << >> => d.consumed = 0
        /\ d.bytes # << >> => d.consumed < Head(d.bytes).run
        /\ Described(known, d.bytes, Len(seen) - d.consumed, n)
     \/ /\ n = 0 /\ seen = << >>
        /\ d.bytes # << >> /\ Head(d.bytes).run = 0

(* vectorDecoderStart: an omitted vector stands for as many packets as the  *)
(* one byte that was left out.                                              *)
LEMMA DecoderStartFits ==
  ASSUME NEW known \in Seq(VectorStates), NEW f \in Nat, NEW g, g = f + Len(known) + 1,
         NEW e, EncoderFits(e, g, f, known),
         CoveredBy(e) = Len(known) \/ Len(e.bytes) = MaxVector
  PROVE  LET d == DecoderStart(EncoderFinalize(e).vector, g, f)
         IN  DecoderFits(d, << >>, known, CoveredBy(e)) /\ Len(d.bytes) \in Nat
<1> DEFINE bytes == e.bytes
           c == CoveredBy(e)
           made == [state |-> "NotReceived", run |-> OmittedRun(g, f)]
           d == DecoderStart(EncoderFinalize(e).vector, g, f)
           vector == EncoderFinalize(e).vector
<1>1. /\ bytes \in Seq(Byte) /\ Len(bytes) <= MaxVector
      /\ c \in 0..Len(known) /\ Len(known) \in Nat
      /\ Described(known, bytes, 0, c)
      /\ c = Len(known) \/ Len(bytes) = MaxVector
      /\ vector = IF OmitsVector(e) THEN << >> ELSE bytes
      /\ g # f
      /\ e.gsnr = g /\ e.gsnfr = f
  BY DEF EncoderFits, EncoderFinalize
<1>2. /\ d.bytes = IF vector = << >> THEN <<made>> ELSE vector
      /\ d.consumed = 0
      /\ DOMAIN d = {"bytes", "consumed"}
  BY <1>1 DEF DecoderStart
<1>3. OmittedRun(g, f) = Len(known) % (MaxRun + 1)
  <2>1. g - f - 1 = Len(known)
    BY <1>1
  <2> QED BY <2>1 DEF OmittedRun
<1> HIDE DEF bytes, c, d, vector
<1>4. SUFFICES \/ /\ d.bytes \in Seq(Byte)
                  /\ d.bytes # << >> => 0 < Head(d.bytes).run
                  /\ Described(known, d.bytes, 0, c)
               \/ c = 0 /\ d.bytes = <<made>> /\ made.run = 0
  <2>1. CASE /\ d.bytes \in Seq(Byte)
             /\ d.bytes # << >> => 0 < Head(d.bytes).run
             /\ Described(known, d.bytes, 0, c)
    <3>1. << >> \in Seq(VectorStates) /\ Len(<< >>) = 0
      OBVIOUS
    <3>2. Len(<< >>) - d.consumed = 0
      BY <1>2
    <3>3. DecoderFits(d, << >>, known, c)
      BY <1>1, <1>2, <2>1, <3>1, <3>2 DEF DecoderFits
    <3> QED BY <2>1, <3>3 DEF d, c
  <2>2. CASE c = 0 /\ d.bytes = <<made>> /\ made.run = 0
    <3>1. d.bytes # << >> /\ Head(d.bytes).run = 0 /\ Len(d.bytes) = 1
      BY <2>2
    <3>2. << >> \in Seq(VectorStates) /\ Len(<< >>) = 0
      OBVIOUS
    <3>3. DecoderFits(d, << >>, known, c)
      BY <1>2, <2>2, <3>1, <3>2 DEF DecoderFits
    <3> QED BY <3>1, <3>3 DEF d, c
  <2> QED BY <1>4, <2>1, <2>2
<1>5. CASE OmitsVector(e)
  <2>1. Len(bytes) = 1 /\ bytes # << >> /\ bytes[1].state = "NotReceived"
    BY <1>1, <1>5 DEF OmitsVector, bytes
  <2>2. /\ bytes[1] \in Byte /\ Head(bytes) = bytes[1] /\ Tail(bytes) = << >>
        /\ bytes = <<bytes[1]>>
    BY <1>1, <2>1, OneElement
  <2>3. bytes[1].run = c
    <3>1. Described(known, Tail(bytes), 0 + Head(bytes).run, c)
      BY <1>1, <2>1, DescribedFirst
    <3>2. Head(bytes).run \in Nat
      BY <2>2, ByteFields
    <3>3. Described(known, << >>, Head(bytes).run, c)
      <4>1. 0 + Head(bytes).run = Head(bytes).run
        BY <3>2
      <4> QED BY <2>2, <3>1, <4>1
    <3> QED BY <2>2, <3>3, DescribedEnd
  <2>4. c = Len(known) /\ c <= MaxRun /\ c \in Nat \ {0}
    BY <1>1, <2>1, <2>2, <2>3, ByteFields, MaxVectorAssumption
  <2>5. Len(known) % (MaxRun + 1) = Len(known)
    <3>1. /\ Len(known) \in Nat /\ MaxRun + 1 \in Nat \ {0}
          /\ Len(known) < MaxRun + 1
      BY <1>1, <2>4, MaxRunAssumption
    <3> QED BY <3>1, SmallerThanModulus
  <2>6. made = bytes[1]
    <3>1. made.run = bytes[1].run /\ made.state = bytes[1].state
      BY <1>3, <2>1, <2>3, <2>4, <2>5
    <3>2. bytes[1] = [state |-> bytes[1].state, run |-> bytes[1].run]
      BY <2>2 DEF Byte
    <3> QED BY <3>1, <3>2
  <2> HIDE DEF made
  <2>7. d.bytes = bytes
    BY <1>1, <1>2, <1>5, <2>2, <2>6
  <2> QED BY <1>1, <2>2, <2>3, <2>4, <2>7
<1>6. CASE ~OmitsVector(e) /\ bytes = << >>
  <2>1. c = 0
    BY <1>1, <1>6, DescribedEnd
  <2>2. Len(known) = 0
    BY <1>1, <1>6, <2>1, MaxVectorAssumption
  <2>3. OmittedRun(g, f) = 0
    BY <1>3, <2>2, MaxRunAssumption
  <2>4. d.bytes = <<made>> /\ made.run = 0
    BY <1>1, <1>2, <1>6, <2>3
  <2> HIDE DEF made
  <2> QED BY <2>1, <2>4
<1>7. CASE ~OmitsVector(e) /\ bytes # << >>
  <2>1. d.bytes = bytes
    BY <1>1, <1>2, <1>7
  <2>2. Head(bytes) \in Byte
    BY <1>1, <1>7
  <2> QED BY <1>1, <2>1, <2>2, ByteFields
<1> QED BY <1>5, <1>6, <1>7

(* vectorDecoderGetNextPacketState *)
LEMMA DecoderAdvanceFits ==
  ASSUME NEW known, NEW n \in Nat, NEW d, NEW seen, DecoderFits(d, seen, known, n),
         DecoderHasData(d)
  PROVE  /\ DecoderFits(DecoderAdvance(d), Append(seen, DecoderState(d)), known, n)
         /\ Len(Append(seen, DecoderState(d))) = Len(seen) + 1
<1> DEFINE byte == Head(d.bytes)
           from == Len(seen) - d.consumed
           d1 == DecoderAdvance(d)
           seen1 == Append(seen, DecoderState(d))
<1>1. d.bytes # << >> /\ byte.run # 0 /\ DecoderState(d) = byte.state
  BY DEF DecoderHasData, DecoderState
<1>2. /\ seen \in Seq(VectorStates) /\ Len(seen) <= n /\ Len(seen) \in Nat
      /\ \A i \in 1..Len(seen) : seen[i] = known[i]
      /\ d.bytes \in Seq(Byte) /\ d.consumed \in Nat
      /\ d.consumed < byte.run
      /\ Described(known, d.bytes, from, n)
      /\ DOMAIN d = {"bytes", "consumed"}
  BY <1>1 DEF DecoderFits
<1>3. /\ byte \in Byte /\ from \in Nat
      /\ \A i \in from + 1 .. from + byte.run : known[i] = byte.state
      /\ Tail(d.bytes) \in Seq(Byte)
      /\ Described(known, Tail(d.bytes), from + byte.run, n)
      /\ from + byte.run <= n
  <2>1. from \in Int
    BY <1>2
  <2> HIDE DEF from
  <2> QED BY <1>1, <1>2, <2>1, DescribedFirst
<1>4. byte.run \in Nat /\ byte.state \in VectorStates
  BY <1>3, ByteFields
<1> HIDE DEF byte, d1, seen1
<1>5. /\ seen1 \in Seq(VectorStates) /\ Len(seen1) = Len(seen) + 1
      /\ seen1[Len(seen) + 1] = byte.state
      /\ \A i \in 1..Len(seen) : seen1[i] = seen[i]
  BY <1>1, <1>2, <1>4 DEF seen1
<1>6. Len(seen) + 1 \in from + 1 .. from + byte.run
  BY <1>2, <1>3, <1>4
<1>7. Len(seen1) <= n /\ \A i \in 1..Len(seen1) : seen1[i] = known[i]
  <2>1. known[Len(seen) + 1] = byte.state
    BY <1>3, <1>6
  <2>2. Len(seen) + 1 <= n
    BY <1>2, <1>3, <1>4, <1>6
  <2> HIDE DEF from
  <2>3. ASSUME NEW i \in 1..Len(seen1) PROVE seen1[i] = known[i]
    BY <1>2, <1>5, <2>1, <2>3
  <2> QED BY <1>5, <2>2, <2>3
<1>8. /\ DOMAIN d1 = {"bytes", "consumed"}
      /\ d1.bytes \in Seq(Byte) /\ d1.consumed \in Nat
      /\ d1.bytes = << >> => d1.consumed = 0
      /\ d1.bytes # << >> => d1.consumed < Head(d1.bytes).run
      /\ Described(known, d1.bytes, Len(seen1) - d1.consumed, n)
  <2>1. CASE d.consumed + 1 >= byte.run
    <3>1. d1.bytes = Tail(d.bytes) /\ d1.consumed = 0 /\ DOMAIN d1 = {"bytes", "consumed"}
      BY <2>1 DEF DecoderAdvance, byte, d1
    <3>2. from + byte.run = Len(seen1) - 0
      BY <1>2, <1>3, <1>4, <1>5, <2>1
    <3>3. d1.bytes # << >> => 0 < Head(d1.bytes).run
      <4>1. d1.bytes # << >> => Head(d1.bytes) \in Byte
        BY <1>3, <3>1
      <4> QED BY <4>1, ByteFields
    <3> HIDE DEF from
    <3> QED BY <1>3, <3>1, <3>2, <3>3
  <2>2. CASE d.consumed + 1 < byte.run
    <3>1. d1 = [d EXCEPT !.consumed = @ + 1]
      BY <1>2, <1>4, <2>2 DEF DecoderAdvance, byte, d1
    <3>2. /\ d1.bytes = d.bytes /\ d1.consumed = d.consumed + 1
          /\ DOMAIN d1 = {"bytes", "consumed"}
      BY <1>2, <3>1
    <3>3. Len(seen1) - d1.consumed = Len(seen) - d.consumed
      BY <1>2, <1>5, <3>2
    <3> QED BY <1>1, <1>2, <2>2, <3>2, <3>3 DEF byte
  <2> QED BY <1>2, <1>4, <2>1, <2>2
<1> QED BY <1>5, <1>7, <1>8 DEF DecoderFits, d1, seen1

(* VectorState_NoMoreData comes when all of the vector was returned.        *)
LEMMA DecoderEndFits ==
  ASSUME NEW known, NEW n \in Nat, NEW d, NEW seen, DecoderFits(d, seen, known, n),
         ~DecoderHasData(d)
  PROVE  Len(seen) = n
<1>1. d.bytes = << >> \/ Head(d.bytes).run = 0
  BY DEF DecoderHasData
<1>2. Len(seen) \in Nat
  BY DEF DecoderFits
<1>3. CASE /\ d.bytes \in Seq(Byte) /\ d.consumed \in Nat
           /\ d.bytes = << >> => d.consumed = 0
           /\ d.bytes # << >> => d.consumed < Head(d.bytes).run
           /\ Described(known, d.bytes, Len(seen) - d.consumed, n)
  <2>1. d.bytes = << >> /\ d.consumed = 0
    BY <1>1, <1>3
  <2>2. Len(seen) - d.consumed = n
    BY <1>3, <2>1, DescribedEnd
  <2> QED BY <1>2, <2>1, <2>2
<1>4. CASE n = 0 /\ seen = << >>
  BY <1>4
<1> QED BY <1>3, <1>4 DEF DecoderFits

-----------------------------------------------------------------------------
(* Whole vectors *)

LEMMA LeastOf ==
  ASSUME NEW S \in SUBSET Nat, S # {}
  PROVE  \E n \in S : \A m \in S : n <= m
<1>1. \E n \in S : \A m \in S : ~(<<m, n>> \in OpToRel(<, Nat))
  BY NatLessThanWellFounded, WFMin
<1>2. PICK n \in S : \A m \in S : ~(<<m, n>> \in OpToRel(<, Nat))
  BY <1>1
<1>3. ASSUME NEW m \in S PROVE n <= m
  <2>1. m \in Nat /\ n \in Nat /\ <<m, n>> \in Nat \X Nat
    OBVIOUS
  <2>2. m < n => <<m, n>> \in OpToRel(<, Nat)
    BY <2>1 DEF OpToRel
  <2>3. ~(m < n)
    BY <1>2, <2>2
  <2> QED BY <2>1, <2>3
<1> QED BY <1>3

(* What holds at first and passes on from each number to the next never     *)
(* fails.                                                                   *)
LEMMA NoneBad ==
  ASSUME NEW lo \in Nat, NEW hi \in Nat, NEW Bad \in SUBSET (lo..hi), lo \notin Bad,
         \A n \in lo + 1 .. hi : n - 1 \notin Bad => n \notin Bad
  PROVE  Bad = {}
<1>1. SUFFICES ASSUME Bad # {} PROVE FALSE
  OBVIOUS
<1>2. PICK k \in Bad : \A m \in Bad : k <= m
  <2>1. Bad \in SUBSET Nat
    OBVIOUS
  <2> QED BY <1>1, <2>1, LeastOf
<1>3. k \in lo + 1 .. hi
  BY <1>2
<1>4. k - 1 \notin Bad
  BY <1>2, <1>3
<1> QED BY <1>2, <1>3, <1>4

(* Each step of a computation takes what is in T to what is in T.           *)
Steps(step, lo, hi, T) == step \in [lo + 1 .. hi -> [T -> T]]

Iterates(h, lo, hi, T, start, step) ==
  /\ h \in [lo..hi -> T] /\ h[lo] = start
  /\ \A n \in lo + 1 .. hi : h[n] = step[n][h[n - 1]]

(* What is computed step by step exists.                                    *)
LEMMA IteratesExist ==
  ASSUME NEW lo \in Nat, NEW hi \in Nat, lo <= hi, NEW T, NEW start, start \in T,
         NEW step, Steps(step, lo, hi, T)
  PROVE  \E h : Iterates(h, lo, hi, T, start, step)
<1> USE DEF Steps, Iterates
<1> DEFINE Runs(h, k) == /\ h \in [lo..k -> T] /\ h[lo] = start
                         /\ \A n \in lo + 1 .. k : h[n] = step[n][h[n - 1]]
           Bad == {k \in lo..hi : ~\E h : Runs(h, k)}
<1>1. Runs([n \in lo..lo |-> start], lo)
  OBVIOUS
<1>2. lo \notin Bad
  <2> HIDE DEF Runs
  <2> QED BY <1>1
<1>3. ASSUME NEW k \in lo + 1 .. hi, k - 1 \notin Bad PROVE k \notin Bad
  <2>1. k \in lo..hi /\ k - 1 \in lo..hi /\ k - 1 \in lo..k - 1
    OBVIOUS
  <2>2. PICK h : Runs(h, k - 1)
    <3> HIDE DEF Runs
    <3> QED BY <1>3, <2>1
  <2> DEFINE u == [n \in lo..k |-> IF n = k THEN step[k][h[k - 1]] ELSE h[n]]
  <2>3. step[k] \in [T -> T] /\ h[k - 1] \in T
    BY <2>1, <2>2
  <2>4. u[k] = step[k][h[k - 1]] /\ u[k] \in T
    BY <2>1, <2>3
  <2>5. \A n \in lo..k - 1 : u[n] = h[n] /\ u[n] \in T
    BY <2>1, <2>2
  <2>6. u \in [lo..k -> T]
    <3> HIDE DEF u
    <3>1. u = [n \in lo..k |-> u[n]]
      BY DEF u
    <3>2. \A n \in lo..k : n = k \/ n \in lo..k - 1
      OBVIOUS
    <3> QED BY <2>4, <2>5, <3>1, <3>2
  <2> HIDE DEF u
  <2>7. u[lo] = start
    BY <2>1, <2>2, <2>5
  <2>8. ASSUME NEW n \in lo + 1 .. k PROVE u[n] = step[n][u[n - 1]]
    <3>1. CASE n = k
      BY <2>1, <2>4, <2>5, <3>1
    <3>2. CASE n # k
      <4>1. n \in lo + 1 .. k - 1 /\ n - 1 \in lo..k - 1 /\ n \in lo..k - 1
        BY <2>1, <3>2
      <4> QED BY <2>2, <2>5, <4>1
    <3> QED BY <3>1, <3>2
  <2>9. Runs(u, k)
    BY <2>6, <2>7, <2>8
  <2> HIDE DEF Runs
  <2> QED BY <2>9
<1>4. Bad = {}
  <2>1. Bad \in SUBSET (lo..hi)
    OBVIOUS
  <2> HIDE DEF Bad
  <2> QED BY <1>2, <1>3, <2>1, NoneBad
<1>5. hi \in lo..hi
  OBVIOUS
<1>6. PICK h : Runs(h, hi)
  <2> HIDE DEF Runs
  <2> QED BY <1>4, <1>5
<1> QED BY <1>6

EncodeStep(e, n, g, status, parity) ==
  IF e.full \/ n = g THEN e ELSE EncoderAdd(e, status[n], parity[n])

Encodes(h, g, f, xp, status, parity) ==
  h = [n \in f..g |-> IF n = f THEN EncoderStart(g, f, xp)
                      ELSE EncodeStep(h[n - 1], n, g, status, parity)]

(* vectorEncoderAdd keeps to the encoder's type.                            *)
LEMMA EncodeStepType ==
  ASSUME NEW g, NEW f, NEW status, NEW parity, NEW n,
         n # g => status[n] \in VectorStates /\ parity[n] \in BOOLEAN,
         NEW e \in [bytes : Seq(Byte), gsnr : {g}, gsnfr : {f}, cur : Nat,
                    xor : BOOLEAN, full : BOOLEAN]
  PROVE  EncodeStep(e, n, g, status, parity) \in
           [bytes : Seq(Byte), gsnr : {g}, gsnfr : {f}, cur : Nat,
            xor : BOOLEAN, full : BOOLEAN]
<1> DEFINE T == [bytes : Seq(Byte), gsnr : {g}, gsnfr : {f}, cur : Nat,
                 xor : BOOLEAN, full : BOOLEAN]
<1>1. CASE e.full \/ n = g
  BY <1>1 DEF EncodeStep
<1>2. CASE ~e.full /\ n # g
  <2> DEFINE k == Len(e.bytes)
             begins == k = 0 \/ e.bytes[k].state # status[n] \/ ByteIsFull(e.bytes[k])
             first == [state |-> status[n], run |-> 1]
             bytes == IF begins THEN Append(e.bytes, first)
                                ELSE [e.bytes EXCEPT ![k].run = @ + 1]
             xor == ParityWith(e.xor, status[n], parity[n])
             stops == e.cur + 1 >= e.gsnr \/ (begins /\ k >= MaxVector)
  <2>1. EncodeStep(e, n, g, status, parity) =
          IF stops THEN [e EXCEPT !.cur = @ + 1, !.full = TRUE]
          ELSE [e EXCEPT !.cur = @ + 1, !.bytes = bytes, !.xor = xor]
    BY <1>2 DEF EncodeStep, EncoderAdd
  <2>2. xor \in BOOLEAN
    BY <1>2, Zenon DEF ParityWith, XOR
  <2>3. bytes \in Seq(Byte)
    <3>1. CASE begins
      <4>1. first \in Byte
        BY <1>2, MaxRunAssumption DEF Byte
      <4>2. Append(e.bytes, first) \in Seq(Byte)
        <5> HIDE DEF first
        <5> QED BY <4>1
      <4> QED BY <3>1, <4>2
    <3>2. CASE ~begins
      <4>1. /\ e.bytes # << >> /\ e.bytes[Len(e.bytes)].run # MaxRun /\ e.bytes \in Seq(Byte)
            /\ bytes = Grown(e.bytes)
        BY <3>2 DEF ByteIsFull, Grown
      <4> QED BY <4>1, GrownByte
    <3> QED BY <3>1, <3>2
  <2> HIDE DEF xor, bytes, stops
  <2>4. CASE stops
    <3>1. EncodeStep(e, n, g, status, parity) =
            [bytes |-> e.bytes, gsnr |-> e.gsnr, gsnfr |-> e.gsnfr, cur |-> e.cur + 1,
             xor |-> e.xor, full |-> TRUE]
      BY <2>1, <2>4
    <3> HIDE DEF T
    <3> QED BY <3>1 DEF T
  <2>5. CASE ~stops
    <3>1. EncodeStep(e, n, g, status, parity) =
            [bytes |-> bytes, gsnr |-> e.gsnr, gsnfr |-> e.gsnfr, cur |-> e.cur + 1,
             xor |-> xor, full |-> e.full]
      BY <2>1, <2>5
    <3> HIDE DEF T
    <3> QED BY <2>2, <2>3, <3>1 DEF T
  <2> QED BY <2>4, <2>5
<1> QED BY <1>1, <1>2

LEMMA EncodesExists ==
  ASSUME NEW g \in Nat, NEW f \in Nat, f < g, NEW xp \in BOOLEAN,
         NEW status \in [f + 1 .. g - 1 -> VectorStates],
         NEW parity \in [f + 1 .. g - 1 -> BOOLEAN]
  PROVE  \E h : /\ Encodes(h, g, f, xp, status, parity)
                /\ EncodeVector(g, f, xp, status, parity) = EncoderFinalize(h[g])
<1> DEFINE T == [bytes : Seq(Byte), gsnr : {g}, gsnfr : {f}, cur : Nat,
                 xor : BOOLEAN, full : BOOLEAN]
           step == [n \in f + 1 .. g |-> [e \in T |-> EncodeStep(e, n, g, status, parity)]]
           start == EncoderStart(g, f, xp)
<1>1. start \in T
  <2>1. << >> \in Seq(Byte)
    OBVIOUS
  <2> QED BY <2>1 DEF EncoderStart
<1>2. step \in [f + 1 .. g -> [T -> T]]
  <2>1. ASSUME NEW n \in f + 1 .. g, NEW e \in T
        PROVE  EncodeStep(e, n, g, status, parity) \in T
    <3>1. n # g => status[n] \in VectorStates /\ parity[n] \in BOOLEAN
      <4>1. n # g => n \in f + 1 .. g - 1
        OBVIOUS
      <4> QED BY <4>1
    <3> QED BY <3>1, EncodeStepType
  <2> HIDE DEF T
  <2> QED BY <2>1
<1> HIDE DEF T, start
<1>3. PICK h \in [f..g -> T] :
        h[f] = start /\ \A n \in f + 1 .. g : h[n] = step[n][h[n - 1]]
  <2>1. f <= g
    OBVIOUS
  <2>2. Steps(step, f, g, T)
    <3> HIDE DEF step
    <3> QED BY <1>2 DEF Steps
  <2>3. \E h : Iterates(h, f, g, T, start, step)
    <3> HIDE DEF step
    <3> QED BY <1>1, <2>1, <2>2, IteratesExist
  <2> HIDE DEF step
  <2> QED BY <2>3 DEF Iterates
<1>4. Encodes(h, g, f, xp, status, parity)
  <2>1. ASSUME NEW n \in f..g
        PROVE  h[n] = IF n = f THEN EncoderStart(g, f, xp)
                      ELSE EncodeStep(h[n - 1], n, g, status, parity)
    <3>1. CASE n = f
      BY <1>3, <3>1 DEF start
    <3>2. CASE n # f
      <4>1. n \in f + 1 .. g /\ h[n - 1] \in T
        BY <1>3, <3>2
      <4> QED BY <1>3, <3>2, <4>1
    <3> QED BY <3>1, <3>2
  <2>2. h = [n \in f..g |-> h[n]]
    BY <1>3
  <2> QED BY <2>1, <2>2 DEF Encodes
<1> DEFINE enc == CHOOSE h2 : Encodes(h2, g, f, xp, status, parity)
<1>5. Encodes(enc, g, f, xp, status, parity)
  BY <1>4, Zenon
<1>6. EncodeVector(g, f, xp, status, parity) = EncoderFinalize(enc[g])
  BY DEF EncodeVector, Encodes, EncodeStep
<1> QED BY <1>5, <1>6, Zenon

(* The parity of the packets up to t that have arrived                      *)
OddUpTo(status, parity, f, t) ==
  Cardinality({s \in f + 1 .. t : status[s] # "NotReceived" /\ parity[s]}) % 2 = 1

LEMMA OddUpToNext ==
  ASSUME NEW status, NEW parity, NEW f \in Nat, NEW t \in Nat, f <= t
  PROVE  /\ ~OddUpTo(status, parity, f, f)
         /\ status[t + 1] # "NotReceived" /\ parity[t + 1]
              => (OddUpTo(status, parity, f, t + 1) <=> ~OddUpTo(status, parity, f, t))
         /\ ~(status[t + 1] # "NotReceived" /\ parity[t + 1])
              => (OddUpTo(status, parity, f, t + 1) <=> OddUpTo(status, parity, f, t))
<1> DEFINE Odd(u) == {s \in f + 1 .. u : status[s] # "NotReceived" /\ parity[s]}
<1>1. IsFiniteSet(Odd(t)) /\ Cardinality(Odd(t)) \in Nat
  <2>1. Odd(t) \subseteq f + 1 .. t
    OBVIOUS
  <2>2. IsFiniteSet(f + 1 .. t)
    BY FS_Interval
  <2>3. IsFiniteSet(Odd(t))
    BY <2>1, <2>2, FS_Subset
  <2> QED BY <2>3, FS_CardinalityType
<1>2. t + 1 \notin Odd(t)
  OBVIOUS
<1>3. ~OddUpTo(status, parity, f, f)
  <2>1. Odd(f) = {} /\ Cardinality({}) = 0
    BY FS_EmptySet
  <2> HIDE DEF Odd
  <2>2. Cardinality(Odd(f)) % 2 = 0
    BY <2>1
  <2>3. OddUpTo(status, parity, f, f) <=> Cardinality(Odd(f)) % 2 = 1
    BY DEF Odd, OddUpTo
  <2> QED BY <2>2, <2>3
<1>4. CASE status[t + 1] # "NotReceived" /\ parity[t + 1]
  <2>1. Odd(t + 1) = Odd(t) \cup {t + 1}
    BY <1>4
  <2> HIDE DEF Odd
  <2>2. Cardinality(Odd(t + 1)) = Cardinality(Odd(t)) + 1
    BY <1>1, <1>2, <2>1, FS_AddElement
  <2>3. /\ OddUpTo(status, parity, f, t + 1) <=> Cardinality(Odd(t + 1)) % 2 = 1
        /\ OddUpTo(status, parity, f, t) <=> Cardinality(Odd(t)) % 2 = 1
    BY DEF Odd, OddUpTo
  <2> QED BY <1>1, <1>3, <1>4, <2>2, <2>3
<1>5. CASE ~(status[t + 1] # "NotReceived" /\ parity[t + 1])
  <2>1. Odd(t + 1) = Odd(t)
    BY <1>5
  <2> QED BY <1>3, <1>5, <2>1 DEF OddUpTo
<1> QED BY <1>4, <1>5

LEMMA TableIsSequence ==
  ASSUME NEW T, NEW n \in Nat, NEW q \in [1..n -> T]
  PROVE  q \in Seq(T) /\ Len(q) = n
<1>1. q \in Seq(T)
  BY SeqDef
<1> QED BY <1>1

(* What is known of the packets between f and g is their status.            *)
Tells(known, status, g, f) ==
  /\ g = f + Len(known) + 1
  /\ \A i \in 1..Len(known) : known[i] = status[f + i]

(* The encoder e that has been asked about the packets up to n, of a vector *)
(* up to g                                                                  *)
Encoded(e, n, g, f, xp, known, status, parity) ==
  /\ EncoderFits(e, g, f, known)
  /\ e.full \/ e.cur = n \/ n = g
  /\ n = g => CoveredBy(e) = Len(known) \/ Len(e.bytes) = MaxVector
  /\ e.xor = XOR(xp, OddUpTo(status, parity, f, f + CoveredBy(e)))

LEMMA EncodeStepFits ==
  ASSUME NEW g \in Nat, NEW f \in Nat, NEW xp \in BOOLEAN, NEW status,
         NEW parity \in [f + 1 .. g - 1 -> BOOLEAN],
         NEW known \in Seq(VectorStates), Tells(known, status, g, f),
         NEW n \in f + 1 .. g, NEW e, Encoded(e, n - 1, g, f, xp, known, status, parity)
  PROVE  Encoded(EncodeStep(e, n, g, status, parity), n, g, f, xp, known, status, parity)
<1> DEFINE Odd(t) == OddUpTo(status, parity, f, t)
           c == CoveredBy(e)
<1>1. /\ EncoderFits(e, g, f, known)
      /\ e.full \/ e.cur = n - 1
      /\ e.xor = XOR(xp, Odd(f + c))
  BY DEF Encoded
<1>2. /\ e.gsnfr = f /\ e.cur \in Nat /\ c \in 0..Len(known) /\ Len(known) \in Nat
      /\ e.full => c = Len(known) \/ Len(e.bytes) = MaxVector
  BY <1>1 DEF EncoderFits
<1>3. ~e.full => c = n - 1 - f
  BY <1>1, <1>2 DEF CoveredBy
<1>4. CASE e.full \/ n = g
  <2>1. EncodeStep(e, n, g, status, parity) = e
    BY <1>4 DEF EncodeStep
  <2>2. e.full \/ c = Len(known)
    BY <1>2, <1>3, <1>4 DEF Tells
  <2> QED BY <1>1, <1>2, <1>4, <2>1, <2>2 DEF Encoded
<1>5. CASE ~(e.full \/ n = g)
  <2> DEFINE u == EncoderAdd(e, status[n], parity[n])
  <2>1. EncodeStep(e, n, g, status, parity) = u
    BY <1>5 DEF EncodeStep
  <2>2. e.cur + 1 = n /\ n \in f + 1 .. g - 1 /\ n - f \in 1..Len(known) /\ n = f + (n - f)
    BY <1>1, <1>2, <1>5 DEF Tells
  <2>3. status[n] = known[e.cur + 1 - f]
    <3>1. e.cur + 1 - f = n - f
      BY <1>2, <2>2
    <3>2. known[n - f] = status[f + (n - f)]
      BY <2>2 DEF Tells
    <3> QED BY <2>2, <3>1, <3>2
  <2>4. /\ EncoderFits(u, g, f, known)
        /\ u.cur = e.cur + 1
        /\ u.full => u.xor = e.xor /\ CoveredBy(u) = c
        /\ ~u.full => u.xor = ParityWith(e.xor, status[n], parity[n]) /\ CoveredBy(u) = c + 1
    BY <1>1, <1>5, <2>3, EncoderAddFits DEF Tells
  <2> HIDE DEF u
  <2>5. u.xor = XOR(xp, Odd(f + CoveredBy(u)))
    <3>1. CASE u.full
      BY <1>1, <2>4, <3>1
    <3>2. CASE ~u.full
      <4>1. f + CoveredBy(u) = n /\ f + c = n - 1
        <5>1. c = n - 1 - f
          BY <1>3, <1>5
        <5>2. CoveredBy(u) = c + 1
          BY <2>4, <3>2
        <5> HIDE DEF c
        <5>3. f + (n - 1 - f) = n - 1 /\ f + (n - 1 - f + 1) = n
          OBVIOUS
        <5> QED BY <5>1, <5>2, <5>3
      <4>2. /\ status[n] # "NotReceived" /\ parity[n] => (Odd(n) <=> ~Odd(n - 1))
            /\ ~(status[n] # "NotReceived" /\ parity[n]) => (Odd(n) <=> Odd(n - 1))
        <5>1. n - 1 \in Nat /\ f <= n - 1 /\ (n - 1) + 1 = n
          BY <2>2
        <5>2. ASSUME NEW t \in Nat, f <= t
              PROVE  /\ status[t + 1] # "NotReceived" /\ parity[t + 1]
                          => (Odd(t + 1) <=> ~Odd(t))
                     /\ ~(status[t + 1] # "NotReceived" /\ parity[t + 1])
                          => (Odd(t + 1) <=> Odd(t))
          BY <5>2, OddUpToNext
        <5> HIDE DEF Odd
        <5> QED BY <5>1, <5>2
      <4>3. parity[n] \in BOOLEAN /\ Odd(n) \in BOOLEAN /\ Odd(n - 1) \in BOOLEAN
        BY <2>2 DEF OddUpTo
      <4> HIDE DEF Odd, c
      <4>4. u.xor = ParityWith(XOR(xp, Odd(n - 1)), status[n], parity[n])
        BY <1>1, <2>4, <3>2, <4>1
      <4>5. ParityWith(XOR(xp, Odd(n - 1)), status[n], parity[n]) = XOR(xp, Odd(n))
        BY <4>2, <4>3, Zenon DEF ParityWith, XOR
      <4> QED BY <4>1, <4>4, <4>5
    <3> QED BY <3>1, <3>2
  <2> QED BY <1>5, <2>1, <2>2, <2>4, <2>5 DEF Encoded
<1> QED BY <1>4, <1>5

(* vectorEncoderAdd until it refuses: the encoder that vectorEncoderFinalize*)
(* is handed fits the packets there are, and its parity is that of the ones *)
(* among them that have arrived.                                            *)
LEMMA EncodeVectorFits ==
  ASSUME NEW g \in Nat, NEW f \in Nat, f < g, NEW xp \in BOOLEAN,
         NEW status \in [f + 1 .. g - 1 -> VectorStates],
         NEW parity \in [f + 1 .. g - 1 -> BOOLEAN],
         NEW known \in Seq(VectorStates), Tells(known, status, g, f)
  PROVE  \E e : /\ Encoded(e, g, g, f, xp, known, status, parity)
                /\ EncodeVector(g, f, xp, status, parity) = EncoderFinalize(e)
<1>1. PICK h : /\ Encodes(h, g, f, xp, status, parity)
               /\ EncodeVector(g, f, xp, status, parity) = EncoderFinalize(h[g])
  BY EncodesExists
<1>2. \A n \in f..g : h[n] = IF n = f THEN EncoderStart(g, f, xp)
                             ELSE EncodeStep(h[n - 1], n, g, status, parity)
  BY <1>1 DEF Encodes
<1> DEFINE Good(n) == Encoded(h[n], n, g, f, xp, known, status, parity)
           Bad == {n \in f..g : ~Good(n)}
<1>3. Good(f)
  <2> DEFINE e == EncoderStart(g, f, xp)
  <2>1. h[f] = e
    BY <1>2
  <2>2. /\ EncoderFits(e, g, f, known) /\ ~e.full
        /\ CoveredBy(e) = 0 /\ e.xor = xp /\ e.cur = f
    BY EncoderStartFits DEF Tells
  <2>3. ~OddUpTo(status, parity, f, f) /\ f + 0 = f
    BY OddUpToNext
  <2>4. OddUpTo(status, parity, f, f) \in BOOLEAN
    BY DEF OddUpTo
  <2>5. XOR(xp, OddUpTo(status, parity, f, f)) = xp
    BY <2>3, <2>4, Zenon DEF XOR
  <2> HIDE DEF e
  <2> QED BY <2>1, <2>2, <2>3, <2>5 DEF Encoded
<1>4. ASSUME NEW n \in f + 1 .. g, Good(n - 1) PROVE Good(n)
  <2>1. h[n] = EncodeStep(h[n - 1], n, g, status, parity)
    BY <1>2
  <2>2. ASSUME NEW e, Encoded(e, n - 1, g, f, xp, known, status, parity)
        PROVE  Encoded(EncodeStep(e, n, g, status, parity), n, g, f, xp, known, status, parity)
    BY <2>2, EncodeStepFits
  <2> QED BY <1>4, <2>1, <2>2
<1>5. Bad = {}
  <2>1. Bad \in SUBSET (f..g)
    OBVIOUS
  <2>2. f \notin Bad
    BY <1>3
  <2>3. ASSUME NEW n \in f + 1 .. g, n - 1 \notin Bad PROVE n \notin Bad
    <3>1. n - 1 \in f..g
      OBVIOUS
    <3> HIDE DEF Good
    <3> QED BY <1>4, <2>3, <3>1
  <2> HIDE DEF Bad
  <2> QED BY <2>1, <2>2, <2>3, NoneBad
<1>6. Good(g)
  <2>1. g \in f..g
    OBVIOUS
  <2> HIDE DEF Good
  <2> QED BY <1>5, <2>1
<1> HIDE DEF Bad
<1> QED BY <1>1, <1>6

(* The decoder's state and what it returned, after n calls of               *)
(* vectorDecoderGetNextPacketState                                          *)
DecodeStep(was) ==
  IF DecoderHasData(was.d)
    THEN [d |-> DecoderAdvance(was.d), seen |-> Append(was.seen, DecoderState(was.d))]
    ELSE was

Decodes(h, start, last) ==
  h = [n \in 0..last |-> IF n = 0 THEN [d |-> start, seen |-> << >>]
                         ELSE DecodeStep(h[n - 1])]

(* No call is needed more than there are packets in the longest vector of   *)
(* as many bytes.                                                           *)
LEMMA AdvanceShortens ==
  ASSUME NEW known, NEW n \in Nat, NEW d, NEW seen, DecoderFits(d, seen, known, n),
         DecoderHasData(d)
  PROVE  LET u == DecoderAdvance(d)
             Left(x) == MaxRun * Len(x.bytes) - x.consumed
         IN  Left(d) \in Nat \ {0} /\ Left(u) \in Nat /\ Left(u) < Left(d)
<1> DEFINE u == DecoderAdvance(d)
           byte == Head(d.bytes)
           k == Len(d.bytes)
<1>1. d.bytes # << >> /\ byte.run # 0
  BY DEF DecoderHasData
<1>2. /\ d.bytes \in Seq(Byte) /\ d.consumed \in Nat /\ d.consumed < byte.run
      /\ DOMAIN d = {"bytes", "consumed"}
  BY <1>1 DEF DecoderFits
<1>3. byte \in Byte /\ k \in Nat \ {0} /\ Len(Tail(d.bytes)) = k - 1
  BY <1>1, <1>2
<1>4. byte.run \in Nat /\ byte.run <= MaxRun
  BY <1>3, ByteFields
<1>5. MaxRun * k \in Nat /\ MaxRun * k >= MaxRun /\ MaxRun * (k - 1) = MaxRun * k - MaxRun
      /\ MaxRun \in Nat
  <2>1. PICK j \in Nat : k = j + 1
    <3>1. k - 1 \in Nat /\ k = (k - 1) + 1
      BY <1>3
    <3> QED BY <3>1
  <2>2. MaxRun * (j + 1) = MaxRun * j + MaxRun /\ MaxRun * j \in Nat /\ MaxRun \in Nat
    BY MaxRunAssumption
  <2>3. k - 1 = j
    BY <2>1
  <2> HIDE DEF k
  <2> QED BY <2>1, <2>2, <2>3
<1>6. CASE d.consumed + 1 >= byte.run
  <2>1. u = [bytes |-> Tail(d.bytes), consumed |-> 0]
    BY <1>6 DEF DecoderAdvance
  <2>2. Len(u.bytes) = k - 1 /\ u.consumed = 0
    BY <1>3, <2>1
  <2> HIDE DEF u, k, byte
  <2> QED BY <1>2, <1>4, <1>5, <2>2 DEF u, k
<1>7. CASE ~(d.consumed + 1 >= byte.run)
  <2>1. u = [d EXCEPT !.consumed = @ + 1]
    BY <1>7 DEF DecoderAdvance
  <2>2. u.bytes = d.bytes /\ u.consumed = d.consumed + 1
    BY <1>2, <2>1
  <2> HIDE DEF u, k, byte
  <2> QED BY <1>2, <1>4, <1>5, <1>7, <2>2 DEF u, k
<1> QED BY <1>6, <1>7

(* What vectorDecoderGetNextPacketState returns until there is no more data *)
LEMMA DecodesExists ==
  ASSUME NEW g \in Nat, NEW f \in Nat, f < g, NEW vector \in Seq(Byte),
         NEW start, start = DecoderStart(vector, g, f)
  PROVE  \E h : /\ Decodes(h, start, MaxRun * Len(start.bytes))
                /\ DecodeVector(vector, g, f) = h[MaxRun * Len(start.bytes)].seen
<1> DEFINE AnyByte == [state : VectorStates, run : Nat]
           D == [bytes : Seq(AnyByte), consumed : Nat]
           T == [d : D, seen : Seq(VectorStates)]
           last == MaxRun * Len(start.bytes)
           step == [n \in 1 .. last |-> [x \in T |-> DecodeStep(x)]]
           first == [d |-> start, seen |-> << >>]
<1>1. start \in D
  <2>1. vector \in Seq(AnyByte)
    <3>1. Byte \subseteq AnyByte
      BY MaxRunAssumption DEF Byte
    <3> QED BY <3>1, SeqMonotonic
  <2>2. OmittedRun(g, f) \in Nat
    <3>1. g - f - 1 \in Nat /\ MaxRun + 1 \in Nat \ {0}
      BY MaxRunAssumption
    <3> QED BY <3>1 DEF OmittedRun
  <2> DEFINE made == [state |-> "NotReceived", run |-> OmittedRun(g, f)]
  <2>3. <<made>> \in Seq(AnyByte)
    <3>1. made \in AnyByte
      BY <2>2 DEF VectorStates
    <3> HIDE DEF made, AnyByte
    <3> QED BY <3>1
  <2>4. start = [bytes |-> IF g # f /\ vector = << >> THEN <<made>> ELSE vector, consumed |-> 0]
    BY DEF DecoderStart
  <2> HIDE DEF made, AnyByte
  <2> QED BY <2>1, <2>3, <2>4
<1>2. first \in T
  <2>1. << >> \in Seq(VectorStates)
    OBVIOUS
  <2> HIDE DEF D
  <2> QED BY <1>1, <2>1
<1>3. ASSUME NEW x \in T PROVE DecodeStep(x) \in T
  <2>1. CASE ~DecoderHasData(x.d)
    BY <2>1 DEF DecodeStep
  <2>2. CASE DecoderHasData(x.d)
    <3> DEFINE d == x.d
    <3>1. d.bytes # << >> /\ d.bytes \in Seq(AnyByte) /\ d.consumed \in Nat
          /\ x.seen \in Seq(VectorStates)
      BY <2>2 DEF DecoderHasData
    <3>2. Head(d.bytes) \in AnyByte /\ Tail(d.bytes) \in Seq(AnyByte)
      <4> HIDE DEF AnyByte, d
      <4> QED BY <3>1
    <3>3. DecoderAdvance(d) \in D
      <4>1. CASE d.consumed + 1 >= Head(d.bytes).run
        <5>1. DecoderAdvance(d) = [bytes |-> Tail(d.bytes), consumed |-> 0]
          BY <4>1 DEF DecoderAdvance
        <5> HIDE DEF AnyByte, d
        <5> QED BY <3>2, <5>1
      <4>2. CASE ~(d.consumed + 1 >= Head(d.bytes).run)
        <5>1. DecoderAdvance(d) = [bytes |-> d.bytes, consumed |-> d.consumed + 1]
          BY <4>2 DEF DecoderAdvance
        <5> HIDE DEF AnyByte, d
        <5> QED BY <3>1, <5>1
      <4> QED BY <4>1, <4>2
    <3>4. Append(x.seen, DecoderState(d)) \in Seq(VectorStates)
      <4>1. DecoderState(d) \in VectorStates
        BY <3>2 DEF DecoderState
      <4> HIDE DEF d
      <4> QED BY <3>1, <4>1
    <3>5. DecodeStep(x) = [d |-> DecoderAdvance(d), seen |-> Append(x.seen, DecoderState(d))]
      BY <2>2 DEF DecodeStep
    <3> HIDE DEF D, d
    <3> QED BY <3>3, <3>4, <3>5
  <2> QED BY <2>1, <2>2
<1>4. last \in Nat
  <2>1. Len(start.bytes) \in Nat /\ MaxRun \in Nat
    BY <1>1, MaxRunAssumption
  <2> QED BY <2>1
<1>5. PICK h : Iterates(h, 0, last, T, first, step)
  <2>1. Steps(step, 0, last, T)
    <3>1. step \in [1..last -> [T -> T]] /\ 0 + 1 = 1
      <4> HIDE DEF T, last
      <4> QED BY <1>3
    <3> HIDE DEF step, T, last
    <3> QED BY <3>1 DEF Steps
  <2>2. 0 \in Nat /\ 0 <= last
    BY <1>4
  <2> HIDE DEF step, T, last, first
  <2> QED BY <1>2, <1>4, <2>1, <2>2, IteratesExist
<1>6. Decodes(h, start, last)
  <2>1. /\ h \in [0..last -> T] /\ h[0] = first
        /\ \A n \in 1 .. last : h[n] = step[n][h[n - 1]]
    <3> HIDE DEF step, T, last, first
    <3> QED BY <1>5 DEF Iterates
  <2>2. ASSUME NEW n \in 0..last
        PROVE  h[n] = IF n = 0 THEN first ELSE DecodeStep(h[n - 1])
    <3>1. CASE n = 0
      <4> HIDE DEF first
      <4> QED BY <2>1, <3>1
    <3>2. CASE n # 0
      <4> HIDE DEF T, last, first
      <4>1. n \in 1 .. last /\ n - 1 \in 0..last /\ h[n - 1] \in T
        BY <1>4, <2>1, <3>2
      <4>2. h[n] = step[n][h[n - 1]]
        BY <2>1, <4>1
      <4> QED BY <3>2, <4>1, <4>2
    <3> QED BY <3>1, <3>2
  <2>3. h = [n \in 0..last |-> h[n]]
    <3> HIDE DEF T, last
    <3> QED BY <2>1
  <2> HIDE DEF T, last
  <2> QED BY <2>2, <2>3 DEF Decodes
<1> DEFINE dec == CHOOSE h2 : Decodes(h2, start, last)
<1>7. Decodes(dec, start, last)
  <2> HIDE DEF last
  <2> QED BY <1>6, Zenon
<1>8. DecodeVector(vector, g, f) = dec[last].seen
  BY DEF DecodeVector, Decodes, DecodeStep
<1> QED BY <1>7, <1>8, Zenon

LEMMA DecodeVectorReturns ==
  ASSUME NEW g \in Nat, NEW f \in Nat, f < g, NEW vector \in Seq(Byte),
         NEW known, NEW m \in Nat, NEW start, start = DecoderStart(vector, g, f),
         DecoderFits(start, << >>, known, m), Len(start.bytes) \in Nat
  PROVE  LET v == DecodeVector(vector, g, f)
         IN  v \in Seq(VectorStates) /\ Len(v) = m /\ \A i \in 1..m : v[i] = known[i]
<1> DEFINE last == MaxRun * Len(start.bytes)
           Left(d) == MaxRun * Len(d.bytes) - d.consumed
<1>1. PICK h : /\ Decodes(h, start, last)
               /\ DecodeVector(vector, g, f) = h[last].seen
  BY DecodesExists
<1>2. last \in Nat /\ Left(start) = last
  <2>1. MaxRun \in Nat /\ start.consumed = 0
    BY MaxRunAssumption DEF DecoderStart
  <2>2. last \in Nat
    BY <2>1
  <2> HIDE DEF last
  <2> QED BY <2>1, <2>2 DEF last
<1> DEFINE Good(n) == /\ DecoderFits(h[n].d, h[n].seen, known, m)
                      /\ DecoderHasData(h[n].d) => Left(h[n].d) <= last - n
           Bad == {n \in 0..last : ~Good(n)}
<1> HIDE DEF last, Left
<1>3. \A n \in 0..last : h[n] = IF n = 0 THEN [d |-> start, seen |-> << >>]
                                ELSE DecodeStep(h[n - 1])
  BY <1>1 DEF Decodes
<1>4. Good(0)
  <2>1. h[0] = [d |-> start, seen |-> << >>]
    BY <1>2, <1>3
  <2>2. h[0].d = start /\ h[0].seen = << >>
    BY <2>1
  <2> QED BY <1>2, <2>2
<1>5. ASSUME NEW n \in 1..last, Good(n - 1) PROVE Good(n)
  <2> DEFINE x == h[n - 1]
  <2>1. h[n] = DecodeStep(x)
    BY <1>2, <1>3
  <2>2. DecoderFits(x.d, x.seen, known, m)
        /\ (DecoderHasData(x.d) => Left(x.d) <= last - (n - 1))
    BY <1>5
  <2>3. CASE ~DecoderHasData(x.d)
    <3>1. h[n] = x
      BY <2>1, <2>3 DEF DecodeStep
    <3> QED BY <2>2, <2>3, <3>1
  <2>4. CASE DecoderHasData(x.d)
    <3>1. h[n].d = DecoderAdvance(x.d) /\ h[n].seen = Append(x.seen, DecoderState(x.d))
      BY <2>1, <2>4 DEF DecodeStep
    <3>2. DecoderFits(h[n].d, h[n].seen, known, m)
      BY <2>2, <2>4, <3>1, DecoderAdvanceFits
    <3>3. Left(x.d) \in Nat /\ Left(h[n].d) \in Nat /\ Left(h[n].d) < Left(x.d)
      BY <2>2, <2>4, <3>1, AdvanceShortens DEF Left
    <3>4. Left(h[n].d) <= last - n
      <4> HIDE DEF x
      <4> QED BY <1>2, <2>2, <2>4, <3>3
    <3> QED BY <3>2, <3>4
  <2> QED BY <2>3, <2>4
<1>6. Bad = {}
  <2>1. Bad \in SUBSET (0..last)
    OBVIOUS
  <2>2. 0 \notin Bad
    BY <1>4
  <2>3. ASSUME NEW n \in 0 + 1 .. last, n - 1 \notin Bad PROVE n \notin Bad
    <3>1. n - 1 \in 0..last /\ n \in 1..last
      BY <1>2
    <3> HIDE DEF Good
    <3> QED BY <1>5, <2>3, <3>1
  <2> HIDE DEF Bad
  <2> QED BY <1>2, <2>1, <2>2, <2>3, NoneBad
<1>7. Good(last)
  <2>1. last \in 0..last
    BY <1>2
  <2> HIDE DEF Good
  <2> QED BY <1>6, <2>1
<1> HIDE DEF Bad
<1> DEFINE d == h[last].d
           seen == h[last].seen
<1>8. ~DecoderHasData(d)
  <2>1. SUFFICES ASSUME DecoderHasData(d) PROVE FALSE
    OBVIOUS
  <2>2. Left(d) \in Nat \ {0}
    BY <1>7, <2>1, AdvanceShortens DEF Left
  <2>3. Left(d) <= 0
    <3>1. last - last = 0
      BY <1>2
    <3> QED BY <1>7, <2>1, <3>1
  <2> QED BY <2>2, <2>3
<1>9. Len(seen) = m
  BY <1>7, <1>8, DecoderEndFits
<1>10. seen \in Seq(VectorStates) /\ \A i \in 1..Len(seen) : seen[i] = known[i]
  BY <1>7 DEF DecoderFits
<1> HIDE DEF Good, d
<1> QED BY <1>1, <1>9, <1>10

-----------------------------------------------------------------------------
(* What the receiver tells survives the vector: the sender is told of each  *)
(* packet up to where the vector ends what became of it, and of no other,   *)
(* and the parity it is told is that of the packets among them that have    *)
(* arrived (vectorEncoderAdd, vectorEncoderFinalize, vectorDecoderStart,    *)
(* vectorDecoderGetNextPacketState), however long the vector would be.      *)
THEOREM VectorSurvives ==
  ASSUME NEW g \in Nat, NEW f \in Nat, f < g, NEW xp \in BOOLEAN,
         NEW status \in [f + 1 .. g - 1 -> VectorStates],
         NEW parity \in [f + 1 .. g - 1 -> BOOLEAN]
  PROVE  LET e == EncodeVector(g, f, xp, status, parity)
             v == DecodeVector(e.vector, g, f)
         IN  /\ v \in Seq(VectorStates) /\ Len(v) <= g - f - 1
             /\ \A i \in 1..Len(v) : v[i] = status[f + i]
             /\ e.vp = XOR(xp, OddUpTo(status, parity, f, f + Len(v)))
<1> DEFINE known == [i \in 1..g - f - 1 |-> status[f + i]]
           out == EncodeVector(g, f, xp, status, parity)
<1>1. known \in Seq(VectorStates) /\ Tells(known, status, g, f)
  <2>1. \A i \in 1..g - f - 1 : status[f + i] \in VectorStates
    OBVIOUS
  <2>2. g - f - 1 \in Nat
    OBVIOUS
  <2>3. known \in [1..g - f - 1 -> VectorStates]
    BY <2>1
  <2>4. \A i \in 1..g - f - 1 : known[i] = status[f + i]
    OBVIOUS
  <2> HIDE DEF known
  <2>5. known \in Seq(VectorStates) /\ Len(known) = g - f - 1
    BY <2>2, <2>3, TableIsSequence
  <2> QED BY <2>4, <2>5 DEF Tells
<1> HIDE DEF known, out
<1>2. PICK e : /\ Encoded(e, g, g, f, xp, known, status, parity)
               /\ out = EncoderFinalize(e)
  BY <1>1, EncodeVectorFits DEF out
<1>3. /\ EncoderFits(e, g, f, known)
      /\ CoveredBy(e) = Len(known) \/ Len(e.bytes) = MaxVector
      /\ e.xor = XOR(xp, OddUpTo(status, parity, f, f + CoveredBy(e)))
  BY <1>2 DEF Encoded
<1> DEFINE start == DecoderStart(out.vector, g, f)
           m == CoveredBy(e)
<1>4. DecoderFits(start, << >>, known, m) /\ Len(start.bytes) \in Nat
  BY <1>1, <1>2, <1>3, DecoderStartFits DEF Tells
<1>5. m \in 0..Len(known) /\ e.bytes \in Seq(Byte)
  BY <1>3 DEF EncoderFits
<1>6. out.vector \in Seq(Byte) /\ out.vp = e.xor
  BY <1>2, <1>5 DEF EncoderFinalize
<1> DEFINE v == DecodeVector(out.vector, g, f)
<1>7. m \in Nat
  BY <1>5
<1>8. v \in Seq(VectorStates) /\ Len(v) = m /\ \A i \in 1..m : v[i] = known[i]
  BY <1>4, <1>6, <1>7, DecodeVectorReturns
<1> HIDE DEF v, m
<1>9. /\ v \in Seq(VectorStates) /\ Len(v) <= g - f - 1
      /\ \A i \in 1..Len(v) : v[i] = status[f + i]
  BY <1>1, <1>5, <1>8, SMTT(60) DEF Tells
<1>10. out.vp = XOR(xp, OddUpTo(status, parity, f, f + Len(v)))
  BY <1>3, <1>6, <1>8 DEF m
<1> QED BY <1>9, <1>10 DEF v, out

=============================================================================
