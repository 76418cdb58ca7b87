----------------------- MODULE RUDPChannelPairProofs -----------------------
(* The two ends of a channel tell each other the truth, whatever the        *)
(* network does: what one is told of its packets the other has, no ACK is   *)
(* taken for an illegal one, and each direction implements ReliableStream.  *)
EXTENDS RUDPChannelPair, TLAPS

(* What each end's lemmas assume of its constants.                          *)
LEMMA AssumptionsA ==
  /\ A!SeqModulusAssumption /\ A!MaxRunAssumption /\ A!MaxVectorAssumption
  /\ A!StreamAssumption /\ A!MessagesAssumption
BY PairAssumption, WireAssumption
   DEF A!SeqModulusAssumption, A!MaxRunAssumption, A!MaxVectorAssumption,
       A!StreamAssumption, A!MessagesAssumption

LEMMA AssumptionsB ==
  /\ B!SeqModulusAssumption /\ B!MaxRunAssumption /\ B!MaxVectorAssumption
  /\ B!StreamAssumption /\ B!MessagesAssumption
BY PairAssumption, WireAssumption
   DEF B!SeqModulusAssumption, B!MaxRunAssumption, B!MaxVectorAssumption,
       B!StreamAssumption, B!MessagesAssumption

-----------------------------------------------------------------------------
(* Both ends mean the same by an ACK, a packet and a history.               *)

LEMMA HeardAlike ==
  ASSUME NEW a
  PROVE  A!Heard(a) = B!Heard(a)
BY DEF A!Heard, B!Heard, A!DecodeVector, B!DecodeVector, A!DecoderStart, B!DecoderStart,
       A!DecoderHasData, B!DecoderHasData, A!DecoderAdvance, B!DecoderAdvance,
       A!DecoderState, B!DecoderState, A!OmittedRun, B!OmittedRun

LEMMA ToldAlike ==
  ASSUME NEW a
  PROVE  A!Told(a) = B!Told(a)
BY HeardAlike DEF A!Told, B!Told, A!Arrived, B!Arrived

LEMMA SizeAlike ==
  ASSUME NEW S
  PROVE  A!Cardinality(S) = B!Cardinality(S)
BY DEF A!Cardinality, B!Cardinality

LEMMA HonestAlike ==
  ASSUME NEW a, NEW F, NEW top, NEW x
  PROVE  A!Honest(a, F, top, x) <=> B!Honest(a, F, top, x)
<1>1. A!OddIn(x, A!Told(a)) = B!OddIn(x, B!Told(a))
  <2>1. \A s : A!Ps(x, s) = B!Ps(x, s)
    BY DEF A!Ps, B!Ps, A!XOR, B!XOR
  <2>2. {s \in A!Told(a) : A!Ps(x, s)} = {s \in B!Told(a) : B!Ps(x, s)}
    BY <2>1, ToldAlike
  <2> QED BY <2>2, SizeAlike DEF A!OddIn, B!OddIn
<1>2. A!VectorHonest(a, x) <=> B!VectorHonest(a, x)
  BY <1>1, HeardAlike DEF A!VectorHonest, B!VectorHonest, A!XOR, B!XOR,
     A!VectorStates, B!VectorStates
<1> QED
  BY <1>2 DEF A!Honest, B!Honest, A!Bounded, B!Bounded, A!Ps, B!Ps, A!XOR, B!XOR

LEMMA SpeaksAlike ==
  ASSUME NEW a, NEW r, NEW d, NEW F, NEW top, NEW x
  PROVE  A!Speaks(a, r, d, F, top, x) <=> B!Speaks(a, r, d, F, top, x)
BY HonestAlike, ToldAlike DEF A!Speaks, B!Speaks, A!Knows, B!Knows, A!Got, B!Got

LEMMA CarriesAlike ==
  ASSUME NEW m, NEW r, NEW d, NEW F, NEW top, NEW x
  PROVE  A!Carries(m, r, d, F, top, x) <=> B!Carries(m, r, d, F, top, x)
BY SpeaksAlike DEF A!Carries, B!Carries, A!AckIn, B!AckIn, A!LowBits, B!LowBits

LEMMA GenuineAlike ==
  ASSUME NEW m, NEW F, NEW top, NEW x
  PROVE  A!Genuine(m, F, top, x) <=> B!Genuine(m, F, top, x)
BY DEF A!Genuine, B!Genuine, A!Is, B!Is, A!LowBits, B!LowBits, A!Ps, B!Ps, A!XOR, B!XOR

LEMMA LaterAlike ==
  ASSUME NEW top, NEW x, NEW top1, NEW x1
  PROVE  A!Later(top, x, top1, x1) <=> B!Later(top, x, top1, x1)
BY DEF A!Later, B!Later, A!History, B!History, A!Extends, B!Extends

LEMMA HistoryAlike ==
  A!History = B!History
BY DEF A!History, B!History

LEMMA GrowsAlike ==
  ASSUME NEW r, NEW d, NEW r1, NEW d1
  PROVE  A!Grows(r, d, r1, d1) <=> B!Grows(r, d, r1, d1)
BY DEF A!Grows, B!Grows, A!Got, B!Got

LEMMA HandedAlike ==
  ASSUME NEW o, NEW o1
  PROVE  A!Handed(o, o1) <=> B!Handed(o, o1)
BY DEF A!Handed, B!Handed, A!Count, B!Count

-----------------------------------------------------------------------------
(* The inductive invariant. x is the history of what A sends, y of what B   *)
(* does. An ACK under way was true when it was made, and what its maker had *)
(* received it still has.                                                   *)

Mail(x, y) ==
  /\ \A r \in requests :
       /\ r.from = "A" => A!Speaks(r.ack, rxA, ctlA.delegate, FirstB, txB.next, y)
       /\ r.from = "B" => B!Speaks(r.ack, rxB, ctlB.delegate, FirstA, txA.next, x)
  /\ \A a \in answers \cup indications :
       /\ a.to = "B" => A!Speaks(a.ack, rxA, ctlA.delegate, FirstB, txB.next, y)
       /\ a.to = "A" => B!Speaks(a.ack, rxB, ctlB.delegate, FirstA, txA.next, x)

Duplex(x, y) ==
  /\ A!Own(x, txB.next, y)
  /\ B!Own(y, txA.next, x)
  /\ A!Believes(txA, ctlA.delegate, rxB, ctlB.delegate)
  /\ B!Believes(txB, ctlB.delegate, rxA, ctlA.delegate)
  /\ Mail(x, y)

PairInv == \E x, y \in A!History : Duplex(x, y)

(* What a step of its own, or one that takes in a packet or an ACK, makes   *)
(* of one end.                                                              *)
MoveA(x, x1, y) ==
  /\ A!Later(txA.next, x, txA'.next, x1)
  /\ A!EndInv(ctlA', txA', rxA', ioA', burstA', wireA', x1, txB.next, y)
  /\ A!BooksInv'
  /\ A!Grows(rxA, ctlA.delegate, rxA', ctlA'.delegate)
  /\ A!Believes(txA', ctlA'.delegate, rxB, ctlB.delegate)

MoveB(y, y1, x) ==
  /\ B!Later(txB.next, y, txB'.next, y1)
  /\ B!EndInv(ctlB', txB', rxB', ioB', burstB', wireB', y1, txA.next, x)
  /\ B!BooksInv'
  /\ B!Grows(rxB, ctlB.delegate, rxB', ctlB'.delegate)
  /\ B!Believes(txB', ctlB'.delegate, rxA, ctlA.delegate)

StillA == UNCHANGED <<ctlA, txA, rxA, ioA, burstA>> /\ wireA' \subseteq wireA
StillB == UNCHANGED <<ctlB, txB, rxB, ioB, burstB>> /\ wireB' \subseteq wireB

(* The ACKs under way after the step: the old ones, and some that tell what *)
(* the end that moved knew.                                                 *)
PostedByA(y) ==
  /\ \A r \in requests' :
       /\ r.from = "A" => A!Speaks(r.ack, rxA, ctlA.delegate, FirstB, txB.next, y)
       /\ r.from = "B" => r \in requests
  /\ \A a \in answers' \cup indications' :
       /\ a.to = "B" => A!Speaks(a.ack, rxA, ctlA.delegate, FirstB, txB.next, y)
       /\ a.to = "A" => a \in answers \cup indications

PostedByB(x) ==
  /\ \A r \in requests' :
       /\ r.from = "B" => B!Speaks(r.ack, rxB, ctlB.delegate, FirstA, txA.next, x)
       /\ r.from = "A" => r \in requests
  /\ \A a \in answers' \cup indications' :
       /\ a.to = "A" => B!Speaks(a.ack, rxB, ctlB.delegate, FirstA, txA.next, x)
       /\ a.to = "B" => a \in answers \cup indications

LEMMA BelievesGrowsA ==
  ASSUME NEW t, NEW d, NEW r, NEW e, NEW r1, NEW e1,
         A!Believes(t, d, r, e), A!Grows(r, e, r1, e1)
  PROVE  A!Believes(t, d, r1, e1)
<1> SUFFICES ASSUME d, NEW s \in FirstA..t.next - 1
             PROVE  /\ s \notin A!Sending(t) => s <= r1.gsnfr
                    /\ e1 /\ s \in t.acked => A!Got(r1, s)
  BY DEF A!Believes
<1>1. s \in Int /\ r.gsnfr \in Nat /\ r1.gsnfr \in Nat /\ r.gsnfr <= r1.gsnfr
  BY PairAssumption DEF A!Grows
<1>2. s \in Nat
  BY PairAssumption
<1>3. (s \notin A!Sending(t) => s <= r.gsnfr) /\ (e /\ s \in t.acked => A!Got(r, s))
  BY DEF A!Believes
<1>4. e1 => e /\ (A!Got(r, s) => A!Got(r1, s))
  BY <1>2 DEF A!Grows
<1> QED BY <1>1, <1>3, <1>4

LEMMA BelievesGrowsB ==
  ASSUME NEW t, NEW d, NEW r, NEW e, NEW r1, NEW e1,
         B!Believes(t, d, r, e), B!Grows(r, e, r1, e1)
  PROVE  B!Believes(t, d, r1, e1)
<1> SUFFICES ASSUME d, NEW s \in FirstB..t.next - 1
             PROVE  /\ s \notin B!Sending(t) => s <= r1.gsnfr
                    /\ e1 /\ s \in t.acked => B!Got(r1, s)
  BY DEF B!Believes
<1>1. s \in Int /\ r.gsnfr \in Nat /\ r1.gsnfr \in Nat /\ r.gsnfr <= r1.gsnfr
  BY PairAssumption DEF B!Grows
<1>2. s \in Nat
  BY PairAssumption
<1>3. (s \notin B!Sending(t) => s <= r.gsnfr) /\ (e /\ s \in t.acked => B!Got(r, s))
  BY DEF B!Believes
<1>4. e1 => e /\ (B!Got(r, s) => B!Got(r1, s))
  BY <1>2 DEF B!Grows
<1> QED BY <1>1, <1>3, <1>4

(* One end has moved, the other has not.                                    *)
LEMMA OtherWaitsA ==
  ASSUME NEW x, NEW y, Duplex(x, y), NEW x1, MoveA(x, x1, y), StillB
  PROVE  /\ B!Own(y, txA.next, x1)'
         /\ B!Believes(txB, ctlB.delegate, rxA, ctlA.delegate)'
<1>1. /\ B!Own(y, txA.next, x)
      /\ B!Believes(txB, ctlB.delegate, rxA, ctlA.delegate)
  BY DEF Duplex
<1>2. /\ ctlB' = ctlB /\ txB' = txB /\ rxB' = rxB /\ ioB' = ioB /\ burstB' = burstB
      /\ wireB' \subseteq wireB
  BY DEF StillB
<1>3. /\ A!Later(txA.next, x, txA'.next, x1)
      /\ A!Grows(rxA, ctlA.delegate, rxA', ctlA'.delegate)
  BY DEF MoveA
<1>4. /\ B!Later(txA.next, x, txA'.next, x1)
      /\ B!Grows(rxA, ctlA.delegate, rxA', ctlA'.delegate)
  BY <1>3, LaterAlike, GrowsAlike
<1>5. /\ B!EndInv(ctlB, txB, rxB, ioB, burstB, wireB, y, txA.next, x)
      /\ y \in B!History /\ B!BooksInv
  BY <1>1 DEF B!Own
<1>6. B!EndInv(ctlB, txB, rxB, ioB, burstB, wireB, y, txA'.next, x1)
  BY <1>4, <1>5, AssumptionsB, B!EndLater
<1>7. B!EndInv(ctlB, txB, rxB, ioB, burstB, wireB', y, txA'.next, x1)
  BY <1>2, <1>6 DEF B!EndInv, B!WireHonest
<1>8. B!BooksInv'
  BY <1>2, <1>5 DEF B!BooksInv, B!Shape, B!Balanced, B!Sending
<1>9. txA'.next \in Nat /\ x1 \in B!History
  BY <1>4 DEF B!Later
<1>10. B!Own(y, txA.next, x1)'
  BY <1>2, <1>5, <1>7, <1>8, <1>9 DEF B!Own
<1>11. B!Believes(txB, ctlB.delegate, rxA', ctlA'.delegate)
  BY <1>1, <1>4, BelievesGrowsB
<1>12. B!Believes(txB, ctlB.delegate, rxA, ctlA.delegate)'
  BY <1>2, <1>11
<1> QED BY <1>10, <1>12

LEMMA MailKeptA ==
  ASSUME NEW x, NEW y, Duplex(x, y), NEW x1, MoveA(x, x1, y), StillB, PostedByA(y)
  PROVE  Mail(x1, y)'
<1>1. /\ A!Own(x, txB.next, y) /\ B!Own(y, txA.next, x) /\ Mail(x, y)
  BY DEF Duplex
<1>2. ctlB' = ctlB /\ txB' = txB /\ rxB' = rxB
  BY DEF StillB
<1>3. /\ A!Later(txA.next, x, txA'.next, x1)
      /\ A!Grows(rxA, ctlA.delegate, rxA', ctlA'.delegate)
  BY DEF MoveA
<1>4. B!Later(txA.next, x, txA'.next, x1)
  BY <1>3, LaterAlike
<1>5. A!Later(txB.next, y, txB.next, y)
  <2>1. txB.next \in Nat /\ y \in A!History
    BY <1>1 DEF A!Own
  <2> QED BY <2>1, AssumptionsA, A!LaterSame
<1>6. B!Grows(rxB, ctlB.delegate, rxB, ctlB.delegate)
  <2>1. rxB.gsnfr \in Nat
    BY <1>1, AssumptionsB, B!SenderFields
  <2>2. B!SameRx(rxB, rxB)
    BY DEF B!SameRx
  <2> QED BY <2>1, <2>2, AssumptionsB, B!GrowsSame
<1>7. ASSUME NEW a, A!Speaks(a, rxA, ctlA.delegate, FirstB, txB.next, y)
      PROVE  A!Speaks(a, rxA', ctlA'.delegate, FirstB, txB.next, y)
  <2>1. FirstB \in Nat \ {0}
    BY PairAssumption
  <2> QED BY <1>3, <1>5, <1>7, <2>1, AssumptionsA, A!SpeaksLater
<1>8. ASSUME NEW a, B!Speaks(a, rxB, ctlB.delegate, FirstA, txA.next, x)
      PROVE  B!Speaks(a, rxB, ctlB.delegate, FirstA, txA'.next, x1)
  <2>1. FirstA \in Nat \ {0}
    BY PairAssumption
  <2> QED BY <1>4, <1>6, <1>8, <2>1, AssumptionsB, B!SpeaksLater
<1>9. ASSUME NEW r \in requests'
      PROVE  /\ r.from = "A" => A!Speaks(r.ack, rxA', ctlA'.delegate, FirstB, txB.next, y)
             /\ r.from = "B" => B!Speaks(r.ack, rxB, ctlB.delegate, FirstA, txA'.next, x1)
  <2>1. r.from = "A" => A!Speaks(r.ack, rxA, ctlA.delegate, FirstB, txB.next, y)
    BY DEF PostedByA
  <2>2. r.from = "B" => B!Speaks(r.ack, rxB, ctlB.delegate, FirstA, txA.next, x)
    BY <1>1 DEF PostedByA, Mail
  <2> QED BY <1>7, <1>8, <2>1, <2>2
<1>10. ASSUME NEW a \in answers' \cup indications'
       PROVE  /\ a.to = "B" => A!Speaks(a.ack, rxA', ctlA'.delegate, FirstB, txB.next, y)
              /\ a.to = "A" => B!Speaks(a.ack, rxB, ctlB.delegate, FirstA, txA'.next, x1)
  <2>1. a.to = "B" => A!Speaks(a.ack, rxA, ctlA.delegate, FirstB, txB.next, y)
    BY DEF PostedByA
  <2>2. a.to = "A" => B!Speaks(a.ack, rxB, ctlB.delegate, FirstA, txA.next, x)
    BY <1>1 DEF PostedByA, Mail
  <2> QED BY <1>7, <1>8, <2>1, <2>2
<1> QED BY <1>2, <1>9, <1>10 DEF Mail

LEMMA AdvanceA ==
  ASSUME NEW x, NEW y, Duplex(x, y), NEW x1, MoveA(x, x1, y), StillB, PostedByA(y)
  PROVE  PairInv'
<1>1. /\ B!Own(y, txA.next, x1)'
      /\ B!Believes(txB, ctlB.delegate, rxA, ctlA.delegate)'
  BY OtherWaitsA
<1>2. Mail(x1, y)'
  BY MailKeptA
<1>3. ctlB' = ctlB /\ txB' = txB /\ rxB' = rxB
  BY DEF StillB
<1>4. A!Own(x, txB.next, y)
  BY DEF Duplex
<1>5. txB.next \in Nat /\ y \in A!History /\ x1 \in A!History
  BY <1>4 DEF MoveA, A!Own, A!Later
<1>6. A!Own(x1, txB.next, y)'
  BY <1>3, <1>5 DEF MoveA, A!Own
<1>7. A!Believes(txA, ctlA.delegate, rxB, ctlB.delegate)'
  BY <1>3 DEF MoveA
<1>8. Duplex(x1, y)'
  BY <1>1, <1>2, <1>6, <1>7 DEF Duplex
<1> QED BY <1>5, <1>8, HistoryAlike DEF PairInv

(* One end has moved, the other has not.                                    *)
LEMMA OtherWaitsB ==
  ASSUME NEW y, NEW x, Duplex(x, y), NEW y1, MoveB(y, y1, x), StillA
  PROVE  /\ A!Own(x, txB.next, y1)'
         /\ A!Believes(txA, ctlA.delegate, rxB, ctlB.delegate)'
<1>1. /\ A!Own(x, txB.next, y)
      /\ A!Believes(txA, ctlA.delegate, rxB, ctlB.delegate)
  BY DEF Duplex
<1>2. /\ ctlA' = ctlA /\ txA' = txA /\ rxA' = rxA /\ ioA' = ioA /\ burstA' = burstA
      /\ wireA' \subseteq wireA
  BY DEF StillA
<1>3. /\ B!Later(txB.next, y, txB'.next, y1)
      /\ B!Grows(rxB, ctlB.delegate, rxB', ctlB'.delegate)
  BY DEF MoveB
<1>4. /\ A!Later(txB.next, y, txB'.next, y1)
      /\ A!Grows(rxB, ctlB.delegate, rxB', ctlB'.delegate)
  BY <1>3, LaterAlike, GrowsAlike
<1>5. /\ A!EndInv(ctlA, txA, rxA, ioA, burstA, wireA, x, txB.next, y)
      /\ x \in A!History /\ A!BooksInv
  BY <1>1 DEF A!Own
<1>6. A!EndInv(ctlA, txA, rxA, ioA, burstA, wireA, x, txB'.next, y1)
  BY <1>4, <1>5, AssumptionsA, A!EndLater
<1>7. A!EndInv(ctlA, txA, rxA, ioA, burstA, wireA', x, txB'.next, y1)
  BY <1>2, <1>6 DEF A!EndInv, A!WireHonest
<1>8. A!BooksInv'
  BY <1>2, <1>5 DEF A!BooksInv, A!Shape, A!Balanced, A!Sending
<1>9. txB'.next \in Nat /\ y1 \in A!History
  BY <1>4 DEF A!Later
<1>10. A!Own(x, txB.next, y1)'
  BY <1>2, <1>5, <1>7, <1>8, <1>9 DEF A!Own
<1>11. A!Believes(txA, ctlA.delegate, rxB', ctlB'.delegate)
  BY <1>1, <1>4, BelievesGrowsA
<1>12. A!Believes(txA, ctlA.delegate, rxB, ctlB.delegate)'
  BY <1>2, <1>11
<1> QED BY <1>10, <1>12

LEMMA MailKeptB ==
  ASSUME NEW y, NEW x, Duplex(x, y), NEW y1, MoveB(y, y1, x), StillA, PostedByB(x)
  PROVE  Mail(x, y1)'
<1>1. /\ B!Own(y, txA.next, x) /\ A!Own(x, txB.next, y) /\ Mail(x, y)
  BY DEF Duplex
<1>2. ctlA' = ctlA /\ txA' = txA /\ rxA' = rxA
  BY DEF StillA
<1>3. /\ B!Later(txB.next, y, txB'.next, y1)
      /\ B!Grows(rxB, ctlB.delegate, rxB', ctlB'.delegate)
  BY DEF MoveB
<1>4. A!Later(txB.next, y, txB'.next, y1)
  BY <1>3, LaterAlike
<1>5. B!Later(txA.next, x, txA.next, x)
  <2>1. txA.next \in Nat /\ x \in B!History
    BY <1>1 DEF B!Own
  <2> QED BY <2>1, AssumptionsB, B!LaterSame
<1>6. A!Grows(rxA, ctlA.delegate, rxA, ctlA.delegate)
  <2>1. rxA.gsnfr \in Nat
    BY <1>1, AssumptionsA, A!SenderFields
  <2>2. A!SameRx(rxA, rxA)
    BY DEF A!SameRx
  <2> QED BY <2>1, <2>2, AssumptionsA, A!GrowsSame
<1>7. ASSUME NEW a, B!Speaks(a, rxB, ctlB.delegate, FirstA, txA.next, x)
      PROVE  B!Speaks(a, rxB', ctlB'.delegate, FirstA, txA.next, x)
  <2>1. FirstA \in Nat \ {0}
    BY PairAssumption
  <2> QED BY <1>3, <1>5, <1>7, <2>1, AssumptionsB, B!SpeaksLater
<1>8. ASSUME NEW a, A!Speaks(a, rxA, ctlA.delegate, FirstB, txB.next, y)
      PROVE  A!Speaks(a, rxA, ctlA.delegate, FirstB, txB'.next, y1)
  <2>1. FirstB \in Nat \ {0}
    BY PairAssumption
  <2> QED BY <1>4, <1>6, <1>8, <2>1, AssumptionsA, A!SpeaksLater
<1>9. ASSUME NEW r \in requests'
      PROVE  /\ r.from = "B" => B!Speaks(r.ack, rxB', ctlB'.delegate, FirstA, txA.next, x)
             /\ r.from = "A" => A!Speaks(r.ack, rxA, ctlA.delegate, FirstB, txB'.next, y1)
  <2>1. r.from = "B" => B!Speaks(r.ack, rxB, ctlB.delegate, FirstA, txA.next, x)
    BY DEF PostedByB
  <2>2. r.from = "A" => A!Speaks(r.ack, rxA, ctlA.delegate, FirstB, txB.next, y)
    BY <1>1 DEF PostedByB, Mail
  <2> QED BY <1>7, <1>8, <2>1, <2>2
<1>10. ASSUME NEW a \in answers' \cup indications'
       PROVE  /\ a.to = "A" => B!Speaks(a.ack, rxB', ctlB'.delegate, FirstA, txA.next, x)
              /\ a.to = "B" => A!Speaks(a.ack, rxA, ctlA.delegate, FirstB, txB'.next, y1)
  <2>1. a.to = "A" => B!Speaks(a.ack, rxB, ctlB.delegate, FirstA, txA.next, x)
    BY DEF PostedByB
  <2>2. a.to = "B" => A!Speaks(a.ack, rxA, ctlA.delegate, FirstB, txB.next, y)
    BY <1>1 DEF PostedByB, Mail
  <2> QED BY <1>7, <1>8, <2>1, <2>2
<1> QED BY <1>2, <1>9, <1>10 DEF Mail

LEMMA AdvanceB ==
  ASSUME NEW y, NEW x, Duplex(x, y), NEW y1, MoveB(y, y1, x), StillA, PostedByB(x)
  PROVE  PairInv'
<1>1. /\ A!Own(x, txB.next, y1)'
      /\ A!Believes(txA, ctlA.delegate, rxB, ctlB.delegate)'
  BY OtherWaitsB
<1>2. Mail(x, y1)'
  BY MailKeptB
<1>3. ctlA' = ctlA /\ txA' = txA /\ rxA' = rxA
  BY DEF StillA
<1>4. B!Own(y, txA.next, x)
  BY DEF Duplex
<1>5. txA.next \in Nat /\ x \in B!History /\ y1 \in B!History
  BY <1>4 DEF MoveB, B!Own, B!Later
<1>6. B!Own(y1, txA.next, x)'
  BY <1>3, <1>5 DEF MoveB, B!Own
<1>7. B!Believes(txB, ctlB.delegate, rxA, ctlA.delegate)'
  BY <1>3 DEF MoveB
<1>8. Duplex(x, y1)'
  BY <1>1, <1>2, <1>6, <1>7 DEF Duplex
<1> QED BY <1>5, <1>8, HistoryAlike DEF PairInv

(* What an end does of itself, and what its peer tells it, move it.         *)
LEMMA OwnMovesA ==
  ASSUME NEW x, NEW y, Duplex(x, y), A!ByItself
  PROVE  (\E x1 \in A!History : MoveA(x, x1, y)) /\ A!Handed(ioA, ioA')
<1>1. /\ A!Own(x, txB.next, y)
      /\ A!Believes(txA, ctlA.delegate, rxB, ctlB.delegate)
  BY DEF Duplex
<1>2. (\E x1 \in A!History : A!OwnMove(x, x1, txB.next, y)) /\ A!BooksInv'
  BY <1>1, AssumptionsA, A!ByItselfMoves
<1>3. A!Handed(ioA, ioA')
  BY <1>1, AssumptionsA, A!ByItselfHanded
<1>4. PICK x1 \in A!History : A!OwnMove(x, x1, txB.next, y)
  BY <1>2
<1>5. /\ A!EndInv(ctlA', txA', rxA', ioA', burstA', wireA', x1, txB.next, y)
      /\ A!KeepsSending(txA, ctlA.delegate, txA', ctlA'.delegate)
      /\ A!Later(txA.next, x, txA'.next, x1)
      /\ A!Grows(rxA, ctlA.delegate, rxA', ctlA'.delegate)
  BY <1>4 DEF A!OwnMove
<1>6. txA.acked \subseteq FirstA..txA.next - 1 /\ txA.next \in Nat
  BY <1>1 DEF A!Own, A!BooksInv, A!Shape, A!EndInv, A!TxHonest
<1>7. txA'.acked \subseteq FirstA..txA'.next - 1
  BY <1>2, <1>5 DEF A!BooksInv, A!Shape, A!EndInv, A!TxHonest
<1>8. A!Believes(txA', ctlA'.delegate, rxB, ctlB.delegate)
  BY <1>1, <1>5, <1>6, <1>7, AssumptionsA, A!BelievesOn
<1>9. MoveA(x, x1, y)
  BY <1>2, <1>5, <1>8 DEF MoveA
<1> QED BY <1>3, <1>9

LEMMA OwnMovesB ==
  ASSUME NEW y, NEW x, Duplex(x, y), B!ByItself
  PROVE  (\E y1 \in B!History : MoveB(y, y1, x)) /\ B!Handed(ioB, ioB')
<1>1. /\ B!Own(y, txA.next, x)
      /\ B!Believes(txB, ctlB.delegate, rxA, ctlA.delegate)
  BY DEF Duplex
<1>2. (\E y1 \in B!History : B!OwnMove(y, y1, txA.next, x)) /\ B!BooksInv'
  BY <1>1, AssumptionsB, B!ByItselfMoves
<1>3. B!Handed(ioB, ioB')
  BY <1>1, AssumptionsB, B!ByItselfHanded
<1>4. PICK y1 \in B!History : B!OwnMove(y, y1, txA.next, x)
  BY <1>2
<1>5. /\ B!EndInv(ctlB', txB', rxB', ioB', burstB', wireB', y1, txA.next, x)
      /\ B!KeepsSending(txB, ctlB.delegate, txB', ctlB'.delegate)
      /\ B!Later(txB.next, y, txB'.next, y1)
      /\ B!Grows(rxB, ctlB.delegate, rxB', ctlB'.delegate)
  BY <1>4 DEF B!OwnMove
<1>6. txB.acked \subseteq FirstB..txB.next - 1 /\ txB.next \in Nat
  BY <1>1 DEF B!Own, B!BooksInv, B!Shape, B!EndInv, B!TxHonest
<1>7. txB'.acked \subseteq FirstB..txB'.next - 1
  BY <1>2, <1>5 DEF B!BooksInv, B!Shape, B!EndInv, B!TxHonest
<1>8. B!Believes(txB', ctlB'.delegate, rxA, ctlA.delegate)
  BY <1>1, <1>5, <1>6, <1>7, AssumptionsB, B!BelievesOn
<1>9. MoveB(y, y1, x)
  BY <1>2, <1>5, <1>8 DEF MoveB
<1> QED BY <1>3, <1>9

LEMMA TakenMovesA ==
  ASSUME NEW x, NEW y, Duplex(x, y), A!BooksInv',
         A!Taken(x, txB.next, y, rxB, ctlB.delegate)
  PROVE  MoveA(x, x, y) /\ A!Handed(ioA, ioA')
<1>1. txA.next \in Nat /\ x \in A!History
  BY DEF Duplex, A!Own, A!EndInv, A!TxHonest
<1>2. A!Later(txA.next, x, txA.next, x)
  BY <1>1, AssumptionsA, A!LaterSame
<1> QED BY <1>2 DEF A!Taken, MoveA

LEMMA TakenMovesB ==
  ASSUME NEW y, NEW x, Duplex(x, y), B!BooksInv',
         B!Taken(y, txA.next, x, rxA, ctlA.delegate)
  PROVE  MoveB(y, y, x) /\ B!Handed(ioB, ioB')
<1>1. txB.next \in Nat /\ y \in B!History
  BY DEF Duplex, B!Own, B!EndInv, B!TxHonest
<1>2. B!Later(txB.next, y, txB.next, y)
  BY <1>1, AssumptionsB, B!LaterSame
<1> QED BY <1>2 DEF B!Taken, MoveB

LEMMA OwnStepA ==
  ASSUME NEW x, NEW y, Duplex(x, y), A!ByItself, StillB, PostedByA(y)
  PROVE  PairInv' /\ A!Handed(ioA, ioA')
<1>1. (\E x1 \in A!History : MoveA(x, x1, y)) /\ A!Handed(ioA, ioA')
  BY OwnMovesA
<1>2. PICK x1 \in A!History : MoveA(x, x1, y)
  BY <1>1
<1> QED BY <1>1, <1>2, AdvanceA

LEMMA OwnStepB ==
  ASSUME NEW y, NEW x, Duplex(x, y), B!ByItself, StillA, PostedByB(x)
  PROVE  PairInv' /\ B!Handed(ioB, ioB')
<1>1. (\E y1 \in B!History : MoveB(y, y1, x)) /\ B!Handed(ioB, ioB')
  BY OwnMovesB
<1>2. PICK y1 \in B!History : MoveB(y, y1, x)
  BY <1>1
<1> QED BY <1>1, <1>2, AdvanceB

LEMMA AckStepA ==
  ASSUME NEW x, NEW y, Duplex(x, y), StillB, PostedByA(y),
         NEW id, NEW a, B!Speaks(a, rxB, ctlB.delegate, FirstA, txA.next, x),
         A!HandleExternalAck(id, a)
  PROVE  PairInv' /\ A!Handed(ioA, ioA')
<1>1. /\ A!Own(x, txB.next, y) /\ B!Own(y, txA.next, x)
      /\ A!Believes(txA, ctlA.delegate, rxB, ctlB.delegate)
  BY DEF Duplex
<1>2. A!Speaks(a, rxB, ctlB.delegate, FirstA, txA.next, x)
  BY SpeaksAlike
<1>3. rxB.gsnfr \in Nat
  BY <1>1, AssumptionsB, B!SenderFields
<1>4. A!Taken(x, txB.next, y, rxB, ctlB.delegate) /\ A!BooksInv'
  BY <1>1, <1>2, <1>3, AssumptionsA, A!HandleExternalAckMove
<1>5. MoveA(x, x, y) /\ A!Handed(ioA, ioA')
  BY <1>4, TakenMovesA
<1> QED BY <1>5, AdvanceA

LEMMA AckStepB ==
  ASSUME NEW y, NEW x, Duplex(x, y), StillA, PostedByB(x),
         NEW id, NEW a, A!Speaks(a, rxA, ctlA.delegate, FirstB, txB.next, y),
         B!HandleExternalAck(id, a)
  PROVE  PairInv' /\ B!Handed(ioB, ioB')
<1>1. /\ B!Own(y, txA.next, x) /\ A!Own(x, txB.next, y)
      /\ B!Believes(txB, ctlB.delegate, rxA, ctlA.delegate)
  BY DEF Duplex
<1>2. B!Speaks(a, rxA, ctlA.delegate, FirstB, txB.next, y)
  BY SpeaksAlike
<1>3. rxA.gsnfr \in Nat
  BY <1>1, AssumptionsA, A!SenderFields
<1>4. B!Taken(y, txA.next, x, rxA, ctlA.delegate) /\ B!BooksInv'
  BY <1>1, <1>2, <1>3, AssumptionsB, B!HandleExternalAckMove
<1>5. MoveB(y, y, x) /\ B!Handed(ioB, ioB')
  BY <1>4, TakenMovesB
<1> QED BY <1>5, AdvanceB

(* Neither end sends more packets than half the modulus.                    *)
LEMMA NearA ==
  ASSUME NEW x, NEW y, Duplex(x, y)
  PROVE  A!Near(FirstA, txA.next) /\ B!Near(FirstA, txA.next)
<1>1. /\ txA.next \in Nat /\ FirstA <= txA.next
      /\ ioA.written \in Nat /\ txA.next - FirstA <= ioA.written /\ ioA.written <= UnitsA
  BY DEF Duplex, A!Own, A!EndInv, A!TxHonest, A!IoHonest
<1> QED BY <1>1, PairAssumption, WireAssumption DEF A!Near, B!Near

LEMMA NearB ==
  ASSUME NEW y, NEW x, Duplex(x, y)
  PROVE  B!Near(FirstB, txB.next) /\ A!Near(FirstB, txB.next)
<1>1. /\ txB.next \in Nat /\ FirstB <= txB.next
      /\ ioB.written \in Nat /\ txB.next - FirstB <= ioB.written /\ ioB.written <= UnitsB
  BY DEF Duplex, B!Own, B!EndInv, B!TxHonest, B!IoHonest
<1> QED BY <1>1, PairAssumption, WireAssumption DEF B!Near, A!Near

LEMMA PacketStepA ==
  ASSUME SharedQueue, NEW x, NEW y, Duplex(x, y), StillB, PostedByA(y),
         NEW m \in wireB, A!HandlePacket(m)
  PROVE  PairInv' /\ A!Handed(ioA, ioA')
<1>1. /\ A!Own(x, txB.next, y) /\ B!Own(y, txA.next, x)
      /\ A!Believes(txA, ctlA.delegate, rxB, ctlB.delegate)
  BY DEF Duplex
<1>2. /\ B!Genuine(m, FirstB, txB.next, y)
      /\ B!Carries(m, rxB, ctlB.delegate, FirstA, txA.next, x)
  BY <1>1 DEF B!Own, B!EndInv, B!WireHonest
<1>3. /\ A!Genuine(m, FirstB, txB.next, y)
      /\ A!Carries(m, rxB, ctlB.delegate, FirstA, txA.next, x)
  BY <1>2, GenuineAlike, CarriesAlike
<1>4. A!Near(FirstA, txA.next) /\ A!Near(FirstB, txB.next)
  BY NearA, NearB
<1>5. rxB.gsnfr \in Nat
  BY <1>1, AssumptionsB, B!SenderFields
<1>6. A!Taken(x, txB.next, y, rxB, ctlB.delegate) /\ A!BooksInv'
  BY <1>1, <1>3, <1>4, <1>5, AssumptionsA, A!HandlePacketMove
<1>7. MoveA(x, x, y) /\ A!Handed(ioA, ioA')
  BY <1>6, TakenMovesA
<1> QED BY <1>7, AdvanceA

LEMMA PacketStepB ==
  ASSUME SharedQueue, NEW y, NEW x, Duplex(x, y), StillA, PostedByB(x),
         NEW m \in wireA, B!HandlePacket(m)
  PROVE  PairInv' /\ B!Handed(ioB, ioB')
<1>1. /\ B!Own(y, txA.next, x) /\ A!Own(x, txB.next, y)
      /\ B!Believes(txB, ctlB.delegate, rxA, ctlA.delegate)
  BY DEF Duplex
<1>2. /\ A!Genuine(m, FirstA, txA.next, x)
      /\ A!Carries(m, rxA, ctlA.delegate, FirstB, txB.next, y)
  BY <1>1 DEF A!Own, A!EndInv, A!WireHonest
<1>3. /\ B!Genuine(m, FirstA, txA.next, x)
      /\ B!Carries(m, rxA, ctlA.delegate, FirstB, txB.next, y)
  BY <1>2, GenuineAlike, CarriesAlike
<1>4. B!Near(FirstB, txB.next) /\ B!Near(FirstA, txA.next)
  BY NearB, NearA
<1>5. rxA.gsnfr \in Nat
  BY <1>1, AssumptionsA, A!SenderFields
<1>6. B!Taken(y, txA.next, x, rxA, ctlA.delegate) /\ B!BooksInv'
  BY <1>1, <1>3, <1>4, <1>5, AssumptionsB, B!HandlePacketMove
<1>7. MoveB(y, y, x) /\ B!Handed(ioB, ioB')
  BY <1>6, TakenMovesB
<1> QED BY <1>7, AdvanceB

LEMMA StillMovesA ==
  ASSUME NEW x, NEW y, Duplex(x, y), StillA
  PROVE  MoveA(x, x, y) /\ A!Handed(ioA, ioA')
<1>1. /\ ctlA' = ctlA /\ txA' = txA /\ rxA' = rxA /\ ioA' = ioA /\ burstA' = burstA
      /\ wireA' \subseteq wireA
  BY DEF StillA
<1>2. A!Own(x, txB.next, y) /\ A!Believes(txA, ctlA.delegate, rxB, ctlB.delegate)
  BY DEF Duplex
<1>3. A!EndInv(ctlA', txA', rxA', ioA', burstA', wireA', x, txB.next, y)
  BY <1>1, <1>2 DEF A!Own, A!EndInv, A!WireHonest
<1>4. A!BooksInv'
  BY <1>1, <1>2 DEF A!Own, A!BooksInv, A!Shape, A!Balanced, A!Sending
<1>5. A!Later(txA.next, x, txA'.next, x)
  <2>1. txA.next \in Nat /\ x \in A!History
    BY <1>2 DEF A!Own, A!EndInv, A!TxHonest
  <2> QED BY <1>1, <2>1, AssumptionsA, A!LaterSame
<1>6. A!Grows(rxA, ctlA.delegate, rxA', ctlA'.delegate)
  <2>1. rxA.gsnfr \in Nat
    BY <1>2, AssumptionsA, A!SenderFields
  <2> QED BY <1>1, <2>1 DEF A!Grows
<1>7. A!Handed(ioA, ioA')
  BY <1>1, <1>2, AssumptionsA, A!HandedNothing
<1> QED BY <1>1, <1>2, <1>3, <1>4, <1>5, <1>6, <1>7 DEF MoveA

LEMMA StillMovesB ==
  ASSUME NEW y, NEW x, Duplex(x, y), StillB
  PROVE  MoveB(y, y, x) /\ B!Handed(ioB, ioB')
<1>1. /\ ctlB' = ctlB /\ txB' = txB /\ rxB' = rxB /\ ioB' = ioB /\ burstB' = burstB
      /\ wireB' \subseteq wireB
  BY DEF StillB
<1>2. B!Own(y, txA.next, x) /\ B!Believes(txB, ctlB.delegate, rxA, ctlA.delegate)
  BY DEF Duplex
<1>3. B!EndInv(ctlB', txB', rxB', ioB', burstB', wireB', y, txA.next, x)
  BY <1>1, <1>2 DEF B!Own, B!EndInv, B!WireHonest
<1>4. B!BooksInv'
  BY <1>1, <1>2 DEF B!Own, B!BooksInv, B!Shape, B!Balanced, B!Sending
<1>5. B!Later(txB.next, y, txB'.next, y)
  <2>1. txB.next \in Nat /\ y \in B!History
    BY <1>2 DEF B!Own, B!EndInv, B!TxHonest
  <2> QED BY <1>1, <2>1, AssumptionsB, B!LaterSame
<1>6. B!Grows(rxB, ctlB.delegate, rxB', ctlB'.delegate)
  <2>1. rxB.gsnfr \in Nat
    BY <1>2, AssumptionsB, B!SenderFields
  <2> QED BY <1>1, <2>1 DEF B!Grows
<1>7. B!Handed(ioB, ioB')
  BY <1>1, <1>2, AssumptionsB, B!HandedNothing
<1> QED BY <1>1, <1>2, <1>3, <1>4, <1>5, <1>6, <1>7 DEF MoveB

LEMMA StillStepA ==
  ASSUME NEW x, NEW y, Duplex(x, y), StillA, StillB, PostedByA(y)
  PROVE  PairInv' /\ A!Handed(ioA, ioA')
<1>1. MoveA(x, x, y) /\ A!Handed(ioA, ioA')
  BY StillMovesA
<1> QED BY <1>1, AdvanceA

LEMMA StillStepB ==
  ASSUME NEW y, NEW x, Duplex(x, y), StillB, StillA, PostedByB(x)
  PROVE  PairInv' /\ B!Handed(ioB, ioB')
<1>1. MoveB(y, y, x) /\ B!Handed(ioB, ioB')
  BY StillMovesB
<1> QED BY <1>1, AdvanceB

(* Nothing new is under way.                                                *)
LEMMA NothingPostedA ==
  ASSUME NEW x, NEW y, Duplex(x, y), requests' \subseteq requests,
         answers' \subseteq answers, indications' \subseteq indications
  PROVE  PostedByA(y)
BY DEF Duplex, Mail, PostedByA

LEMMA NothingPostedB ==
  ASSUME NEW y, NEW x, Duplex(x, y), requests' \subseteq requests,
         answers' \subseteq answers, indications' \subseteq indications
  PROVE  PostedByB(x)
BY DEF Duplex, Mail, PostedByB

LEMMA ExternalAckTrueA ==
  ASSUME NEW x, NEW y, Duplex(x, y)
  PROVE  A!Speaks(A!ExternalAck, rxA, ctlA.delegate, FirstB, txB.next, y)
<1>1. A!Own(x, txB.next, y)
  BY DEF Duplex
<1> QED BY <1>1, AssumptionsA, A!ExternalAckSpeaks

LEMMA ExternalAckTrueB ==
  ASSUME NEW y, NEW x, Duplex(x, y)
  PROVE  B!Speaks(B!ExternalAck, rxB, ctlB.delegate, FirstA, txA.next, x)
<1>1. B!Own(y, txA.next, x)
  BY DEF Duplex
<1> QED BY <1>1, AssumptionsB, B!ExternalAckSpeaks

(* What the applications see of a step.                                     *)
LEMMA QuietNetA ==
  ASSUME NEW x, NEW y, Duplex(x, y), BurstA \/ TimerA \/ PostA \/ ApplicationA
  PROVE  PairInv' /\ A!Handed(ioA, ioA') /\ ioB' = ioB
<1>1. A!ByItself
  BY DEF BurstA, TimerA, PostA, ApplicationA, A!ByItself
<1>2. StillB /\ UNCHANGED net
  BY DEF BurstA, TimerA, PostA, ApplicationA, StillB, varsB
<1>3. PostedByA(y)
  BY <1>2, NothingPostedA DEF net
<1>4. ioB' = ioB
  BY <1>2 DEF StillB
<1> QED BY <1>1, <1>2, <1>3, <1>4, OwnStepA

LEMMA QuietNetB ==
  ASSUME NEW y, NEW x, Duplex(x, y), BurstB \/ TimerB \/ PostB \/ ApplicationB
  PROVE  PairInv' /\ B!Handed(ioB, ioB') /\ ioA' = ioA
<1>1. B!ByItself
  BY DEF BurstB, TimerB, PostB, ApplicationB, B!ByItself
<1>2. StillA /\ UNCHANGED net
  BY DEF BurstB, TimerB, PostB, ApplicationB, StillA, varsA
<1>3. PostedByB(x)
  BY <1>2, NothingPostedB DEF net
<1>4. ioA' = ioA
  BY <1>2 DEF StillA
<1> QED BY <1>1, <1>2, <1>3, <1>4, OwnStepB

LEMMA IndicateStepA ==
  ASSUME NEW x, NEW y, Duplex(x, y), IndicateA
  PROVE  PairInv' /\ A!Handed(ioA, ioA') /\ ioB' = ioB
<1>1. A!ByItself
  BY DEF IndicateA, A!ByItself
<1>2. StillB /\ ioB' = ioB
  BY DEF IndicateA, StillB, varsB
<1>3. A!Speaks(A!ExternalAck, rxA, ctlA.delegate, FirstB, txB.next, y)
  BY ExternalAckTrueA
<1>4. /\ requests' = requests /\ answers' = answers
      /\ indications' = indications \cup {[to |-> "B", ack |-> A!ExternalAck]}
  BY DEF IndicateA
<1>5. PostedByA(y)
  BY <1>3, <1>4 DEF Duplex, Mail, PostedByA
<1> QED BY <1>1, <1>2, <1>5, OwnStepA

LEMMA IndicateStepB ==
  ASSUME NEW y, NEW x, Duplex(x, y), IndicateB
  PROVE  PairInv' /\ B!Handed(ioB, ioB') /\ ioA' = ioA
<1>1. B!ByItself
  BY DEF IndicateB, B!ByItself
<1>2. StillA /\ ioA' = ioA
  BY DEF IndicateB, StillA, varsA
<1>3. B!Speaks(B!ExternalAck, rxB, ctlB.delegate, FirstA, txA.next, x)
  BY ExternalAckTrueB
<1>4. /\ requests' = requests /\ answers' = answers
      /\ indications' = indications \cup {[to |-> "A", ack |-> B!ExternalAck]}
  BY DEF IndicateB
<1>5. PostedByB(x)
  BY <1>3, <1>4 DEF Duplex, Mail, PostedByB
<1> QED BY <1>1, <1>2, <1>5, OwnStepB

LEMMA RequestPostedA ==
  ASSUME NEW x, NEW y, Duplex(x, y), NEW id,
         requests' = requests \cup {[from |-> "A", id |-> id, ack |-> A!ExternalAck]},
         answers' = answers, indications' = indications
  PROVE  PostedByA(y)
<1>1. A!Speaks(A!ExternalAck, rxA, ctlA.delegate, FirstB, txB.next, y)
  BY ExternalAckTrueA
<1> QED BY <1>1 DEF Duplex, Mail, PostedByA

LEMMA RequestPostedB ==
  ASSUME NEW y, NEW x, Duplex(x, y), NEW id,
         requests' = requests \cup {[from |-> "B", id |-> id, ack |-> B!ExternalAck]},
         answers' = answers, indications' = indications
  PROVE  PostedByB(x)
<1>1. B!Speaks(B!ExternalAck, rxB, ctlB.delegate, FirstA, txA.next, x)
  BY ExternalAckTrueB
<1> QED BY <1>1 DEF Duplex, Mail, PostedByB

LEMMA RequestStepA ==
  ASSUME NEW x, NEW y, Duplex(x, y),
         RequestAckA \/ (KeepAlive /\ Quiet("A") /\
           requests' = requests \cup {[from |-> "A", id |-> A!Indication, ack |-> A!ExternalAck]})
  PROVE  PairInv' /\ A!Handed(ioA, ioA') /\ ioB' = ioB
<1>1. /\ StillA /\ StillB /\ ioB' = ioB
      /\ answers' = answers /\ indications' = indications
  BY DEF RequestAckA, KeepAlive, StillA, StillB, varsA, varsB
<1>2. \E id : requests' = requests \cup {[from |-> "A", id |-> id, ack |-> A!ExternalAck]}
  BY DEF RequestAckA
<1>3. PostedByA(y)
  BY <1>1, <1>2, RequestPostedA
<1> QED BY <1>1, <1>3, StillStepA

LEMMA RequestStepB ==
  ASSUME NEW y, NEW x, Duplex(x, y),
         RequestAckB \/ (KeepAlive /\ Quiet("B") /\
           requests' = requests \cup {[from |-> "B", id |-> B!Indication, ack |-> B!ExternalAck]})
  PROVE  PairInv' /\ B!Handed(ioB, ioB') /\ ioA' = ioA
<1>1. /\ StillB /\ StillA /\ ioA' = ioA
      /\ answers' = answers /\ indications' = indications
  BY DEF RequestAckB, KeepAlive, StillB, StillA, varsB, varsA
<1>2. \E id : requests' = requests \cup {[from |-> "B", id |-> id, ack |-> B!ExternalAck]}
  BY DEF RequestAckB
<1>3. PostedByB(x)
  BY <1>1, <1>2, RequestPostedB
<1> QED BY <1>1, <1>3, StillStepB

LEMMA PacketToA ==
  ASSUME SharedQueue, NEW x, NEW y, Duplex(x, y), ToA
  PROVE  PairInv' /\ A!Handed(ioA, ioA') /\ ioB' = ioB
<1>1. PICK m \in wireB : A!HandlePacket(m) /\ wireB' = Left(wireB, m)
  BY DEF ToA
<1>2. StillB /\ ioB' = ioB /\ UNCHANGED net
  BY <1>1 DEF ToA, StillB, Left
<1>3. PostedByA(y)
  BY <1>2, NothingPostedA DEF net
<1> QED BY <1>1, <1>2, <1>3, PacketStepA

LEMMA PacketToB ==
  ASSUME SharedQueue, NEW y, NEW x, Duplex(x, y), ToB
  PROVE  PairInv' /\ B!Handed(ioB, ioB') /\ ioA' = ioA
<1>1. PICK m \in wireA : B!HandlePacket(m) /\ wireA' = Left(wireA, m)
  BY DEF ToB
<1>2. StillA /\ ioA' = ioA /\ UNCHANGED net
  BY <1>1 DEF ToB, StillA, Left
<1>3. PostedByB(x)
  BY <1>2, NothingPostedB DEF net
<1> QED BY <1>1, <1>2, <1>3, PacketStepB

LEMMA IndicationStepA ==
  ASSUME NEW x, NEW y, Duplex(x, y), IndicationToA
  PROVE  PairInv' /\ A!Handed(ioA, ioA') /\ ioB' = ioB
<1>1. PICK i \in indications :
        /\ i.to = "A" /\ A!HandleExternalAck(A!Indication, i.ack)
        /\ indications' = Left(indications, i)
        /\ UNCHANGED <<varsB, requests, answers>>
  BY DEF IndicationToA
<1>2. StillB /\ ioB' = ioB
  BY <1>1 DEF StillB, varsB
<1>3. PostedByA(y)
  <2>1. indications' \subseteq indications
    BY <1>1 DEF Left
  <2> QED BY <1>1, <2>1, NothingPostedA
<1>4. B!Speaks(i.ack, rxB, ctlB.delegate, FirstA, txA.next, x)
  BY <1>1 DEF Duplex, Mail
<1> QED BY <1>1, <1>2, <1>3, <1>4, AckStepA

LEMMA IndicationStepB ==
  ASSUME NEW y, NEW x, Duplex(x, y), IndicationToB
  PROVE  PairInv' /\ B!Handed(ioB, ioB') /\ ioA' = ioA
<1>1. PICK i \in indications :
        /\ i.to = "B" /\ B!HandleExternalAck(B!Indication, i.ack)
        /\ indications' = Left(indications, i)
        /\ UNCHANGED <<varsA, requests, answers>>
  BY DEF IndicationToB
<1>2. StillA /\ ioA' = ioA
  BY <1>1 DEF StillA, varsA
<1>3. PostedByB(x)
  <2>1. indications' \subseteq indications
    BY <1>1 DEF Left
  <2> QED BY <1>1, <2>1, NothingPostedB
<1>4. A!Speaks(i.ack, rxA, ctlA.delegate, FirstB, txB.next, y)
  BY <1>1 DEF Duplex, Mail
<1> QED BY <1>1, <1>2, <1>3, <1>4, AckStepB

LEMMA RequestHandledA ==
  ASSUME NEW x, NEW y, Duplex(x, y), RequestToA
  PROVE  PairInv' /\ A!Handed(ioA, ioA') /\ ioB' = ioB
<1>1. PICK r \in requests :
        /\ r.from = "B" /\ HandleRequestA(r.ack)
        /\ answers' = answers \cup {[to |-> "B", id |-> r.id, ack |-> A!ExternalAck]}
        /\ UNCHANGED <<varsB, requests, indications>>
  BY DEF RequestToA
<1>2. StillB /\ ioB' = ioB
  BY <1>1 DEF StillB, varsB
<1>3. A!Speaks(A!ExternalAck, rxA, ctlA.delegate, FirstB, txB.next, y)
  BY ExternalAckTrueA
<1>4. PostedByA(y)
  BY <1>1, <1>3 DEF Duplex, Mail, PostedByA
<1>5. B!Speaks(r.ack, rxB, ctlB.delegate, FirstA, txA.next, x)
  BY <1>1 DEF Duplex, Mail
<1>6. CASE A!HandleExternalAck(A!Indication, r.ack)
  BY <1>2, <1>4, <1>5, <1>6, AckStepA
<1>7. CASE UNCHANGED varsA
  <2>1. StillA
    BY <1>7 DEF StillA, varsA
  <2> QED BY <1>2, <1>4, <2>1, StillStepA
<1> QED BY <1>1, <1>6, <1>7 DEF HandleRequestA

LEMMA RequestHandledB ==
  ASSUME NEW y, NEW x, Duplex(x, y), RequestToB
  PROVE  PairInv' /\ B!Handed(ioB, ioB') /\ ioA' = ioA
<1>1. PICK r \in requests :
        /\ r.from = "A" /\ HandleRequestB(r.ack)
        /\ answers' = answers \cup {[to |-> "A", id |-> r.id, ack |-> B!ExternalAck]}
        /\ UNCHANGED <<varsA, requests, indications>>
  BY DEF RequestToB
<1>2. StillA /\ ioA' = ioA
  BY <1>1 DEF StillA, varsA
<1>3. B!Speaks(B!ExternalAck, rxB, ctlB.delegate, FirstA, txA.next, x)
  BY ExternalAckTrueB
<1>4. PostedByB(x)
  BY <1>1, <1>3 DEF Duplex, Mail, PostedByB
<1>5. A!Speaks(r.ack, rxA, ctlA.delegate, FirstB, txB.next, y)
  BY <1>1 DEF Duplex, Mail
<1>6. CASE B!HandleExternalAck(B!Indication, r.ack)
  BY <1>2, <1>4, <1>5, <1>6, AckStepB
<1>7. CASE UNCHANGED varsB
  <2>1. StillB
    BY <1>7 DEF StillB, varsB
  <2> QED BY <1>2, <1>4, <2>1, StillStepB
<1> QED BY <1>1, <1>6, <1>7 DEF HandleRequestB

LEMMA AnswerStepA ==
  ASSUME NEW x, NEW y, Duplex(x, y), AnswerToA
  PROVE  PairInv' /\ A!Handed(ioA, ioA') /\ ioB' = ioB
<1>1. PICK a \in answers :
        /\ a.to = "A" /\ A!HandleExternalAck(a.id, a.ack)
        /\ \E r \in requests : requests' = requests \ {r}
        /\ answers' = Others(answers, "A", a.id)
        /\ UNCHANGED <<varsB, indications>>
  BY DEF AnswerToA
<1>2. StillB /\ ioB' = ioB
  BY <1>1 DEF StillB, varsB
<1>3. PostedByA(y)
  <2>1. requests' \subseteq requests /\ answers' \subseteq answers
    BY <1>1 DEF Others
  <2> QED BY <1>1, <2>1, NothingPostedA
<1>4. B!Speaks(a.ack, rxB, ctlB.delegate, FirstA, txA.next, x)
  BY <1>1 DEF Duplex, Mail
<1> QED BY <1>1, <1>2, <1>3, <1>4, AckStepA

LEMMA AnswerStepB ==
  ASSUME NEW y, NEW x, Duplex(x, y), AnswerToB
  PROVE  PairInv' /\ B!Handed(ioB, ioB') /\ ioA' = ioA
<1>1. PICK a \in answers :
        /\ a.to = "B" /\ B!HandleExternalAck(a.id, a.ack)
        /\ \E r \in requests : requests' = requests \ {r}
        /\ answers' = Others(answers, "B", a.id)
        /\ UNCHANGED <<varsA, indications>>
  BY DEF AnswerToB
<1>2. StillA /\ ioA' = ioA
  BY <1>1 DEF StillA, varsA
<1>3. PostedByB(x)
  <2>1. requests' \subseteq requests /\ answers' \subseteq answers
    BY <1>1 DEF Others
  <2> QED BY <1>1, <2>1, NothingPostedB
<1>4. A!Speaks(a.ack, rxA, ctlA.delegate, FirstB, txB.next, y)
  BY <1>1 DEF Duplex, Mail
<1> QED BY <1>1, <1>2, <1>3, <1>4, AckStepB

(* A socket refuses a packet, or the channel is over.                       *)
LEMMA EndStepA ==
  ASSUME NEW x, NEW y, Duplex(x, y), UNCHANGED varsB,
         \/ A!SendFails /\ UNCHANGED <<requests, answers, indications>>
         \/ (A!CheckShutdown \/ A!ShutdownNow) /\ CancelAcks("A") /\ UNCHANGED indications
  PROVE  PairInv' /\ A!Handed(ioA, ioA') /\ ioB' = ioB
<1>1. A!ByItself
  BY DEF A!ByItself
<1>2. StillB /\ ioB' = ioB
  BY DEF StillB, varsB
<1>3. PostedByA(y)
  <2>1. /\ requests' \subseteq requests /\ answers' \subseteq answers
        /\ indications' \subseteq indications
    BY DEF CancelAcks
  <2> QED BY <2>1, NothingPostedA
<1> QED BY <1>1, <1>2, <1>3, OwnStepA

LEMMA EndStepB ==
  ASSUME NEW y, NEW x, Duplex(x, y), UNCHANGED varsA,
         \/ B!SendFails /\ UNCHANGED <<requests, answers, indications>>
         \/ (B!CheckShutdown \/ B!ShutdownNow) /\ CancelAcks("B") /\ UNCHANGED indications
  PROVE  PairInv' /\ B!Handed(ioB, ioB') /\ ioA' = ioA
<1>1. B!ByItself
  BY DEF B!ByItself
<1>2. StillA /\ ioA' = ioA
  BY DEF StillA, varsA
<1>3. PostedByB(x)
  <2>1. /\ requests' \subseteq requests /\ answers' \subseteq answers
        /\ indications' \subseteq indications
    BY DEF CancelAcks
  <2> QED BY <2>1, NothingPostedB
<1> QED BY <1>1, <1>2, <1>3, OwnStepB

-----------------------------------------------------------------------------
(* The invariant holds throughout, and a step shows one application at most *)
(* something new.                                                           *)

Seen ==
  \/ A!Handed(ioA, ioA') /\ ioB' = ioB
  \/ B!Handed(ioB, ioB') /\ ioA' = ioA

LEMMA PairInit == Init => PairInv
<1> SUFFICES ASSUME Init PROVE PairInv
  OBVIOUS
<1> DEFINE x == [n \in Nat |-> FALSE]
<1>1. A!Own(x, FirstB, x) /\ txA.next = FirstA /\ rxA.gsnfr = FirstB - 1
  BY AssumptionsA, A!EndInvInit DEF Init
<1>2. B!Own(x, FirstA, x) /\ txB.next = FirstB /\ rxB.gsnfr = FirstA - 1
  BY AssumptionsB, B!EndInvInit DEF Init
<1>3. x \in A!History
  BY DEF A!History
<1> HIDE DEF x
<1>4. A!Believes(txA, ctlA.delegate, rxB, ctlB.delegate)
  BY <1>1, PairAssumption DEF A!Believes
<1>5. B!Believes(txB, ctlB.delegate, rxA, ctlA.delegate)
  BY <1>2, PairAssumption DEF B!Believes
<1>6. Mail(x, x)
  BY DEF Init, Mail
<1>7. Duplex(x, x)
  BY <1>1, <1>2, <1>4, <1>5, <1>6 DEF Duplex
<1> QED BY <1>3, <1>7 DEF PairInv

LEMMA PairStep ==
  ASSUME SharedQueue, PairInv, [Next]_vars
  PROVE  PairInv' /\ Seen
<1>1. PICK x, y \in A!History : Duplex(x, y)
  BY DEF PairInv
<1>2. CASE BurstA \/ TimerA \/ PostA \/ ApplicationA
  BY <1>1, <1>2, QuietNetA DEF Seen
<1>3. CASE BurstB \/ TimerB \/ PostB \/ ApplicationB
  BY <1>1, <1>3, QuietNetB DEF Seen
<1>4. CASE ToA \/ ToB
  BY <1>1, <1>4, PacketToA, PacketToB DEF Seen
<1>5. ASSUME StillA, StillB, requests' \subseteq requests,
             answers' \subseteq answers, indications' \subseteq indications
      PROVE  PairInv' /\ Seen
  <2>1. PostedByA(y)
    BY <1>1, <1>5, NothingPostedA
  <2>2. ioB' = ioB
    BY <1>5 DEF StillB
  <2> QED BY <1>1, <1>5, <2>1, <2>2, StillStepA DEF Seen
<1>6. CASE Lose
  BY <1>5, <1>6 DEF Lose, Thinned, StillA, StillB
<1>7. CASE Refuse
  BY <1>1, <1>7, EndStepA, EndStepB DEF Refuse, Seen
<1>8. CASE RequestAckA \/ RequestAckB \/ KeepAlive
  <2>1. \/ RequestAckA \/ RequestAckB
        \/ KeepAlive /\ Quiet("A") /\
             requests' = requests \cup {[from |-> "A", id |-> A!Indication, ack |-> A!ExternalAck]}
        \/ KeepAlive /\ Quiet("B") /\
             requests' = requests \cup {[from |-> "B", id |-> B!Indication, ack |-> B!ExternalAck]}
    BY <1>8 DEF KeepAlive
  <2> QED BY <1>1, <2>1, RequestStepA, RequestStepB DEF Seen
<1>9. CASE RequestToA \/ RequestToB
  BY <1>1, <1>9, RequestHandledA, RequestHandledB DEF Seen
<1>10. CASE AnswerToA \/ AnswerToB
  BY <1>1, <1>10, AnswerStepA, AnswerStepB DEF Seen
<1>11. CASE IndicateA \/ IndicateB
  BY <1>1, <1>11, IndicateStepA, IndicateStepB DEF Seen
<1>12. CASE IndicationToA \/ IndicationToB
  BY <1>1, <1>12, IndicationStepA, IndicationStepB DEF Seen
<1>13. CASE ShutdownA \/ ShutdownB
  BY <1>1, <1>13, EndStepA, EndStepB DEF ShutdownA, ShutdownB, Seen
<1>14. CASE RequestTimesOut
  BY <1>1, <1>14, EndStepA, EndStepB DEF RequestTimesOut, Seen
<1>15. CASE PeerCloses
  BY <1>1, <1>15, EndStepA, EndStepB DEF PeerCloses, Seen
<1>16. CASE UNCHANGED vars
  BY <1>5, <1>16 DEF vars, varsA, varsB, net, StillA, StillB
<1> QED
  BY <1>2, <1>3, <1>4, <1>6, <1>7, <1>8, <1>9, <1>10, <1>11, <1>12, <1>13, <1>14,
     <1>15, <1>16 DEF Next

LEMMA PairAlways ==
  ASSUME SharedQueue
  PROVE  Spec => []PairInv
<1>1. PairInv /\ [Next]_vars => PairInv'
  BY PairStep
<1> QED BY <1>1, PairInit, PTL DEF Spec

-----------------------------------------------------------------------------
(* What follows from it.                                                    *)

(* AckedOnlyReceived: a sender that forgets a packet, or frees it, does so  *)
(* on an ACK of something the other end has and keeps.                      *)
THEOREM SpecAckedOnlyReceived ==
  ASSUME SharedQueue
  PROVE  Spec => []AckedOnlyReceived
<1>1. PairInv => AckedOnlyReceived
  BY DEF PairInv, Duplex, AckedOnlyReceived, Has, A!Believes, B!Believes,
         A!Got, B!Got, A!Sending, B!Sending
<1> QED BY <1>1, PairAlways, PTL

(* NoFalseAlarm: the parities of handleAck agree with those of getState and *)
(* sendNow, in every ACK under way.                                         *)
THEOREM SpecNoFalseAlarm ==
  ASSUME SharedQueue
  PROVE  Spec => []NoFalseAlarm
<1>1. PairInv => NoFalseAlarm
  BY DEF PairInv, Duplex, NoFalseAlarm, A!Own, B!Own, A!EndInv, B!EndInv,
         A!CtlHonest, B!CtlHonest
<1> QED BY <1>1, PairAlways, PTL

-----------------------------------------------------------------------------
(* Delivery in order.                                                       *)

(* o1 was handed a prefix of what o has written.                            *)
NotAhead(o, o1) ==
  \E n \in Nat : n <= o.written /\ o1.delivered = [i \in 1..n |-> i]

(* What an application was handed the other has written.                    *)
LEMMA NotAheadA == PairInv => NotAhead(ioB, ioA)
<1> SUFFICES ASSUME PairInv PROVE NotAhead(ioB, ioA)
  OBVIOUS
<1>1. PICK x, y \in A!History : Duplex(x, y)
  BY HistoryAlike DEF PairInv
<1>2. /\ A!RxHonest(rxA, ctlA.delegate, txB.next, y)
      /\ A!HandedOver(ctlA, rxA, ioA)
      /\ txB.next \in Nat /\ ioB.written \in Nat /\ txB.next - FirstB <= ioB.written
  BY <1>1 DEF Duplex, A!Own, B!Own, A!EndInv, B!EndInv, A!IoHonest, B!IoHonest, B!TxHonest
<1>3. /\ rxA.gsnfr \in Nat /\ rxA.gsnr \in Nat
      /\ rxA.gsnfr <= rxA.gsnr /\ rxA.gsnr < txB.next
  BY <1>2 DEF A!RxHonest
<1>4. PICK n \in 0..(rxA.gsnfr - FirstB + 1) : ioA.delivered = A!Count(n)
  BY <1>2 DEF A!HandedOver
<1>5. n \in Nat /\ n <= ioB.written
  BY <1>2, <1>3, <1>4, PairAssumption
<1> QED BY <1>4, <1>5 DEF NotAhead, A!Count

LEMMA NotAheadB == PairInv => NotAhead(ioA, ioB)
<1> SUFFICES ASSUME PairInv PROVE NotAhead(ioA, ioB)
  OBVIOUS
<1>1. PICK y, x \in B!History : Duplex(x, y)
  BY HistoryAlike DEF PairInv
<1>2. /\ B!RxHonest(rxB, ctlB.delegate, txA.next, x)
      /\ B!HandedOver(ctlB, rxB, ioB)
      /\ txA.next \in Nat /\ ioA.written \in Nat /\ txA.next - FirstA <= ioA.written
  BY <1>1 DEF Duplex, B!Own, A!Own, B!EndInv, A!EndInv, B!IoHonest, A!IoHonest, A!TxHonest
<1>3. /\ rxB.gsnfr \in Nat /\ rxB.gsnr \in Nat
      /\ rxB.gsnfr <= rxB.gsnr /\ rxB.gsnr < txA.next
  BY <1>2 DEF B!RxHonest
<1>4. PICK n \in 0..(rxB.gsnfr - FirstA + 1) : ioB.delivered = B!Count(n)
  BY <1>2 DEF B!HandedOver
<1>5. n \in Nat /\ n <= ioA.written
  BY <1>2, <1>3, <1>4, PairAssumption
<1> QED BY <1>4, <1>5 DEF NotAhead, B!Count

LEMMA WrittenA ==
  ASSUME ioB' = ioB, PairInv'
  PROVE  ioB.written \in Int
<1>1. PICK x, y \in A!History : Duplex(x, y)'
  BY HistoryAlike DEF PairInv
<1> QED BY <1>1 DEF Duplex, B!Own, B!EndInv, B!IoHonest

LEMMA WrittenB ==
  ASSUME ioA' = ioA, PairInv'
  PROVE  ioA.written \in Int
<1>1. PICK y, x \in B!History : Duplex(x, y)'
  BY HistoryAlike DEF PairInv
<1> QED BY <1>1 DEF Duplex, A!Own, A!EndInv, A!IoHonest

LEMMA WritesInOrderA ==
  ASSUME A!Handed(ioA, ioA'), ioB' = ioB
  PROVE  [AtoB!Next]_AtoB!vars
BY DEF A!Handed, AtoB!Next, AtoB!Write, AtoB!vars

LEMMA WritesInOrderB ==
  ASSUME B!Handed(ioB, ioB'), ioA' = ioA
  PROVE  [BtoA!Next]_BtoA!vars
BY DEF B!Handed, BtoA!Next, BtoA!Write, BtoA!vars

LEMMA ReadsInOrderA ==
  ASSUME A!Handed(ioA, ioA'), ioB' = ioB, PairInv'
  PROVE  [BtoA!Next]_BtoA!vars
<1>1. CASE ioA'.delivered = ioA.delivered
  BY <1>1 DEF BtoA!vars
<1>2. CASE \E k, n \in Nat : k <= n /\ ioA.delivered = A!Count(k) /\ ioA'.delivered = A!Count(n)
  <2>1. PICK k, n \in Nat : k <= n /\ ioA.delivered = A!Count(k) /\ ioA'.delivered = A!Count(n)
    BY <1>2
  <2>2. CASE k = n
    BY <2>1, <2>2 DEF BtoA!vars
  <2>3. CASE k < n
    <3>1. PICK j \in Nat : j = n - k
      BY <2>1
    <3>2. k + j = n /\ j >= 1
      BY <2>3, <3>1
    <3>3. Len(ioA.delivered) = k /\ Len(ioA'.delivered) = n
      BY <2>1 DEF A!Count
    <3>4. A!Count(n) = A!Count(k) \o [i \in 1..j |-> k + i]
      BY <3>2, AssumptionsA, A!CountOn
    <3>5. n <= ioB.written
      <4>1. PairInv' => NotAhead(ioB, ioA)'
        BY NotAheadA, PTL
      <4>2. PICK i \in Nat : i <= ioB'.written /\ ioA'.delivered = [k1 \in 1..i |-> k1]
        BY <4>1 DEF NotAhead
      <4>3. Len(ioA'.delivered) = i
        BY <4>2
      <4> QED BY <3>3, <4>2, <4>3
    <3>6. ioB.written \in Int
      BY WrittenA
    <3>7. j \in 1..(ioB.written - Len(ioA.delivered))
      BY <3>1, <3>2, <3>3, <3>5, <3>6
    <3>8. ioA'.delivered = ioA.delivered \o [i \in 1..j |-> Len(ioA.delivered) + i]
      BY <2>1, <3>3, <3>4
    <3>9. BtoA!Read
      BY <3>7, <3>8 DEF BtoA!Read
    <3> QED BY <3>9 DEF BtoA!Next
  <2> QED BY <2>1, <2>2, <2>3
<1> QED BY <1>1, <1>2 DEF A!Handed

LEMMA ReadsInOrderB ==
  ASSUME B!Handed(ioB, ioB'), ioA' = ioA, PairInv'
  PROVE  [AtoB!Next]_AtoB!vars
<1>1. CASE ioB'.delivered = ioB.delivered
  BY <1>1 DEF AtoB!vars
<1>2. CASE \E k, n \in Nat : k <= n /\ ioB.delivered = B!Count(k) /\ ioB'.delivered = B!Count(n)
  <2>1. PICK k, n \in Nat : k <= n /\ ioB.delivered = B!Count(k) /\ ioB'.delivered = B!Count(n)
    BY <1>2
  <2>2. CASE k = n
    BY <2>1, <2>2 DEF AtoB!vars
  <2>3. CASE k < n
    <3>1. PICK j \in Nat : j = n - k
      BY <2>1
    <3>2. k + j = n /\ j >= 1
      BY <2>3, <3>1
    <3>3. Len(ioB.delivered) = k /\ Len(ioB'.delivered) = n
      BY <2>1 DEF B!Count
    <3>4. B!Count(n) = B!Count(k) \o [i \in 1..j |-> k + i]
      BY <3>2, AssumptionsB, B!CountOn
    <3>5. n <= ioA.written
      <4>1. PairInv' => NotAhead(ioA, ioB)'
        BY NotAheadB, PTL
      <4>2. PICK i \in Nat : i <= ioA'.written /\ ioB'.delivered = [k1 \in 1..i |-> k1]
        BY <4>1 DEF NotAhead
      <4>3. Len(ioB'.delivered) = i
        BY <4>2
      <4> QED BY <3>3, <4>2, <4>3
    <3>6. ioA.written \in Int
      BY WrittenB
    <3>7. j \in 1..(ioA.written - Len(ioB.delivered))
      BY <3>1, <3>2, <3>3, <3>5, <3>6
    <3>8. ioB'.delivered = ioB.delivered \o [i \in 1..j |-> Len(ioB.delivered) + i]
      BY <2>1, <3>3, <3>4
    <3>9. AtoB!Read
      BY <3>7, <3>8 DEF AtoB!Read
    <3> QED BY <3>9 DEF AtoB!Next
  <2> QED BY <2>1, <2>2, <2>3
<1> QED BY <1>1, <1>2 DEF B!Handed

(* DeliversInOrder: the pair implements ReliableStream in both directions.  *)
THEOREM SpecDeliversInOrder ==
  ASSUME SharedQueue
  PROVE  Spec => DeliversInOrder
<1>1. Init => AtoB!Init /\ BtoA!Init
  BY DEF Init, A!Init, B!Init, AtoB!Init, BtoA!Init
<1>2. PairInv /\ PairInv' /\ [Next]_vars => [AtoB!Next]_AtoB!vars /\ [BtoA!Next]_BtoA!vars
  BY PairStep, WritesInOrderA, WritesInOrderB, ReadsInOrderA, ReadsInOrderB DEF Seen
<1>3. Spec => []PairInv
  BY PairAlways
<1> QED BY <1>1, <1>2, <1>3, PTL DEF Spec, DeliversInOrder, AtoB!Spec, BtoA!Spec

(* What the stream that ends of itself knows.                               *)
LEMMA EndsDone ==
  ASSUME A!BooksInv, BurstA \/ ApplicationA, ctlA.state # "Shutdown", ctlA'.state = "Shutdown"
  PROVE  ~A!ToWrite /\ A!Sending(txA) = {} /\ ctlA.state # "Crashed"
<1>1. CASE A!FinishBurst
  <2>1. A!Sending(A!AfterBurst) = A!Sending(txA)
    BY DEF A!AfterBurst, A!ConsumeBaton, A!Sending
  <2>2. A!AllDataSent(A!AfterBurst) /\ A!Running
    BY <1>1 DEF A!FinishBurst, A!BooksInv
  <2> QED BY <2>1, <2>2 DEF A!AllDataSent, A!Running
<1>2. CASE A!BeginShutdown
  BY <1>2 DEF A!BeginShutdown, A!Running, A!BooksInv
<1>3. CASE ctlA' = ctlA
  BY <1>3
<1>4. CASE A!UnwindBurst
  BY <1>4 DEF A!UnwindBurst
<1> QED
  BY <1>1, <1>2, <1>3, <1>4
     DEF BurstA, ApplicationA, A!BeginBurst, A!PickResend, A!CreatePacket,
         A!NothingToSend, A!SendPacket, A!AfterSend, A!Write

(* GracefulEndDelivers: when the caller's stream ends of itself, all that   *)
(* was written was sent and all that was sent has arrived.                  *)
THEOREM SpecGracefulEndDelivers ==
  ASSUME SharedQueue
  PROVE  Spec => GracefulEndDelivers
<1>1. ASSUME PairInv, BurstA \/ ApplicationA, ctlA.state # "Shutdown", ctlA'.state = "Shutdown"
      PROVE  ioA.unread = << >> /\ rxB.gsnfr >= txA.next - 1
  <2>1. PICK x, y \in A!History : Duplex(x, y)
    BY <1>1 DEF PairInv
  <2>2. ~A!ToWrite /\ A!Sending(txA) = {} /\ ctlA.state # "Crashed"
    <3>1. A!BooksInv
      BY <2>1 DEF Duplex, A!Own
    <3> QED BY <1>1, <3>1, EndsDone
  <2>3. /\ A!CtlHonest(ctlA) /\ ioA.attached
        /\ txA.next \in Nat /\ FirstA <= txA.next
        /\ rxB.gsnfr \in Nat /\ FirstA - 1 <= rxB.gsnfr
        /\ A!Believes(txA, ctlA.delegate, rxB, ctlB.delegate)
    BY <2>1 DEF Duplex, A!Own, B!Own, A!EndInv, B!EndInv, A!TxHonest, A!IoHonest, B!RxHonest
  <2>4. ctlA.delegate
    BY <1>1, <2>2, <2>3 DEF A!CtlHonest
  <2>5. ioA.unread = << >>
    BY <2>2, <2>3 DEF A!ToWrite
  <2>6. \A s \in FirstA..txA.next - 1 : s <= rxB.gsnfr
    BY <2>2, <2>3, <2>4 DEF A!Believes
  <2>7. txA.next - 1 <= rxB.gsnfr
    BY <2>3, <2>6, PairAssumption
  <2> QED BY <2>3, <2>5, <2>7
<1>2. PairInv /\ [Next]_vars =>
        [(BurstA \/ ApplicationA) /\ ctlA.state # "Shutdown" /\ ctlA'.state = "Shutdown"
         => ioA.unread = << >> /\ rxB.gsnfr >= txA.next - 1]_vars
  BY <1>1
<1> QED BY <1>2, PairAlways, PTL DEF Spec, GracefulEndDelivers

-----------------------------------------------------------------------------
(* Forced ACKs.                                                             *)

(* What a step may make of one end's channel and its forced ACK.            *)
LEMMA ForceStepA ==
  ASSUME NEW x, NEW y, Duplex(x, y), A!ForceDue, [Next]_vars
  PROVE  A!ForceDue'
<1>1. A!BooksInv /\ A!CtlHonest(ctlA)
  BY DEF Duplex, A!Own, A!EndInv
<1>2. CASE ctlA' = ctlA /\ txA' = txA /\ dueA' = dueA
  BY <1>2 DEF A!ForceDue
<1>3. CASE A!ByItself
  BY <1>1, <1>3, AssumptionsA, A!ByItselfForceDue
<1>4. CASE \E m : A!HandlePacket(m)
  BY <1>1, <1>4, AssumptionsA, A!PacketForceDue
<1>5. CASE \E id, a : A!HandleExternalAck(id, a)
  BY <1>1, <1>5, AssumptionsA, A!ExternalForceDue
<1>6. CASE BurstA \/ TimerA \/ PostA \/ ApplicationA \/ Refuse \/ IndicateA
  BY <1>2, <1>3, <1>6 DEF BurstA, TimerA, PostA, ApplicationA, Refuse, IndicateA, varsA, A!ByItself
<1>7. CASE BurstB \/ TimerB \/ PostB \/ ApplicationB \/ IndicateB
  BY <1>2, <1>7 DEF BurstB, TimerB, PostB, ApplicationB, IndicateB, varsA
<1>8. CASE ToA
  BY <1>4, <1>8 DEF ToA
<1>9. CASE ToB \/ Lose
  BY <1>2, <1>9 DEF ToB, Lose
<1>10. CASE RequestAckA \/ RequestAckB \/ KeepAlive
  BY <1>2, <1>10 DEF RequestAckA, RequestAckB, KeepAlive, varsA
<1>11. CASE RequestToA
  BY <1>2, <1>5, <1>11 DEF RequestToA, HandleRequestA, varsA
<1>12. CASE AnswerToA \/ IndicationToA
  BY <1>5, <1>12 DEF AnswerToA, IndicationToA
<1>13. CASE RequestToB \/ AnswerToB \/ IndicationToB
  BY <1>2, <1>13 DEF RequestToB, AnswerToB, IndicationToB, varsA
<1>14. CASE ShutdownA \/ ShutdownB \/ RequestTimesOut \/ PeerCloses
  BY <1>2, <1>3, <1>14 DEF ShutdownA, ShutdownB, RequestTimesOut, PeerCloses, varsA, A!ByItself
<1>15. CASE UNCHANGED vars
  BY <1>2, <1>15 DEF vars, varsA
<1> QED
  BY <1>6, <1>7, <1>8, <1>9, <1>10, <1>11, <1>12, <1>13, <1>14, <1>15 DEF Next

LEMMA ForceStepB ==
  ASSUME NEW y, NEW x, Duplex(x, y), B!ForceDue, [Next]_vars
  PROVE  B!ForceDue'
<1>1. B!BooksInv /\ B!CtlHonest(ctlB)
  BY DEF Duplex, B!Own, B!EndInv
<1>2. CASE ctlB' = ctlB /\ txB' = txB /\ dueB' = dueB
  BY <1>2 DEF B!ForceDue
<1>3. CASE B!ByItself
  BY <1>1, <1>3, AssumptionsB, B!ByItselfForceDue
<1>4. CASE \E m : B!HandlePacket(m)
  BY <1>1, <1>4, AssumptionsB, B!PacketForceDue
<1>5. CASE \E id, a : B!HandleExternalAck(id, a)
  BY <1>1, <1>5, AssumptionsB, B!ExternalForceDue
<1>6. CASE BurstB \/ TimerB \/ PostB \/ ApplicationB \/ Refuse \/ IndicateB
  BY <1>2, <1>3, <1>6 DEF BurstB, TimerB, PostB, ApplicationB, Refuse, IndicateB, varsB, B!ByItself
<1>7. CASE BurstA \/ TimerA \/ PostA \/ ApplicationA \/ IndicateA
  BY <1>2, <1>7 DEF BurstA, TimerA, PostA, ApplicationA, IndicateA, varsB
<1>8. CASE ToB
  BY <1>4, <1>8 DEF ToB
<1>9. CASE ToA \/ Lose
  BY <1>2, <1>9 DEF ToA, Lose
<1>10. CASE RequestAckB \/ RequestAckA \/ KeepAlive
  BY <1>2, <1>10 DEF RequestAckB, RequestAckA, KeepAlive, varsB
<1>11. CASE RequestToB
  BY <1>2, <1>5, <1>11 DEF RequestToB, HandleRequestB, varsB
<1>12. CASE AnswerToB \/ IndicationToB
  BY <1>5, <1>12 DEF AnswerToB, IndicationToB
<1>13. CASE RequestToA \/ AnswerToA \/ IndicationToA
  BY <1>2, <1>13 DEF RequestToA, AnswerToA, IndicationToA, varsB
<1>14. CASE ShutdownB \/ ShutdownA \/ RequestTimesOut \/ PeerCloses
  BY <1>2, <1>3, <1>14 DEF ShutdownB, ShutdownA, RequestTimesOut, PeerCloses, varsB, B!ByItself
<1>15. CASE UNCHANGED vars
  BY <1>2, <1>15 DEF vars, varsB
<1> QED
  BY <1>6, <1>7, <1>8, <1>9, <1>10, <1>11, <1>12, <1>13, <1>14, <1>15 DEF Next

(* Only the channel of an end that is closing has given up requests.        *)
CancelledIsClosing == \A c \in cancelled : c.from \in closing

LEMMA CancelledStep ==
  ASSUME CancelledIsClosing, [Next]_vars
  PROVE  CancelledIsClosing'
<1>1. CASE UNCHANGED <<cancelled, closing>>
  BY <1>1 DEF CancelledIsClosing
<1>2. CASE CancelAcks("A") \/ CancelAcks("B")
  BY <1>2 DEF CancelAcks, CancelledIsClosing
<1>3. CASE UNCHANGED net
  BY <1>1, <1>3 DEF net
<1>4. CASE BurstA \/ TimerA \/ PostA \/ ApplicationA \/ BurstB \/ TimerB \/ PostB \/ ApplicationB
  BY <1>3, <1>4 DEF BurstA, TimerA, PostA, ApplicationA, BurstB, TimerB, PostB, ApplicationB
<1>5. CASE ToA \/ ToB \/ Lose \/ Refuse
  BY <1>1, <1>3, <1>5 DEF ToA, ToB, Lose, Refuse
<1>6. CASE RequestAckA \/ RequestAckB \/ KeepAlive \/ IndicateA \/ IndicateB
  BY <1>1, <1>6 DEF RequestAckA, RequestAckB, KeepAlive, IndicateA, IndicateB
<1>7. CASE RequestToA \/ RequestToB \/ AnswerToA \/ AnswerToB \/ IndicationToA \/ IndicationToB
  BY <1>1, <1>7 DEF RequestToA, RequestToB, AnswerToA, AnswerToB, IndicationToA, IndicationToB
<1>8. CASE ShutdownA \/ ShutdownB \/ RequestTimesOut \/ PeerCloses
  BY <1>2, <1>8 DEF ShutdownA, ShutdownB, RequestTimesOut, PeerCloses
<1>9. CASE UNCHANGED vars
  BY <1>3, <1>9 DEF vars
<1> QED
  BY <1>4, <1>5, <1>6, <1>7, <1>8, <1>9 DEF Next

(* OpenAckPursued: the forced ACK an open end waits for is under way.       *)
THEOREM SpecOpenAckPursued ==
  ASSUME SharedQueue
  PROVE  Spec => []OpenAckPursued
<1> DEFINE I == A!ForceDue /\ B!ForceDue /\ CancelledIsClosing
<1>1. Init => I
  BY DEF Init, A!Init, B!Init, A!ForceDue, B!ForceDue, CancelledIsClosing
<1>2. PairInv /\ I /\ [Next]_vars => I'
  BY ForceStepA, ForceStepB, CancelledStep DEF PairInv
<1>3. PairInv /\ I => OpenAckPursued
  <2> SUFFICES ASSUME PairInv, I PROVE OpenAckPursued
    OBVIOUS
  <2>1. A!CtlHonest(ctlA) /\ B!CtlHonest(ctlB)
    BY DEF PairInv, Duplex, A!Own, B!Own, A!EndInv, B!EndInv
  <2>2. A!Running /\ ~A!IsShutdown /\ "A" \notin closing => AckUnderWay("A", txA, dueA)
    BY <2>1 DEF A!CtlHonest, A!Running, A!IsShutdown, A!ForceDue, AckUnderWay, Asked,
                CancelledIsClosing, A!Indication
  <2>3. B!Running /\ ~B!IsShutdown /\ "B" \notin closing => AckUnderWay("B", txB, dueB)
    BY <2>1 DEF B!CtlHonest, B!Running, B!IsShutdown, B!ForceDue, AckUnderWay, Asked,
                CancelledIsClosing, A!Indication
  <2> QED BY <2>2, <2>3 DEF OpenAckPursued
<1> HIDE DEF I
<1> QED BY <1>1, <1>2, <1>3, PairAlways, PTL DEF Spec

=============================================================================
