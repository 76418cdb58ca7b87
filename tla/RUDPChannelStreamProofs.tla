----------------------- MODULE RUDPChannelStreamProofs -----------------------
(* The sender's books balance, the state keeps its types, and work that     *)
(* waits is awaited, for every window, burst and peer. The last part is     *)
(* one end of a channel: what it makes of a peer that tells the truth, and  *)
(* that it then tells the truth itself.                                     *)
EXTENDS RUDPChannelStream, RUDPPacketProofs

-----------------------------------------------------------------------------
(* Numbers and finite sets. *)

(* A set of sequence numbers that is not empty has a smallest member.       *)
LEMMA SmallestIsMember ==
  ASSUME NEW S \in SUBSET Nat, S # {}
  PROVE  Smallest(S) \in S /\ \A u \in S : Smallest(S) <= u
<1>1. \E s \in S : \A u \in S : ~(<<u, s>> \in OpToRel(<, Nat))
  BY NatLessThanWellFounded, WFMin
<1>2. PICK s \in S : \A u \in S : ~(<<u, s>> \in OpToRel(<, Nat))
  BY <1>1
<1>3. ASSUME NEW u \in S PROVE s <= u
  <2>1. u \in Nat /\ s \in Nat /\ <<u, s>> \in Nat \X Nat
    OBVIOUS
  <2>2. u < s => <<u, s>> \in OpToRel(<, Nat)
    BY <2>1 DEF OpToRel
  <2>3. ~(u < s)
    BY <1>2, <2>2
  <2> QED BY <2>1, <2>3
<1> QED BY <1>3 DEF Smallest

(* What leaves a finite set and what stays of it add up.                    *)
LEMMA RemovedAndLeft ==
  ASSUME NEW T, IsFiniteSet(T), NEW S
  PROVE  /\ IsFiniteSet(T \ S)
         /\ Cardinality(S \cap T) \in Nat
         /\ Cardinality(T \ S) = Cardinality(T) - Cardinality(S \cap T)
<1> DEFINE L == T \ S
           R == S \cap T
<1>1. IsFiniteSet(L) /\ IsFiniteSet(R)
  <2>1. L \in SUBSET T /\ R \in SUBSET T
    OBVIOUS
  <2> QED BY <2>1, FS_Subset
<1>2. /\ Cardinality(L) \in Nat /\ Cardinality(R) \in Nat
      /\ Cardinality(L \cap R) \in Nat /\ Cardinality(T) \in Nat
  <2>1. IsFiniteSet(L \cap R)
    BY <1>1, FS_Intersection
  <2> HIDE DEF L, R
  <2> QED BY <1>1, <2>1, FS_CardinalityType
<1>3. Cardinality(L \cap R) = 0
  <2>1. L \cap R = {}
    OBVIOUS
  <2> QED BY <2>1, FS_EmptySet
<1>4. T = L \cup R
  OBVIOUS
<1>5. Cardinality(L \cup R) = Cardinality(L) + Cardinality(R) - Cardinality(L \cap R)
  <2> HIDE DEF L, R
  <2> QED BY <1>1, FS_Union
<1>6. Cardinality(T) = Cardinality(L) + Cardinality(R)
  <2> HIDE DEF L, R
  <2> QED BY <1>2, <1>3, <1>4, <1>5
<1> QED
  <2> HIDE DEF L, R
  <2>1. IsFiniteSet(L) /\ Cardinality(R) \in Nat /\ Cardinality(L) = Cardinality(T) - Cardinality(R)
    BY <1>1, <1>2, <1>6
  <2> QED BY <2>1 DEF L, R
-----------------------------------------------------------------------------
(* The books: what holds of the sender's record through every step.         *)

TxFields ==
  {"next", "xorNow", "packets", "acked", "holding", "flagged", "failed", "resend",
   "avail", "ppb", "timers", "frozen", "forceID", "forceSeq", "forceNext"}

Timers == {"burst", "ensure", "add"}

(* Types, and which packets may be acknowledged, flagged or holding.        *)
Shape(t) ==
  /\ DOMAIN t = TxFields
  /\ t.next \in Nat /\ t.avail \in Nat /\ t.resend \in Nat /\ t.ppb \in Nat \ {0}
  /\ t.timers \subseteq Timers
  /\ Sending(t) \subseteq Nat /\ IsFiniteSet(Sending(t))
  /\ \A s \in Sending(t) : s < t.next
  /\ t.acked \subseteq Sending(t)
  /\ t.failed \subseteq Sending(t)
  /\ t.flagged \subseteq Sending(t) \ t.acked
  /\ t.holding \subseteq Sending(t) \ t.acked

(* The counters agree with the packets they count.                          *)
Balanced(t) ==
  /\ t.resend = Cardinality(t.flagged)
  /\ t.avail = 0 => t.holding # {}

Books(t) == Shape(t) /\ Balanced(t)

LEMMA FiniteParts ==
  ASSUME NEW t, Shape(t)
  PROVE  /\ IsFiniteSet(t.flagged) /\ IsFiniteSet(t.holding)
         /\ Cardinality(t.flagged) \in Nat
<1>1. /\ IsFiniteSet(Sending(t))
      /\ t.flagged \in SUBSET Sending(t) /\ t.holding \in SUBSET Sending(t)
  BY DEF Shape
<1>2. IsFiniteSet(t.flagged) /\ IsFiniteSet(t.holding)
  BY <1>1, FS_Subset
<1> QED BY <1>2, FS_CardinalityType

(* A step that leaves the packets and the counters alone.                   *)
LEMMA SameBooks ==
  ASSUME NEW t, NEW u, Books(t), DOMAIN u = DOMAIN t,
         u.next = t.next, u.packets = t.packets, u.acked = t.acked,
         u.holding = t.holding, u.flagged = t.flagged, u.failed = t.failed,
         u.resend = t.resend, u.avail = t.avail, u.ppb = t.ppb,
         u.timers \subseteq Timers
  PROVE  Books(u)
BY DEF Books, Shape, Balanced, Sending

LEMMA DoNotResendBooks ==
  ASSUME NEW t, Books(t), NEW S
  PROVE  Books(DoNotResend(t, S))
<1> DEFINE u == DoNotResend(t, S)
<1>1. /\ DOMAIN u = TxFields
      /\ u.flagged = t.flagged \ S
      /\ u.resend = t.resend - Cardinality(S \cap t.flagged)
      /\ u.next = t.next /\ u.packets = t.packets /\ u.acked = t.acked
      /\ u.holding = t.holding /\ u.failed = t.failed
      /\ u.avail = t.avail /\ u.ppb = t.ppb
      /\ u.timers \subseteq Timers
  BY DEF DoNotResend, Books, Shape, TxFields
<1>2. /\ IsFiniteSet(t.flagged)
      /\ Cardinality(S \cap t.flagged) \in Nat
      /\ Cardinality(t.flagged \ S)
           = Cardinality(t.flagged) - Cardinality(S \cap t.flagged)
  <2>1. IsFiniteSet(t.flagged)
    BY FiniteParts DEF Books
  <2> QED BY <2>1, RemovedAndLeft
<1>3. Cardinality(t.flagged \ S) \in Nat
  BY <1>2, RemovedAndLeft, FS_CardinalityType
<1>4. u.resend = Cardinality(u.flagged) /\ u.resend \in Nat
  BY <1>1, <1>2, <1>3 DEF Books, Balanced
<1>5. Shape(u)
  BY <1>1, <1>4 DEF Books, Shape, Sending
<1> HIDE DEF u
<1>6. Balanced(u)
  BY <1>1, <1>4 DEF Books, Balanced
<1> QED BY <1>5, <1>6 DEF Books, u

LEMMA ReleaseBatonBooks ==
  ASSUME NEW t, Books(t), NEW S
  PROVE  Books(ReleaseBaton(t, S))
<1> DEFINE u == ReleaseBaton(t, S)
           n == Cardinality(S \cap t.holding)
<1>1. /\ DOMAIN u = TxFields
      /\ u.holding = t.holding \ S
      /\ u.avail = t.avail + n
      /\ u.next = t.next /\ u.packets = t.packets /\ u.acked = t.acked
      /\ u.flagged = t.flagged /\ u.failed = t.failed
      /\ u.resend = t.resend /\ u.ppb = t.ppb
      /\ u.timers \subseteq Timers
  BY DEF ReleaseBaton, Books, Shape, TxFields
<1>2. n \in Nat /\ (n = 0 => S \cap t.holding = {})
  <2>1. IsFiniteSet(t.holding)
    BY FiniteParts DEF Books
  <2>2. IsFiniteSet(S \cap t.holding)
    BY <2>1, FS_Intersection
  <2> QED BY <2>2, FS_CardinalityType, FS_EmptySet
<1> HIDE DEF u, n
<1>3. Shape(u)
  BY <1>1, <1>2 DEF Books, Shape, Sending
<1>4. Balanced(u)
  <2>1. ASSUME u.avail = 0 PROVE u.holding # {}
    <3>1. t.avail = 0 /\ n = 0
      BY <1>1, <1>2, <2>1 DEF Books, Shape
    <3> QED BY <1>1, <1>2, <3>1 DEF Books, Balanced
  <2> QED BY <1>1, <2>1 DEF Books, Balanced
<1> QED BY <1>3, <1>4 DEF Books, u

LEMMA FlagForResendingBooks ==
  ASSUME NEW t, Books(t), NEW S, S \subseteq Sending(t)
  PROVE  Books(FlagForResending(t, S))
<1> DEFINE u == FlagForResending(t, S)
           new == S \ (t.acked \cup t.flagged)
<1>1. /\ DOMAIN u = TxFields
      /\ u.flagged = t.flagged \cup new
      /\ u.resend = t.resend + Cardinality(new)
      /\ u.next = t.next /\ u.packets = t.packets /\ u.acked = t.acked
      /\ u.holding = t.holding /\ u.failed = t.failed
      /\ u.avail = t.avail /\ u.ppb = t.ppb
      /\ u.timers \subseteq Timers
  BY DEF FlagForResending, Books, Shape, TxFields
<1>2. IsFiniteSet(t.flagged) /\ IsFiniteSet(new)
  <2>1. new \in SUBSET Sending(t) /\ IsFiniteSet(Sending(t))
    BY DEF Books, Shape
  <2>2. IsFiniteSet(new)
    BY <2>1, FS_Subset
  <2> QED BY <2>2, FiniteParts DEF Books
<1>3. /\ Cardinality(t.flagged \cup new) = Cardinality(t.flagged) + Cardinality(new)
      /\ Cardinality(new) \in Nat /\ Cardinality(t.flagged) \in Nat
  <2>1. t.flagged \cap new = {}
    OBVIOUS
  <2> HIDE DEF new
  <2>2. Cardinality(new) \in Nat /\ Cardinality(t.flagged) \in Nat
    BY <1>2, FS_CardinalityType
  <2>3. Cardinality(t.flagged \cap new) = 0
    BY <2>1, FS_EmptySet
  <2>4. Cardinality(t.flagged \cup new)
          = Cardinality(t.flagged) + Cardinality(new) - Cardinality(t.flagged \cap new)
    BY <1>2, FS_Union
  <2> QED BY <2>2, <2>3, <2>4
<1>4. new \subseteq Sending(t) \ t.acked
  OBVIOUS
<1> HIDE DEF u, new
<1>5. Shape(u)
  BY <1>1, <1>3, <1>4 DEF Books, Shape, Sending
<1>6. Balanced(u)
  BY <1>1, <1>3 DEF Books, Balanced
<1> QED BY <1>5, <1>6 DEF Books, u

LEMMA ConsumeBatonBooks ==
  ASSUME NEW t, Books(t), NEW s, s \in Sending(t) \ t.acked
  PROVE  Books(ConsumeBaton(t, s))
<1> DEFINE u == ConsumeBaton(t, s)
<1>1. CASE s \in t.holding \/ t.avail = 0
  BY <1>1 DEF ConsumeBaton
<1>2. CASE ~(s \in t.holding \/ t.avail = 0)
  <2>1. /\ DOMAIN u = TxFields
        /\ u.holding = t.holding \cup {s}
        /\ u.avail = t.avail - 1
        /\ u.next = t.next /\ u.packets = t.packets /\ u.acked = t.acked
        /\ u.flagged = t.flagged /\ u.failed = t.failed
        /\ u.resend = t.resend /\ u.ppb = t.ppb
        /\ u.timers \subseteq Timers
    BY <1>2 DEF ConsumeBaton, Books, Shape, TxFields
  <2>2. u.avail \in Nat
    BY <1>2, <2>1 DEF Books, Shape
  <2> HIDE DEF u
  <2>3. Shape(u)
    BY <2>1, <2>2 DEF Books, Shape, Sending
  <2>4. Balanced(u)
    BY <2>1 DEF Books, Balanced
  <2> QED BY <2>3, <2>4 DEF Books, u
<1> QED BY <1>1, <1>2

LEMMA FlagAsReceivedBooks ==
  ASSUME NEW t, Books(t), NEW S, S \subseteq Sending(t)
  PROVE  /\ Books(FlagAsReceived(t, S))
         /\ FlagAsReceived(t, S).packets = t.packets
         /\ FlagAsReceived(t, S).flagged \cap S = {}
         /\ FlagAsReceived(t, S).holding \cap S = {}
<1> DEFINE d == DoNotResend(t, S)
           r == ReleaseBaton(d, S)
           u == FlagAsReceived(t, S)
<1>1. Books(d)
  BY DoNotResendBooks
<1>2. Books(r)
  <2> HIDE DEF d
  <2> QED BY <1>1, ReleaseBatonBooks
<1>3. d.flagged = t.flagged \ S /\ d.packets = t.packets /\ d.acked = t.acked
  BY DEF DoNotResend, Books, Shape, TxFields
<1>4. /\ r.flagged = d.flagged /\ r.packets = d.packets /\ r.acked = d.acked
      /\ r.holding = d.holding \ S
  <2> HIDE DEF d
  <2> QED BY <1>1 DEF ReleaseBaton, Books, Shape, TxFields
<1>5. /\ DOMAIN u = TxFields
      /\ u.acked = r.acked \cup S
      /\ u.next = r.next /\ u.packets = r.packets /\ u.holding = r.holding
      /\ u.flagged = r.flagged /\ u.failed = r.failed
      /\ u.resend = r.resend /\ u.avail = r.avail /\ u.ppb = r.ppb
      /\ u.timers \subseteq Timers
  <2>1. u = [r EXCEPT !.acked = @ \cup S]
    BY DEF FlagAsReceived
  <2> HIDE DEF u, r
  <2> QED BY <1>2, <2>1 DEF Books, Shape, TxFields
<1> HIDE DEF u, r, d
<1>6. Shape(u)
  BY <1>2, <1>3, <1>4, <1>5 DEF Books, Shape, Sending
<1>7. Balanced(u)
  BY <1>2, <1>5 DEF Books, Balanced
<1> QED BY <1>3, <1>4, <1>5, <1>6, <1>7 DEF Books, u

LEMMA EraseBooks ==
  ASSUME NEW t, Books(t), NEW S, S \subseteq Sending(t)
  PROVE  Books(Erase(t, S))
<1> DEFINE f == FlagAsReceived(t, S)
           u == Erase(t, S)
<1>1. /\ Books(f) /\ f.packets = t.packets
      /\ f.flagged \cap S = {} /\ f.holding \cap S = {}
  BY FlagAsReceivedBooks
<1>2. u = [f EXCEPT !.packets = Keep(@, Sending(t) \ S),
                    !.acked = @ \ S, !.failed = @ \ S]
  BY DEF Erase
<1> HIDE DEF f, u
<1>3. /\ DOMAIN u = TxFields
      /\ u.packets = Keep(f.packets, Sending(t) \ S)
      /\ u.acked = f.acked \ S /\ u.failed = f.failed \ S
      /\ u.next = f.next /\ u.holding = f.holding /\ u.flagged = f.flagged
      /\ u.resend = f.resend /\ u.avail = f.avail /\ u.ppb = f.ppb
      /\ u.timers \subseteq Timers
  BY <1>1, <1>2 DEF Books, Shape, TxFields
<1>4. Sending(u) = Sending(f) \ S
  BY <1>1, <1>3 DEF Sending, Keep
<1>5. IsFiniteSet(Sending(u))
  <2>1. Sending(u) \in SUBSET Sending(f) /\ IsFiniteSet(Sending(f))
    BY <1>1, <1>4 DEF Books, Shape
  <2> QED BY <2>1, FS_Subset
<1>6. Shape(u)
  BY <1>1, <1>3, <1>4, <1>5 DEF Books, Shape
<1>7. Balanced(u)
  BY <1>1, <1>3 DEF Books, Balanced
<1> QED BY <1>6, <1>7 DEF Books, u

(* The last baton is never destroyed.                                       *)
LEMMA HandlePacketLossBooks ==
  ASSUME NEW t, Books(t)
  PROVE  Books(HandlePacketLoss(t)) /\ HandlePacketLoss(t).packets = t.packets
<1> DEFINE v == [t EXCEPT !.frozen = TRUE, !.timers = @ \ {"add"}]
           spare == IF v.avail = 0 /\ v.holding # {}
                      THEN v.holding \ {Smallest(v.holding)} ELSE v.holding
           u == HandlePacketLoss(t)
<1>1. /\ Books(v) /\ v.packets = t.packets
  <2>1. /\ DOMAIN v = DOMAIN t /\ v.next = t.next /\ v.packets = t.packets
        /\ v.acked = t.acked /\ v.holding = t.holding /\ v.flagged = t.flagged
        /\ v.failed = t.failed /\ v.resend = t.resend /\ v.avail = t.avail
        /\ v.ppb = t.ppb
        /\ v.timers \subseteq Timers
    BY DEF Books, Shape, TxFields
  <2> HIDE DEF v
  <2> QED BY <2>1, SameBooks
<1>2. u = IF v.ppb > 1 THEN [v EXCEPT !.ppb = @ \div 2]
          ELSE IF v.avail > 1 THEN [v EXCEPT !.avail = @ - 1]
          ELSE IF spare # {} THEN [v EXCEPT !.holding = @ \ {Smallest(spare)}]
          ELSE v
  BY DEF HandlePacketLoss
<1> HIDE DEF v, u
<1>3. CASE v.ppb > 1
  <2>1. u = [v EXCEPT !.ppb = @ \div 2]
    BY <1>2, <1>3
  <2>2. /\ DOMAIN u = TxFields /\ u.ppb = v.ppb \div 2 /\ u.next = v.next
        /\ u.timers \subseteq Timers
        /\ u.packets = v.packets /\ u.acked = v.acked /\ u.holding = v.holding
        /\ u.flagged = v.flagged /\ u.failed = v.failed /\ u.resend = v.resend
        /\ u.avail = v.avail
    BY <1>1, <2>1 DEF Books, Shape, TxFields
  <2>3. u.ppb \in Nat \ {0}
    BY <1>1, <1>3, <2>2 DEF Books, Shape
  <2>4. Shape(u)
    BY <1>1, <2>2, <2>3 DEF Books, Shape, Sending
  <2>5. Balanced(u)
    BY <1>1, <2>2 DEF Books, Balanced
  <2> QED BY <1>1, <2>2, <2>4, <2>5 DEF Books, u
<1>4. CASE ~(v.ppb > 1) /\ v.avail > 1
  <2>1. u = [v EXCEPT !.avail = @ - 1]
    BY <1>2, <1>4
  <2>2. /\ DOMAIN u = TxFields /\ u.avail = v.avail - 1 /\ u.next = v.next
        /\ u.packets = v.packets /\ u.acked = v.acked /\ u.holding = v.holding
        /\ u.flagged = v.flagged /\ u.failed = v.failed /\ u.resend = v.resend
        /\ u.ppb = v.ppb
        /\ u.timers \subseteq Timers
    BY <1>1, <2>1 DEF Books, Shape, TxFields
  <2>3. u.avail \in Nat /\ u.avail # 0
    BY <1>1, <1>4, <2>2 DEF Books, Shape
  <2>4. Shape(u)
    BY <1>1, <2>2, <2>3 DEF Books, Shape, Sending
  <2>5. Balanced(u)
    BY <1>1, <2>2, <2>3 DEF Books, Balanced
  <2> QED BY <1>1, <2>2, <2>4, <2>5 DEF Books, u
<1>5. CASE ~(v.ppb > 1) /\ ~(v.avail > 1) /\ spare # {}
  <2> DEFINE x == Smallest(spare)
  <2>1. u = [v EXCEPT !.holding = @ \ {x}]
    BY <1>2, <1>5
  <2>2. /\ DOMAIN u = TxFields /\ u.holding = v.holding \ {x} /\ u.next = v.next
        /\ u.packets = v.packets /\ u.acked = v.acked /\ u.avail = v.avail
        /\ u.flagged = v.flagged /\ u.failed = v.failed /\ u.resend = v.resend
        /\ u.ppb = v.ppb
        /\ u.timers \subseteq Timers
    BY <1>1, <2>1 DEF Books, Shape, TxFields
  <2>3. Shape(u)
    BY <1>1, <2>2 DEF Books, Shape, Sending
  <2>4. ASSUME v.avail = 0 PROVE v.holding \ {x} # {}
    <3>1. v.holding \in SUBSET Nat /\ v.holding # {}
      BY <1>1, <2>4 DEF Books, Shape, Balanced
    <3>2. Smallest(v.holding) \in v.holding
      BY <3>1, SmallestIsMember
    <3>3. spare = v.holding \ {Smallest(v.holding)}
      BY <2>4, <3>1
    <3>4. spare \in SUBSET Nat
      BY <3>1, <3>3
    <3>5. x \in spare
      <4> HIDE DEF spare
      <4> QED BY <1>5, <3>4, SmallestIsMember
    <3> HIDE DEF spare, x
    <3> QED BY <3>2, <3>3, <3>5
  <2> HIDE DEF x
  <2>5. Balanced(u)
    BY <1>1, <2>2, <2>4 DEF Books, Balanced
  <2> QED BY <1>1, <2>2, <2>3, <2>5 DEF Books, u
<1>6. CASE ~(v.ppb > 1) /\ ~(v.avail > 1) /\ spare = {}
  BY <1>1, <1>2, <1>6 DEF u
<1> QED BY <1>3, <1>4, <1>5, <1>6

LEMMA ForgetForceBooks ==
  ASSUME NEW t, Books(t)
  PROVE  Books(ForgetForce(t))
<1> DEFINE u == [t EXCEPT !.forceID = 0]
<1>1. /\ DOMAIN u = DOMAIN t /\ u.next = t.next /\ u.packets = t.packets
      /\ u.acked = t.acked /\ u.holding = t.holding /\ u.flagged = t.flagged
      /\ u.failed = t.failed /\ u.resend = t.resend /\ u.avail = t.avail
      /\ u.ppb = t.ppb
      /\ u.timers \subseteq Timers
  BY DEF Books, Shape, TxFields
<1>2. Books(u)
  <2> HIDE DEF u
  <2> QED BY <1>1, SameBooks
<1> QED BY <1>2 DEF ForgetForce

LEMMA HandleUnfreezingBooks ==
  ASSUME NEW t, Books(t), NEW good
  PROVE  Books(HandleUnfreezing(t, good))
<1> DEFINE u == [t EXCEPT !.frozen = FALSE, !.timers = @ \ {"add"}]
<1>1. /\ DOMAIN u = DOMAIN t /\ u.next = t.next /\ u.packets = t.packets
      /\ u.acked = t.acked /\ u.holding = t.holding /\ u.flagged = t.flagged
      /\ u.failed = t.failed /\ u.resend = t.resend /\ u.avail = t.avail
      /\ u.ppb = t.ppb
      /\ u.timers \subseteq Timers
  BY DEF Books, Shape, TxFields
<1>2. Books(u)
  <2> HIDE DEF u
  <2> QED BY <1>1, SameBooks
<1> QED BY <1>2 DEF HandleUnfreezing

LEMMA HandleVectorBooks ==
  ASSUME NEW t, Books(t), NEW a
  PROVE  Books(HandleVector(t, a))
<1> DEFINE lost == NewlyLost(t, a)
           got  == Reported(t, a, Arrived) \cup ({a.gsnr} \cap Sending(t))
           n == [t EXCEPT !.failed = @ \cup lost]
           f == FlagForResending(n, lost)
           u == FlagAsReceived(f, got)
<1>1. lost \subseteq Sending(t) /\ got \subseteq Sending(t)
  BY DEF NewlyLost, Reported
<1>2. HandleVector(t, a) = IF lost = {} THEN u ELSE HandlePacketLoss(u)
  BY DEF HandleVector
<1> HIDE DEF lost, got
<1>3. /\ DOMAIN n = TxFields /\ n.failed = t.failed \cup lost /\ n.next = t.next
      /\ n.packets = t.packets /\ n.acked = t.acked /\ n.holding = t.holding
      /\ n.flagged = t.flagged /\ n.resend = t.resend /\ n.avail = t.avail
      /\ n.ppb = t.ppb
      /\ n.timers \subseteq Timers
  BY DEF Books, Shape, TxFields
<1> HIDE DEF n
<1>4. Books(n) /\ Sending(n) = Sending(t)
  BY <1>1, <1>3 DEF Books, Shape, Balanced, Sending
<1>5. Books(f)
  BY <1>1, <1>4, FlagForResendingBooks
<1>6. f.packets = n.packets
  BY <1>4 DEF FlagForResending, Books, Shape, TxFields
<1> HIDE DEF f
<1>7. Books(u)
  <2>1. got \subseteq Sending(f)
    BY <1>1, <1>4, <1>6 DEF Sending
  <2> QED BY <1>5, <2>1, FlagAsReceivedBooks
<1> HIDE DEF u
<1>8. Books(HandlePacketLoss(u))
  BY <1>7, HandlePacketLossBooks
<1> QED BY <1>2, <1>7, <1>8

LEMMA HandleAckBooks ==
  ASSUME NEW t, Books(t), NEW r, NEW a, NEW good
  PROVE  Books(HandleAck(t, r, a, good))
<1> DEFINE u == Erase(t, {s \in Sending(t) : s <= a.gsnfr})
           v == IF a.gsnr = a.gsnfr THEN u ELSE HandleVector(u, a)
           w == ForgetForce(HandleUnfreezing(v, good))
<1>1. Books(u)
  BY EraseBooks
<1> HIDE DEF u
<1>2. Books(v)
  BY <1>1, HandleVectorBooks
<1> HIDE DEF v
<1>3. Books(w)
  BY <1>2, HandleUnfreezingBooks, ForgetForceBooks
<1>4. Books(ForgetForce(t))
  BY ForgetForceBooks
<1>5. HandleAck(t, r, a, good) =
        IF Sending(t) = {} THEN ForgetForce(t)
        ELSE IF AckIgnored(t, r, a) THEN t ELSE w
  BY DEF HandleAck, w, v, u
<1> HIDE DEF w
<1> QED BY <1>3, <1>4, <1>5

LEMMA HandleForcedAckBooks ==
  ASSUME NEW t, Books(t), NEW id
  PROVE  Books(HandleForcedAck(t, id))
<1> DEFINE S == {s \in Sending(t) : s <= t.forceSeq}
           f == FlagForResending(t, S)
           r == ReleaseBaton(f, S)
           u == [r EXCEPT !.forceID = 0, !.forceNext = FALSE]
<1>1. Books(f)
  BY FlagForResendingBooks
<1> HIDE DEF f
<1>2. Books(r)
  BY <1>1, ReleaseBatonBooks
<1> HIDE DEF r
<1>3. /\ DOMAIN u = DOMAIN r /\ u.next = r.next /\ u.packets = r.packets
      /\ u.acked = r.acked /\ u.holding = r.holding /\ u.flagged = r.flagged
      /\ u.failed = r.failed /\ u.resend = r.resend /\ u.avail = r.avail
      /\ u.ppb = r.ppb
      /\ u.timers \subseteq Timers
  BY <1>2 DEF Books, Shape, TxFields
<1>4. Books(u)
  <2> HIDE DEF u
  <2> QED BY <1>2, <1>3, SameBooks
<1>5. HandleForcedAck(t, id) =
        IF id # Indication /\ t.forceID = id /\ Sending(t) # {} THEN u ELSE t
  BY DEF HandleForcedAck, u, r, f, S
<1> HIDE DEF u
<1> QED BY <1>4, <1>5

LEMMA CleanupBooks ==
  ASSUME NEW t, Books(t), NEW id
  PROVE  Books(Cleanup(t, id))
<1> DEFINE f == ForgetForce(t)
           u == [f EXCEPT !.timers = TimersAfter(t)]
           v == [u EXCEPT !.forceID = id, !.forceSeq = t.next - 1, !.forceNext = FALSE]
<1>1. Books(f)
  BY ForgetForceBooks
<1> HIDE DEF f
<1>2. /\ DOMAIN u = DOMAIN f /\ u.next = f.next /\ u.packets = f.packets
      /\ u.acked = f.acked /\ u.holding = f.holding /\ u.flagged = f.flagged
      /\ u.failed = f.failed /\ u.resend = f.resend /\ u.avail = f.avail
      /\ u.ppb = f.ppb
      /\ u.timers \subseteq Timers
  BY <1>1 DEF Books, Shape, TxFields, TimersAfter, Timers
<1> HIDE DEF u
<1>3. Books(u)
  BY <1>1, <1>2, SameBooks
<1>4. /\ DOMAIN v = DOMAIN u /\ v.next = u.next /\ v.packets = u.packets
      /\ v.acked = u.acked /\ v.holding = u.holding /\ v.flagged = u.flagged
      /\ v.failed = u.failed /\ v.resend = u.resend /\ v.avail = u.avail
      /\ v.ppb = u.ppb
      /\ v.timers \subseteq Timers
  BY <1>3 DEF Books, Shape, TxFields
<1>5. Books(v)
  <2> HIDE DEF v
  <2> QED BY <1>3, <1>4, SameBooks
<1>6. Cleanup(t, id) = IF ForceRequired(t) THEN v ELSE u
  BY DEF Cleanup, v, u, f
<1> HIDE DEF v
<1> QED BY <1>3, <1>5, <1>6

-----------------------------------------------------------------------------
(* The inductive invariant. Once cancel() has dropped the delegate nothing  *)
(* is flagged any more, and the counters are not used again.                *)

BooksInv ==
  /\ DOMAIN ctl = {"state", "dirs", "delegate", "error"}
  /\ ctl.delegate \in BOOLEAN
  /\ Shape(tx)
  /\ ctl.delegate => Balanced(tx)
  /\ ~ctl.delegate => tx.flagged = {}

LEMMA BooksInvInit == Init => BooksInv
<1> SUFFICES ASSUME Init PROVE BooksInv
  OBVIOUS
<1>1. /\ DOMAIN ctl = {"state", "dirs", "delegate", "error"} /\ ctl.delegate = TRUE
  BY DEF Init
<1>2. /\ DOMAIN tx = TxFields /\ tx.next = FirstSend /\ tx.packets = << >>
      /\ tx.acked = {} /\ tx.holding = {} /\ tx.flagged = {} /\ tx.failed = {}
      /\ tx.resend = 0 /\ tx.avail = 1 /\ tx.ppb = PacketsPerBurst
      /\ tx.timers = {}
  BY DEF Init, TxFields
<1>3. Sending(tx) = {}
  BY <1>2 DEF Sending
<1>4. IsFiniteSet({}) /\ Cardinality({}) = 0
  BY FS_EmptySet
<1>5. Shape(tx)
  BY <1>2, <1>3, <1>4, StreamAssumption DEF Shape
<1>6. Balanced(tx)
  BY <1>2, <1>4 DEF Balanced
<1> QED BY <1>1, <1>2, <1>5, <1>6 DEF BooksInv

(* A step that rewrites the sender's record while there is a delegate.      *)
LEMMA RewriteStep ==
  ASSUME BooksInv, ctl' = ctl, NEW t, tx' = t, Books(t)
  PROVE  ctl.delegate => BooksInv'
BY DEF BooksInv, Books, Shape, Balanced, Sending

(* A step that leaves the sender's record alone.                            *)
LEMMA IdleStep ==
  ASSUME BooksInv, tx' = tx, DOMAIN ctl' = DOMAIN ctl, ctl'.delegate = ctl.delegate
  PROVE  BooksInv'
BY DEF BooksInv, Shape, Balanced, Sending

(* A step that changes neither packets nor counters.                        *)
LEMMA TouchStep ==
  ASSUME BooksInv, ctl' = ctl, DOMAIN tx' = DOMAIN tx,
         tx'.next = tx.next, tx'.packets = tx.packets, tx'.acked = tx.acked,
         tx'.holding = tx.holding, tx'.flagged = tx.flagged, tx'.failed = tx.failed,
         tx'.resend = tx.resend, tx'.avail = tx.avail, tx'.ppb = tx.ppb,
         tx'.timers \subseteq Timers
  PROVE  BooksInv'
BY DEF BooksInv, Shape, Balanced, Sending

(* cancel() empties the record and drops the delegate.                      *)
LEMMA EmptyStep ==
  ASSUME BooksInv, tx' = Cancelled(tx), DOMAIN ctl' = DOMAIN ctl, ctl'.delegate = FALSE
  PROVE  BooksInv'
<1>1. /\ DOMAIN tx' = TxFields /\ tx'.packets = << >> /\ tx'.acked = {}
      /\ tx'.holding = {} /\ tx'.flagged = {} /\ tx'.failed = {}
      /\ tx'.next = tx.next /\ tx'.avail = tx.avail /\ tx'.resend = tx.resend
      /\ tx'.ppb = tx.ppb
      /\ tx'.timers \subseteq Timers
  BY DEF Cancelled, BooksInv, Shape, TxFields
<1>2. IsFiniteSet({})
  BY FS_EmptySet
<1>3. DOMAIN << >> = {}
  OBVIOUS
<1> QED BY <1>1, <1>2, <1>3 DEF BooksInv, Shape, Balanced, Sending

LEMMA CancelStep ==
  ASSUME BooksInv, NEW reason, Cancel(reason)
  PROVE  BooksInv'
<1>1. CASE IsShutdown
  BY <1>1, IdleStep DEF Cancel
<1>2. CASE ~IsShutdown
  <2>1. /\ tx' = Cancelled(tx) /\ DOMAIN ctl' = DOMAIN ctl /\ ctl'.delegate = FALSE
    BY <1>2 DEF Cancel, BooksInv
  <2> QED BY <2>1, EmptyStep
<1> QED BY <1>1, <1>2

(* What the books say outside a delegate's life: nothing to resend.         *)
LEMMA DelegateBooks ==
  ASSUME BooksInv, ctl.delegate
  PROVE  Books(tx)
BY DEF BooksInv, Books

LEMMA HandlePacketStep ==
  ASSUME BooksInv, NEW m, HandlePacket(m)
  PROVE  BooksInv'
<1> DEFINE seq == NumberWithHint(m.seq, rx.gsnr)
<1>1. CASE IgnorePacket(m)
  BY <1>1, IdleStep DEF IgnorePacket
<1>2. CASE RejectPacket(m)
  BY <1>2, CancelStep DEF RejectPacket
<1>3. CASE DropData(m)
  <2>1. PICK good \in BOOLEAN : tx' = HandleAck(tx, rx, AckOf(m, seq), good)
    BY <1>3 DEF DropData
  <2>2. ctl.delegate /\ ctl' = ctl
    BY <1>3 DEF DropData
  <2>3. Books(HandleAck(tx, rx, AckOf(m, seq), good))
    BY <2>2, DelegateBooks, HandleAckBooks
  <2> QED BY <2>1, <2>2, <2>3, RewriteStep
<1>4. CASE AcceptPacket(m)
  <2>1. PICK good \in BOOLEAN : tx' = HandleAck(tx, rx, AckOf(m, seq), good)
    BY <1>4 DEF AcceptPacket
  <2>2. ctl.delegate /\ ctl' = ctl
    BY <1>4 DEF AcceptPacket
  <2>3. Books(HandleAck(tx, rx, AckOf(m, seq), good))
    BY <2>2, DelegateBooks, HandleAckBooks
  <2> QED BY <2>1, <2>2, <2>3, RewriteStep
<1> QED BY <1>1, <1>2, <1>3, <1>4 DEF HandlePacket

LEMMA HandleExternalAckStep ==
  ASSUME BooksInv, NEW id, NEW a, HandleExternalAck(id, a)
  PROVE  BooksInv'
<1>1. CASE AckIllegal(ForgetForce(tx), rx, a)
  <2>1. Cancel("IllegalStreamState")
    BY <1>1 DEF HandleExternalAck
  <2> QED BY <2>1, CancelStep
<1>2. CASE ~AckIllegal(ForgetForce(tx), rx, a)
  <2>1. PICK good \in BOOLEAN :
          tx' = [HandleForcedAck(HandleAck(ForgetForce(tx), rx, a, good), id) EXCEPT
                   !.timers = @ \ {"ensure"}]
    BY <1>2 DEF HandleExternalAck
  <2>2. ctl.delegate /\ ctl' = ctl
    BY <1>2 DEF HandleExternalAck
  <2> DEFINE h == HandleForcedAck(HandleAck(ForgetForce(tx), rx, a, good), id)
             u == [h EXCEPT !.timers = @ \ {"ensure"}]
  <2>3. Books(h)
    BY <2>2, DelegateBooks, ForgetForceBooks, HandleAckBooks, HandleForcedAckBooks
  <2>4. tx' = u
    BY <2>1
  <2> HIDE DEF h
  <2>5. /\ DOMAIN u = DOMAIN h /\ u.next = h.next /\ u.packets = h.packets
        /\ u.acked = h.acked /\ u.holding = h.holding /\ u.flagged = h.flagged
        /\ u.failed = h.failed /\ u.resend = h.resend /\ u.avail = h.avail
        /\ u.ppb = h.ppb
        /\ u.timers \subseteq Timers
    BY <2>3 DEF Books, Shape, TxFields
  <2> HIDE DEF u
  <2>6. Books(u)
    BY <2>3, <2>5, SameBooks
  <2> QED BY <2>2, <2>4, <2>6, RewriteStep
<1> QED BY <1>1, <1>2

LEMMA CreatePacketStep ==
  ASSUME BooksInv, CreatePacket
  PROVE  BooksInv'
<1>1. PICK ps \in ParityBits :
        tx' = [tx EXCEPT !.next = @ + 1, !.xorNow = NewPacket(ps).xorNow,
                 !.packets = [s \in (DOMAIN @) \cup {tx.next} |->
                                IF s = tx.next THEN NewPacket(ps) ELSE @[s]],
                 !.timers = IF NeedsAck THEN @ \ {"ensure"} ELSE @]
  BY DEF CreatePacket
<1>2. ctl' = ctl
  BY DEF CreatePacket
<1>3. /\ DOMAIN tx' = TxFields /\ tx'.next = tx.next + 1
      /\ tx'.packets = [s \in (DOMAIN tx.packets) \cup {tx.next} |->
                          IF s = tx.next THEN NewPacket(ps) ELSE tx.packets[s]]
      /\ tx'.acked = tx.acked /\ tx'.holding = tx.holding
      /\ tx'.flagged = tx.flagged /\ tx'.failed = tx.failed
      /\ tx'.resend = tx.resend /\ tx'.avail = tx.avail /\ tx'.ppb = tx.ppb
      /\ tx'.timers \subseteq Timers
  BY <1>1 DEF BooksInv, Shape, TxFields
<1>4. DOMAIN tx'.packets = Sending(tx) \cup {tx.next}
  BY <1>3 DEF Sending
<1>5. IsFiniteSet(DOMAIN tx'.packets)
  BY <1>4, FS_AddElement DEF BooksInv, Shape
<1> QED BY <1>2, <1>3, <1>4, <1>5 DEF BooksInv, Shape, Balanced, Sending

LEMMA AfterSendStep ==
  ASSUME BooksInv, AfterSend
  PROVE  BooksInv'
<1>1. ctl' = ctl
  BY DEF AfterSend
<1>2. CASE burst.picked \notin tx.flagged
  BY <1>1, <1>2, IdleStep DEF AfterSend
<1>3. CASE burst.picked \in tx.flagged
  <2> DEFINE d == DoNotResend(tx, {burst.picked})
             u == [d EXCEPT !.forceNext = TRUE]
  <2>1. ctl.delegate
    BY <1>3 DEF BooksInv
  <2>2. tx' = u
    BY <1>3 DEF AfterSend
  <2>3. Books(d)
    BY <2>1, DelegateBooks, DoNotResendBooks
  <2> HIDE DEF d
  <2>4. /\ DOMAIN u = DOMAIN d /\ u.next = d.next /\ u.packets = d.packets
        /\ u.acked = d.acked /\ u.holding = d.holding /\ u.flagged = d.flagged
        /\ u.failed = d.failed /\ u.resend = d.resend /\ u.avail = d.avail
        /\ u.ppb = d.ppb
        /\ u.timers \subseteq Timers
    BY <2>3 DEF Books, Shape, TxFields
  <2> HIDE DEF u
  <2>5. Books(u)
    BY <2>3, <2>4, SameBooks
  <2> QED BY <1>1, <2>1, <2>2, <2>5, RewriteStep
<1> QED BY <1>2, <1>3

(* The end of a burst, also of one that cancel() cut short.                 *)
LEMMA ConsumeBatonShape ==
  ASSUME NEW t, Shape(t), NEW s, s \in Sending(t) \ t.acked
  PROVE  /\ Shape(ConsumeBaton(t, s))
         /\ ConsumeBaton(t, s).flagged = t.flagged
<1> DEFINE u == ConsumeBaton(t, s)
<1>1. CASE s \in t.holding \/ t.avail = 0
  BY <1>1 DEF ConsumeBaton
<1>2. CASE ~(s \in t.holding \/ t.avail = 0)
  <2>1. /\ DOMAIN u = TxFields
        /\ u.holding = t.holding \cup {s}
        /\ u.avail = t.avail - 1
        /\ u.next = t.next /\ u.packets = t.packets /\ u.acked = t.acked
        /\ u.flagged = t.flagged /\ u.failed = t.failed
        /\ u.resend = t.resend /\ u.ppb = t.ppb
        /\ u.timers \subseteq Timers
    BY <1>2 DEF ConsumeBaton, Shape, TxFields
  <2>2. u.avail \in Nat
    BY <1>2, <2>1 DEF Shape
  <2> HIDE DEF u
  <2>3. Shape(u)
    BY <2>1, <2>2 DEF Shape, Sending
  <2> QED BY <2>1, <2>3 DEF u
<1> QED BY <1>1, <1>2

LEMMA CleanupShape ==
  ASSUME NEW t, Shape(t), NEW id
  PROVE  /\ Shape(Cleanup(t, id))
         /\ Cleanup(t, id).flagged = t.flagged
<1> DEFINE u == Cleanup(t, id)
<1>1. /\ DOMAIN u = TxFields /\ u.next = t.next /\ u.packets = t.packets
      /\ u.acked = t.acked /\ u.holding = t.holding /\ u.flagged = t.flagged
      /\ u.failed = t.failed /\ u.resend = t.resend /\ u.avail = t.avail
      /\ u.ppb = t.ppb
      /\ u.timers \subseteq Timers
  BY DEF Cleanup, ForgetForce, Shape, TxFields, TimersAfter, Timers
<1> HIDE DEF u
<1>2. Shape(u)
  BY <1>1 DEF Shape, Sending
<1> QED BY <1>1, <1>2 DEF u

LEMMA FinishBurstStep ==
  ASSUME BooksInv, FinishBurst
  PROVE  BooksInv'
<1> DEFINE b == AfterBurst
<1>1. /\ Shape(b) /\ b.flagged = tx.flagged
      /\ ctl.delegate => Books(b)
  <2>1. Shape(tx) /\ (ctl.delegate => Books(tx))
    BY DEF BooksInv, Books
  <2>2. CASE burst.last \in Sending(tx) \ tx.acked
    BY <2>1, <2>2, ConsumeBatonShape, ConsumeBatonBooks DEF AfterBurst
  <2>3. CASE burst.last \notin Sending(tx) \ tx.acked
    BY <2>1, <2>3 DEF AfterBurst
  <2> QED BY <2>2, <2>3
<1> HIDE DEF b
<1>2. ASSUME NEW id, tx' = Cleanup(b, id), ctl' = ctl
      PROVE  BooksInv'
  <2>1. CASE ctl.delegate
    <3>1. Books(Cleanup(b, id))
      BY <1>1, <2>1, CleanupBooks
    <3> QED BY <1>2, <2>1, <3>1, RewriteStep
  <2>2. CASE ~ctl.delegate
    <3>1. Shape(Cleanup(b, id)) /\ Cleanup(b, id).flagged = {}
      BY <1>1, <2>2, CleanupShape DEF BooksInv
    <3> HIDE DEF Cleanup
    <3> QED BY <1>2, <2>2, <3>1 DEF BooksInv, Shape, Sending
  <2> QED BY <2>1, <2>2
<1>3. CASE AllDataSent(b)
  <2>1. Cancel("None")
    BY <1>3 DEF FinishBurst, b
  <2> QED BY <2>1, CancelStep
<1>4. CASE ~AllDataSent(b) /\ ~ForceRequired(b)
  <2>1. tx' = Cleanup(b, 0) /\ ctl' = ctl
    BY <1>4 DEF FinishBurst, b
  <2> QED BY <1>2, <2>1
<1>5. CASE ~AllDataSent(b) /\ ForceRequired(b) /\ ~ctl.delegate
  <2>1. tx' = tx /\ ctl' = [ctl EXCEPT !.state = "Crashed"]
    BY <1>5 DEF FinishBurst, b
  <2> QED BY <2>1, IdleStep DEF BooksInv
<1>6. CASE ~AllDataSent(b) /\ ForceRequired(b) /\ ctl.delegate
  <2>1. \/ \E id \in AckIds \ (due \cup {tx.forceID}) :
             tx' = Cleanup(b, id) /\ ctl' = ctl
        \/ Cancel("DelegateGone")
    BY <1>6 DEF FinishBurst, b
  <2>2. CASE \E id \in AckIds \ (due \cup {tx.forceID}) :
               tx' = Cleanup(b, id) /\ ctl' = ctl
    BY <1>2, <2>2
  <2> QED BY <2>1, <2>2, CancelStep
<1> QED BY <1>3, <1>4, <1>5, <1>6

LEMMA OnAddTimerStep ==
  ASSUME BooksInv, OnAddTimer
  PROVE  BooksInv'
<1>1. ctl' = ctl
  BY DEF OnAddTimer
<1>2. \/ tx' = [tx EXCEPT !.avail = @ + 1]
      \/ tx' = [tx EXCEPT !.ppb = @ + 1]
  BY DEF OnAddTimer
<1>3. /\ DOMAIN tx' = TxFields /\ tx'.next = tx.next /\ tx'.packets = tx.packets
      /\ tx'.acked = tx.acked /\ tx'.holding = tx.holding
      /\ tx'.flagged = tx.flagged /\ tx'.failed = tx.failed /\ tx'.resend = tx.resend
      /\ tx'.avail \in {tx.avail, tx.avail + 1} /\ tx'.ppb \in {tx.ppb, tx.ppb + 1}
      /\ tx'.timers \subseteq Timers
  BY <1>2 DEF BooksInv, Shape, TxFields
<1>4. /\ tx'.avail \in Nat /\ tx'.ppb \in Nat \ {0}
      /\ tx'.avail = 0 => tx.avail = 0
  BY <1>3 DEF BooksInv, Shape
<1> QED BY <1>1, <1>3, <1>4 DEF BooksInv, Shape, Balanced, Sending

LEMMA SendNowStep ==
  ASSUME BooksInv, SendNow
  PROVE  BooksInv'
<1>1. CASE BeginBurst \/ PickResend \/ NothingToSend \/ SendPacket \/ SendFails
  BY <1>1, IdleStep DEF BeginBurst, PickResend, NothingToSend, SendPacket, SendFails
<1>2. CASE CreatePacket
  BY <1>2, CreatePacketStep
<1>3. CASE SendGone
  BY <1>3, CancelStep DEF SendGone
<1>4. CASE AfterSend
  BY <1>4, AfterSendStep
<1>5. CASE FinishBurst
  BY <1>5, FinishBurstStep
<1>6. CASE UnwindBurst
  <2>1. (tx' = tx /\ ctl' = ctl) \/ Cancel("DelegateGone")
    BY <1>6 DEF UnwindBurst
  <2> QED BY <2>1, IdleStep, CancelStep
<1> QED BY <1>1, <1>2, <1>3, <1>4, <1>5, <1>6 DEF SendNow

LEMMA CallbackStep ==
  ASSUME BooksInv, Callback
  PROVE  BooksInv'
<1>1. CASE \E m \in Messages : HandlePacket(m)
  BY <1>1, HandlePacketStep
<1>2. CASE \E id \in {Indication} \cup due, a \in Acks : HandleExternalAck(id, a)
  BY <1>2, HandleExternalAckStep
<1>3. CASE OnBurstTimer \/ OnSendNow
  BY <1>3, IdleStep DEF OnBurstTimer, OnSendNow
<1>4. CASE OnEnsureTimer
  <2>1. ctl' = ctl /\ tx' = [tx EXCEPT !.timers = @ \ {"ensure"}, !.forceNext = TRUE]
    BY <1>4 DEF OnEnsureTimer
  <2>2. /\ DOMAIN tx' = DOMAIN tx /\ tx'.next = tx.next /\ tx'.packets = tx.packets
        /\ tx'.acked = tx.acked /\ tx'.holding = tx.holding
        /\ tx'.flagged = tx.flagged /\ tx'.failed = tx.failed
        /\ tx'.resend = tx.resend /\ tx'.avail = tx.avail /\ tx'.ppb = tx.ppb
        /\ tx'.timers \subseteq Timers
    BY <2>1 DEF BooksInv, Shape, TxFields
  <2> QED BY <2>1, <2>2, TouchStep
<1>5. CASE OnAddTimer
  BY <1>5, OnAddTimerStep
<1> QED BY <1>1, <1>2, <1>3, <1>4, <1>5 DEF Callback

LEMMA ApplicationStep ==
  ASSUME BooksInv, Application
  PROVE  BooksInv'
<1>1. CASE Write \/ SetStreams \/ CheckShutdown
  BY <1>1, IdleStep DEF Write, SetStreams, CheckShutdown
<1>2. CASE ShutdownNow
  BY <1>2, CancelStep DEF ShutdownNow
<1>3. CASE \E dirs \in (SUBSET Directions) \ {{}} : ShutdownDirection(dirs)
  <2>1. PICK dirs : ctl' = ShutDirections(dirs) /\ tx' = tx
    BY <1>3 DEF ShutdownDirection
  <2>2. DOMAIN ctl' = DOMAIN ctl /\ ctl'.delegate = ctl.delegate
    BY <2>1 DEF ShutDirections, BooksInv
  <2> QED BY <2>1, <2>2, IdleStep
<1>4. CASE BeginShutdown
  <2>1. CASE ~ctl.delegate
    <3>1. tx' = tx /\ ctl' = [ctl EXCEPT !.state = "Crashed"]
      BY <1>4, <2>1 DEF BeginShutdown
    <3> QED BY <3>1, IdleStep DEF BooksInv
  <2>2. CASE ctl.delegate /\ ~ToWrite /\ Sending(tx) = {}
    <3>1. /\ tx' = Cancelled(tx)
          /\ ctl' = [ctl EXCEPT !.state = "Shutdown", !.delegate = FALSE,
                                !.dirs = @ \cup {"Receive"}]
      BY <1>4, <2>2 DEF BeginShutdown
    <3>2. DOMAIN ctl' = DOMAIN ctl /\ ctl'.delegate = FALSE
      BY <3>1 DEF BooksInv
    <3> QED BY <3>1, <3>2, EmptyStep
  <2>3. CASE ctl.delegate /\ ~(~ToWrite /\ Sending(tx) = {})
    <3>1. /\ tx' = tx
          /\ ctl' = [ctl EXCEPT !.state = "ShuttingDown", !.dirs = @ \cup {"Receive"}]
      BY <1>4, <2>3 DEF BeginShutdown
    <3>2. DOMAIN ctl' = DOMAIN ctl /\ ctl'.delegate = ctl.delegate
      BY <3>1 DEF BooksInv
    <3> QED BY <3>1, <3>2, IdleStep
  <2> QED BY <2>1, <2>2, <2>3
<1> QED BY <1>1, <1>2, <1>3, <1>4 DEF Application

LEMMA BooksInvStep == BooksInv /\ [Next]_vars => BooksInv'
<1> SUFFICES ASSUME BooksInv, [Next]_vars PROVE BooksInv'
  OBVIOUS
<1>1. CASE SendIndication
  BY <1>1, IdleStep DEF SendIndication
<1>2. CASE UNCHANGED vars
  BY <1>2, IdleStep DEF vars
<1> QED BY <1>1, <1>2, CallbackStep, SendNowStep, ApplicationStep DEF Next

(* Whatever the peer claims, whatever the sizes of window and burst: the    *)
(* counters of the sender agree with its packets, and the last baton is     *)
(* never lost (BufferedPacket's and handlePacketLoss's bookkeeping).        *)
THEOREM SpecTxConsistent == Spec => []TxConsistent
<1>1. BooksInv => TxConsistent
  BY DEF BooksInv, TxConsistent, Shape, Balanced
<1> QED BY <1>1, BooksInvInit, BooksInvStep, PTL DEF Spec

-----------------------------------------------------------------------------
(* The receiver. *)

RxFields == {"gsnr", "gsnfr", "pending", "xorFull", "gsnrParity", "hold"}

(* What is in mReceivedPackets lies between the GSNFR and the GSNR.         *)
RxBounds(r) ==
  /\ DOMAIN r = RxFields
  /\ r.gsnr \in Nat /\ r.gsnfr \in Nat /\ r.gsnfr <= r.gsnr
  /\ \A s \in DOMAIN r.pending : s \in Nat /\ r.gsnfr < s /\ s <= r.gsnr

(* ... and a packet that could be delivered was.                            *)
RxInv ==
  /\ RxBounds(rx)
  /\ rx.gsnfr + 1 \notin DOMAIN rx.pending

LEMMA NumberIsInteger ==
  ASSUME NEW n \in Nat, NEW h \in Nat
  PROVE  NumberWithHint(n, h) \in Int
<1>1. h % SeqModulus \in Int /\ SeqModulus \in Int
  BY SeqModulusAssumption
<1> QED BY <1>1 DEF NumberWithHint

(* There is a run to deliver, if only an empty one, and it is the longest.  *)
LEMMA DeliverableRun ==
  ASSUME NEW r, RxBounds(r)
  PROVE  /\ DeliverableTo(r) \in r.gsnfr..r.gsnr
         /\ (r.gsnfr + 1)..DeliverableTo(r) \subseteq DOMAIN r.pending
         /\ DeliverableTo(r) + 1 \notin DOMAIN r.pending
<1> DEFINE Ends == {n \in r.gsnfr..r.gsnr : n + 1 \notin DOMAIN r.pending}
           e == Smallest(Ends)
<1>1. r.gsnr \in Nat /\ r.gsnfr \in Nat /\ r.gsnfr <= r.gsnr
  BY DEF RxBounds
<1>2. r.gsnr \in Ends
  BY <1>1 DEF RxBounds
<1>3. Ends \in SUBSET Nat
  BY <1>1
<1>4. e \in Ends /\ \A u \in Ends : e <= u
  <2> HIDE DEF Ends
  <2> QED BY <1>2, <1>3, SmallestIsMember
<1> HIDE DEF e
<1>5. ASSUME NEW k \in (r.gsnfr + 1)..e PROVE k \in DOMAIN r.pending
  <2>1. k - 1 \in r.gsnfr..r.gsnr /\ k - 1 < e /\ (k - 1) + 1 = k
    BY <1>1, <1>4
  <2>2. k - 1 \notin Ends
    BY <1>3, <1>4, <2>1
  <2> QED BY <2>1, <2>2
<1>6. /\ e \in r.gsnfr..r.gsnr /\ (r.gsnfr + 1)..e \subseteq DOMAIN r.pending
      /\ e + 1 \notin DOMAIN r.pending
  BY <1>4, <1>5
<1> HIDE DEF Ends
<1> QED BY <1>6 DEF DeliverableTo

LEMMA DeliverInv ==
  ASSUME NEW r, RxBounds(r)
  PROVE  /\ RxBounds(Deliver(r))
         /\ Deliver(r).gsnfr + 1 \notin DOMAIN Deliver(r).pending
<1> DEFINE n == DeliverableTo(r)
           u == Deliver(r)
<1>1. n \in r.gsnfr..r.gsnr /\ n + 1 \notin DOMAIN r.pending
  BY DeliverableRun
<1>2. /\ DOMAIN u = RxFields /\ u.gsnfr = n /\ u.gsnr = r.gsnr
      /\ u.pending = [s \in {v \in DOMAIN r.pending : v > n} |-> r.pending[s]]
  BY DEF Deliver, RxBounds, RxFields
<1> HIDE DEF n, u
<1>3. DOMAIN u.pending = {v \in DOMAIN r.pending : v > n}
  BY <1>2
<1>4. RxBounds(u) /\ u.gsnfr + 1 \notin DOMAIN u.pending
  BY <1>1, <1>2, <1>3 DEF RxBounds
<1> QED BY <1>4 DEF u

LEMMA AcceptedBounds ==
  ASSUME RxInv, NEW m, NEW seq \in Int, seq > rx.gsnfr
  PROVE  RxBounds(Accepted(m, seq))
<1> DEFINE u == Accepted(m, seq)
<1>1. /\ DOMAIN u = RxFields /\ u.gsnfr = rx.gsnfr
      /\ u.gsnr = IF seq > rx.gsnr THEN seq ELSE rx.gsnr
      /\ DOMAIN u.pending = (DOMAIN rx.pending) \cup {seq}
  BY DEF Accepted, RxInv, RxBounds, RxFields
<1> HIDE DEF u
<1>2. RxBounds(u)
  BY <1>1 DEF RxInv, RxBounds
<1> QED BY <1>2 DEF u

(* A step that takes nothing in: it may only empty mReceivedPackets.        *)
LEMMA RxKept ==
  ASSUME RxInv, DOMAIN rx' = DOMAIN rx, rx'.gsnr = rx.gsnr, rx'.gsnfr = rx.gsnfr,
         rx'.pending = rx.pending \/ rx'.pending = << >>
  PROVE  RxInv'
<1>1. DOMAIN << >> = {}
  OBVIOUS
<1> QED BY <1>1 DEF RxInv, RxBounds

LEMMA CancelRx ==
  ASSUME RxInv, NEW reason, Cancel(reason)
  PROVE  RxInv'
<1>1. /\ DOMAIN rx' = DOMAIN rx /\ rx'.gsnr = rx.gsnr /\ rx'.gsnfr = rx.gsnfr
      /\ rx'.pending = rx.pending \/ rx'.pending = << >>
  BY DEF Cancel, RxInv, RxBounds, RxFields
<1> QED BY <1>1, RxKept

LEMMA HandlePacketRx ==
  ASSUME RxInv, NEW m, m.seq \in Nat, HandlePacket(m)
  PROVE  RxInv'
<1> DEFINE seq == NumberWithHint(m.seq, rx.gsnr)
<1>1. CASE IgnorePacket(m) \/ DropData(m)
  <2>1. rx' = [rx EXCEPT !.hold = HoldAfter(seq)]
    BY <1>1 DEF IgnorePacket, DropData
  <2>2. /\ DOMAIN rx' = DOMAIN rx /\ rx'.gsnr = rx.gsnr /\ rx'.gsnfr = rx.gsnfr
        /\ rx'.pending = rx.pending
    BY <2>1 DEF RxInv, RxBounds, RxFields
  <2> QED BY <2>2, RxKept
<1>2. CASE RejectPacket(m)
  BY <1>2, CancelRx DEF RejectPacket
<1>3. CASE AcceptPacket(m)
  <2>1. rx' = Deliver(Accepted(m, seq)) /\ ~PacketIgnored(seq)
    BY <1>3 DEF AcceptPacket
  <2>2. seq \in Int
    BY NumberIsInteger DEF RxInv, RxBounds
  <2>3. seq > rx.gsnfr
    BY <2>1, <2>2 DEF PacketIgnored, RxInv, RxBounds
  <2> HIDE DEF seq
  <2>4. RxBounds(Accepted(m, seq))
    BY <2>2, <2>3, AcceptedBounds
  <2>5. RxBounds(rx') /\ rx'.gsnfr + 1 \notin DOMAIN rx'.pending
    BY <2>1, <2>4, DeliverInv
  <2> QED BY <2>5 DEF RxInv, RxBounds
<1> QED BY <1>1, <1>2, <1>3 DEF HandlePacket

LEMMA RxSame ==
  ASSUME RxInv, rx' = rx
  PROVE  RxInv'
BY DEF RxInv, RxBounds

LEMMA RxInvStep ==
  ASSUME RxInv, [Next]_vars
  PROVE  RxInv'
<1>1. CASE Callback
  <2>1. CASE \E m \in Messages : HandlePacket(m)
    BY <2>1, MessagesAssumption, HandlePacketRx
  <2>2. ASSUME NEW id, NEW a, HandleExternalAck(id, a) PROVE RxInv'
    <3>1. CASE AckIllegal(ForgetForce(tx), rx, a)
      BY <2>2, <3>1, CancelRx DEF HandleExternalAck
    <3>2. CASE ~AckIllegal(ForgetForce(tx), rx, a)
      <4>1. rx' = [rx EXCEPT !.hold = HoldAfter(a.next)]
        BY <2>2, <3>2 DEF HandleExternalAck
      <4>2. /\ DOMAIN rx' = DOMAIN rx /\ rx'.gsnr = rx.gsnr
            /\ rx'.gsnfr = rx.gsnfr /\ rx'.pending = rx.pending
        BY <4>1 DEF RxInv, RxBounds, RxFields
      <4> QED BY <4>2, RxKept
    <3> QED BY <3>1, <3>2
  <2>3. CASE OnBurstTimer \/ OnEnsureTimer \/ OnAddTimer \/ OnSendNow
    BY <2>3, RxSame DEF OnBurstTimer, OnEnsureTimer, OnAddTimer, OnSendNow
  <2> QED BY <1>1, <2>1, <2>2, <2>3 DEF Callback
<1>2. CASE SendNow
  <2>1. CASE \/ BeginBurst \/ PickResend \/ CreatePacket \/ NothingToSend
             \/ SendPacket \/ SendFails \/ AfterSend
    BY <2>1, RxSame DEF BeginBurst, PickResend, CreatePacket, NothingToSend,
         SendPacket, SendFails, AfterSend
  <2>2. CASE SendGone
    BY <2>2, CancelRx DEF SendGone
  <2>3. CASE FinishBurst
    <3>1. rx' = rx \/ Cancel("None") \/ Cancel("DelegateGone")
      BY <2>3 DEF FinishBurst
    <3> QED BY <3>1, RxSame, CancelRx
  <2>4. CASE UnwindBurst
    <3>1. rx' = rx \/ Cancel("DelegateGone")
      BY <2>4 DEF UnwindBurst
    <3> QED BY <3>1, RxSame, CancelRx
  <2> QED BY <1>2, <2>1, <2>2, <2>3, <2>4 DEF SendNow
<1>3. CASE Application
  <2>1. CASE \/ Write \/ SetStreams \/ CheckShutdown
             \/ \E dirs \in (SUBSET Directions) \ {{}} : ShutdownDirection(dirs)
    BY <2>1, RxSame DEF Write, SetStreams, CheckShutdown, ShutdownDirection
  <2>2. CASE ShutdownNow
    BY <2>2, CancelRx DEF ShutdownNow
  <2>3. CASE BeginShutdown
    <3>1. rx' = rx \/ rx' = [rx EXCEPT !.pending = << >>]
      BY <2>3 DEF BeginShutdown
    <3>2. /\ DOMAIN rx' = DOMAIN rx /\ rx'.gsnr = rx.gsnr /\ rx'.gsnfr = rx.gsnfr
          /\ rx'.pending = rx.pending \/ rx'.pending = << >>
      BY <3>1 DEF RxInv, RxBounds, RxFields
    <3> QED BY <3>2, RxKept
  <2> QED BY <1>3, <2>1, <2>2, <2>3 DEF Application
<1>4. CASE SendIndication \/ UNCHANGED vars
  BY <1>4, RxSame DEF SendIndication, vars
<1> QED BY <1>1, <1>2, <1>3, <1>4 DEF Next

-----------------------------------------------------------------------------
(* The rest of the state. *)

States == {"Connected", "DirectionalShutdown", "ShuttingDown", "Shutdown", "Crashed"}
Points == {"idle", "begun", "loop", "picked", "sent", "finish", "unwind"}

CtlType ==
  /\ DOMAIN ctl = {"state", "dirs", "delegate", "error"}
  /\ ctl.state \in States
  /\ ctl.dirs \subseteq {"Send", "Receive"}

BurstType ==
  /\ DOMAIN burst = DOMAIN IdleBurst
  /\ burst.pc \in Points

OtherType ==
  /\ CtlType
  /\ BurstType
  /\ due \subseteq AckIds \cup {Indication}
  /\ app \in {"none", "checked"}

LEMMA CancelCtl ==
  ASSUME CtlType, NEW reason, Cancel(reason)
  PROVE  CtlType'
BY DEF CtlType, Cancel, States

LEMMA CtlStep ==
  ASSUME CtlType, [Next]_vars
  PROVE  CtlType'
<1>2. ASSUME ctl' = [ctl EXCEPT !.state = "Crashed"] PROVE CtlType'
  BY <1>2 DEF CtlType, States
<1>3. ASSUME ctl' = ctl PROVE CtlType'
  BY <1>3 DEF CtlType
<1>4. CASE Callback
  <2>1. ASSUME NEW m, HandlePacket(m) PROVE CtlType'
    BY <1>3, <2>1, CancelCtl
      DEF HandlePacket, IgnorePacket, RejectPacket, DropData, AcceptPacket
  <2>2. ASSUME NEW id, NEW a, HandleExternalAck(id, a) PROVE CtlType'
    <3>1. ctl' = ctl \/ Cancel("IllegalStreamState")
      BY <2>2 DEF HandleExternalAck
    <3> QED BY <1>3, <3>1, CancelCtl
  <2>3. CASE OnBurstTimer \/ OnEnsureTimer \/ OnAddTimer \/ OnSendNow
    BY <1>3, <2>3 DEF OnBurstTimer, OnEnsureTimer, OnAddTimer, OnSendNow
  <2> QED BY <1>4, <2>1, <2>2, <2>3 DEF Callback
<1>5. CASE SendNow
  <2>1. CASE \/ BeginBurst \/ PickResend \/ CreatePacket \/ NothingToSend
             \/ SendPacket \/ SendFails \/ AfterSend
    BY <1>3, <2>1 DEF BeginBurst, PickResend, CreatePacket, NothingToSend,
         SendPacket, SendFails, AfterSend
  <2>2. CASE SendGone
    BY <2>2, CancelCtl DEF SendGone
  <2>3. CASE FinishBurst
    <3>1. \/ ctl' = ctl \/ ctl' = [ctl EXCEPT !.state = "Crashed"]
          \/ Cancel("None") \/ Cancel("DelegateGone")
      BY <2>3 DEF FinishBurst
    <3> QED BY <1>2, <1>3, <3>1, CancelCtl
  <2>4. CASE UnwindBurst
    <3>1. ctl' = ctl \/ Cancel("DelegateGone")
      BY <2>4 DEF UnwindBurst
    <3> QED BY <1>3, <3>1, CancelCtl
  <2> QED BY <1>5, <2>1, <2>2, <2>3, <2>4 DEF SendNow
<1>6. CASE Application
  <2>1. CASE Write \/ SetStreams \/ CheckShutdown
    BY <1>3, <2>1 DEF Write, SetStreams, CheckShutdown
  <2>2. ASSUME NEW dirs \in (SUBSET Directions) \ {{}}, ShutdownDirection(dirs)
        PROVE  CtlType'
    <3>1. dirs \in SUBSET {"Send", "Receive"}
      BY StreamAssumption
    <3>2. ctl' = ShutDirections(dirs)
      BY <2>2 DEF ShutdownDirection
    <3>3. CASE IsShutdown \/ IsShuttingDown
      <4>1. ctl' = [ctl EXCEPT !.dirs = @ \cup dirs, !.state = @]
        BY <3>2, <3>3 DEF ShutDirections
      <4> QED BY <3>1, <4>1 DEF CtlType
    <3>4. CASE ~(IsShutdown \/ IsShuttingDown)
      <4>1. ctl' = [ctl EXCEPT !.dirs = @ \cup dirs, !.state = "DirectionalShutdown"]
        BY <3>2, <3>4 DEF ShutDirections
      <4> QED BY <3>1, <4>1 DEF CtlType, States
    <3> QED BY <3>3, <3>4
  <2>3. CASE ShutdownNow
    BY <2>3, CancelCtl DEF ShutdownNow
  <2>4. CASE BeginShutdown
    <3>1. \/ ctl' = [ctl EXCEPT !.state = "Crashed"]
          \/ ctl' = [ctl EXCEPT !.state = "Shutdown", !.delegate = FALSE,
                                !.dirs = @ \cup {"Receive"}]
          \/ ctl' = [ctl EXCEPT !.state = "ShuttingDown", !.dirs = @ \cup {"Receive"}]
      BY <2>4 DEF BeginShutdown
    <3> QED BY <1>2, <3>1 DEF CtlType, States
  <2> QED BY <1>6, <2>1, <2>2, <2>3, <2>4 DEF Application
<1>7. CASE SendIndication \/ UNCHANGED vars
  BY <1>3, <1>7 DEF SendIndication, vars
<1> QED BY <1>4, <1>5, <1>6, <1>7 DEF Next

LEMMA EnterSendNowType ==
  ASSUME BurstType, due \subseteq AckIds \cup {Indication}, NEW ext, NEW hold,
         EnterSendNow(ext, hold)
  PROVE  BurstType' /\ due' \subseteq AckIds \cup {Indication}
<1>1. burst' = burst \/ burst' = [IdleBurst EXCEPT !.pc = "begun", !.ext = ext]
  BY DEF EnterSendNow
<1>2. BurstType'
  BY <1>1 DEF BurstType, IdleBurst, Points
<1>3. due' = due \/ due' = due \cup {Indication}
  BY DEF EnterSendNow
<1> QED BY <1>2, <1>3

LEMMA OtherStep ==
  ASSUME OtherType, [Next]_vars
  PROVE  OtherType'
<1> USE DEF OtherType
<1>1. CtlType'
  BY CtlStep
<1>2. ASSUME burst' = burst PROVE BurstType'
  BY <1>2 DEF BurstType
<1>3. app' \in {"none", "checked"}
  <2>1. CASE Callback
    BY <2>1 DEF Callback, HandlePacket, IgnorePacket, RejectPacket, DropData,
         AcceptPacket, HandleExternalAck, OnBurstTimer, OnEnsureTimer, OnAddTimer, OnSendNow
  <2>2. CASE SendNow
    BY <2>2 DEF SendNow, BeginBurst, PickResend, CreatePacket, NothingToSend, SendPacket,
         SendFails, SendGone, AfterSend, FinishBurst, UnwindBurst
  <2>3. CASE Application
    BY <2>3 DEF Application, Write, SetStreams, ShutdownDirection, ShutdownNow,
         CheckShutdown, BeginShutdown
  <2>4. CASE SendIndication \/ UNCHANGED vars
    BY <2>4 DEF SendIndication, vars
  <2> QED BY <2>1, <2>2, <2>3, <2>4 DEF Next
<1>4. CASE Callback
  <2>1. ASSUME NEW m, HandlePacket(m)
        PROVE  BurstType' /\ due' \subseteq AckIds \cup {Indication}
    <3>1. CASE IgnorePacket(m) \/ RejectPacket(m) \/ DropData(m)
      BY <1>2, <3>1 DEF IgnorePacket, RejectPacket, DropData
    <3>2. CASE AcceptPacket(m)
      <4>1. EnterSendNow(m.ar, HoldAfter(NumberWithHint(m.seq, rx.gsnr)))
        BY <3>2 DEF AcceptPacket
      <4> QED BY <4>1, EnterSendNowType
    <3> QED BY <2>1, <3>1, <3>2 DEF HandlePacket
  <2>2. ASSUME NEW id, NEW a, HandleExternalAck(id, a)
        PROVE  BurstType' /\ due' \subseteq AckIds \cup {Indication}
    <3>1. burst' = burst /\ (due' = due \/ due' = due \ {id})
      BY <2>2 DEF HandleExternalAck
    <3> QED BY <1>2, <3>1
  <2>3. CASE OnBurstTimer \/ OnEnsureTimer \/ OnAddTimer \/ OnSendNow
    <3>1. EnterSendNow(FALSE, rx.hold)
      BY <2>3 DEF OnBurstTimer, OnEnsureTimer, OnAddTimer, OnSendNow
    <3> QED BY <1>1, <1>3, <3>1, EnterSendNowType
  <2> QED BY <1>1, <1>3, <1>4, <2>1, <2>2, <2>3 DEF Callback
<1>5. CASE SendNow
  <2>1. BurstType'
    <3>1. CASE BeginBurst
      BY <3>1 DEF BeginBurst, BurstType, Points
    <3>2. CASE PickResend
      BY <3>2 DEF PickResend, BurstType, Points
    <3>3. CASE CreatePacket
      BY <3>3 DEF CreatePacket, BurstType, Points
    <3>4. CASE NothingToSend \/ SendPacket \/ SendGone
      <4>1. \/ burst' = [burst EXCEPT !.pc = "finish"]
            \/ burst' = [burst EXCEPT !.pc = "sent"]
        BY <3>4 DEF NothingToSend, SendPacket, SendGone
      <4> QED BY <4>1 DEF BurstType, Points, IdleBurst
    <3>5. CASE SendFails
      BY <3>5 DEF SendFails, BurstType, Points
    <3>6. CASE AfterSend
      BY <3>6 DEF AfterSend, BurstType, Points
    <3>7. CASE FinishBurst
      BY <3>7 DEF FinishBurst, BurstType, Points
    <3>8. CASE UnwindBurst
      BY <3>8 DEF UnwindBurst, BurstType, Points, IdleBurst
    <3> QED BY <1>5, <3>1, <3>2, <3>3, <3>4, <3>5, <3>6, <3>7, <3>8 DEF SendNow
  <2>2. due' = due \/ due' = due \cup {Indication} \/ \E id \in AckIds : due' = due \cup {id}
    <3>1. CASE FinishBurst
      BY <3>1 DEF FinishBurst
    <3>2. CASE UnwindBurst
      BY <3>2 DEF UnwindBurst
    <3> QED BY <1>5, <3>1, <3>2 DEF SendNow, BeginBurst, PickResend, CreatePacket,
              NothingToSend, SendPacket, SendFails, SendGone, AfterSend
  <2> QED BY <1>1, <1>3, <2>1, <2>2
<1>6. CASE Application
  <2>1. burst' = burst /\ due' = due
    BY <1>6 DEF Application, Write, SetStreams, ShutdownDirection, ShutdownNow,
         CheckShutdown, BeginShutdown
  <2> QED BY <1>1, <1>2, <1>3, <2>1
<1>7. CASE SendIndication \/ UNCHANGED vars
  <2>1. burst' = burst /\ (due' = due \/ due' = due \ {Indication})
    BY <1>7 DEF SendIndication, vars
  <2> QED BY <1>1, <1>2, <1>3, <2>1
<1> QED BY <1>4, <1>5, <1>6, <1>7 DEF Next

TypeInv == BooksInv /\ RxInv /\ OtherType

LEMMA TypeInvInit == Init => TypeInv
<1> SUFFICES ASSUME Init PROVE TypeInv
  OBVIOUS
<1>1. BooksInv
  BY BooksInvInit
<1>2. RxInv
  <2>1. /\ DOMAIN rx = RxFields /\ rx.gsnr = FirstReceive - 1
        /\ rx.gsnfr = FirstReceive - 1 /\ rx.pending = << >>
    BY DEF Init, RxFields
  <2>2. DOMAIN << >> = {} /\ FirstReceive - 1 \in Nat
    BY StreamAssumption
  <2> QED BY <2>1, <2>2 DEF RxInv, RxBounds
<1>3. CtlType
  BY DEF Init, CtlType, States
<1>4. BurstType
  BY DEF Init, BurstType, IdleBurst, Points
<1> QED BY <1>1, <1>2, <1>3, <1>4 DEF Init, OtherType, TypeInv

(* Every variable keeps its type; the GSNFR never passes the GSNR, and what *)
(* is still in mReceivedPackets lies beyond a gap (deliverReadPackets).     *)
THEOREM SpecTypeOK == Spec => []TypeOK
<1>1. TypeInv /\ [Next]_vars => TypeInv'
  BY BooksInvStep, RxInvStep, OtherStep DEF TypeInv
<1>2. TypeInv => TypeOK
  <2> SUFFICES ASSUME TypeInv PROVE TypeOK
    OBVIOUS
  <2>1. \A s \in DOMAIN rx.pending : rx.gsnfr + 1 < s /\ s <= rx.gsnr
    BY DEF TypeInv, RxInv, RxBounds
  <2>2. /\ ctl.delegate \in BOOLEAN
        /\ tx.avail \in Nat /\ tx.resend \in Nat /\ tx.ppb \in Nat \ {0}
        /\ tx.timers \subseteq {"burst", "ensure", "add"}
    BY DEF TypeInv, BooksInv, Shape, Timers
  <2>3. rx.gsnfr <= rx.gsnr
    BY DEF TypeInv, RxInv, RxBounds
  <2> QED BY <2>1, <2>2, <2>3 DEF TypeInv, TypeOK, OtherType, CtlType, BurstType, States, Points
<1> QED BY TypeInvInit, <1>1, <1>2, PTL DEF Spec

-----------------------------------------------------------------------------
(* Work that waits is awaited. What an acknowledgement makes of the         *)
(* sender's record leaves no more to do and stops no timer that matters.    *)

Movers == {"burst", "ensure"}

Pursues(t, u) ==
  /\ DOMAIN u = TxFields
  /\ Sending(u) \subseteq Sending(t)
  /\ t.timers \cap Movers \subseteq u.timers
  /\ u.forceID \in {0, t.forceID}

LEMMA PursuesOn ==
  ASSUME NEW t, NEW u, NEW v, Pursues(t, u), Pursues(u, v)
  PROVE  Pursues(t, v)
BY DEF Pursues

(* A step that keeps the packets, the timers and the forced ACK.            *)
LEMMA PursuesSame ==
  ASSUME NEW t, NEW u, DOMAIN u = TxFields, u.packets = t.packets,
         u.timers = t.timers, u.forceID = t.forceID
  PROVE  Pursues(t, u)
BY DEF Pursues, Sending

LEMMA FlagAsReceivedPursues ==
  ASSUME NEW t, DOMAIN t = TxFields, NEW S
  PROVE  Pursues(t, FlagAsReceived(t, S))
<1> DEFINE d == DoNotResend(t, S)
           r == ReleaseBaton(d, S)
           u == FlagAsReceived(t, S)
<1>1. /\ DOMAIN d = TxFields /\ d.packets = t.packets /\ d.timers = t.timers
      /\ d.forceID = t.forceID
  BY DEF DoNotResend, TxFields
<1> HIDE DEF d
<1>2. /\ DOMAIN r = TxFields /\ r.packets = t.packets /\ r.timers = t.timers
      /\ r.forceID = t.forceID
  BY <1>1 DEF ReleaseBaton, TxFields
<1>3. u = [r EXCEPT !.acked = @ \cup S]
  BY DEF FlagAsReceived, r, d
<1> HIDE DEF r, u
<1>4. /\ DOMAIN u = TxFields /\ u.packets = t.packets /\ u.timers = t.timers
      /\ u.forceID = t.forceID
  BY <1>2, <1>3 DEF TxFields
<1> QED BY <1>4, PursuesSame DEF u

LEMMA ErasePursues ==
  ASSUME NEW t, DOMAIN t = TxFields, NEW S
  PROVE  Pursues(t, Erase(t, S))
<1> DEFINE f == FlagAsReceived(t, S)
           u == Erase(t, S)
<1>1. Pursues(t, f)
  BY FlagAsReceivedPursues
<1>2. u = [f EXCEPT !.packets = Keep(@, Sending(t) \ S),
                    !.acked = @ \ S, !.failed = @ \ S]
  BY DEF Erase
<1> HIDE DEF f, u
<1>3. DOMAIN f = TxFields
  BY <1>1 DEF Pursues
<1>4. /\ DOMAIN u = TxFields /\ u.timers = f.timers /\ u.forceID = f.forceID
      /\ u.packets = Keep(f.packets, Sending(t) \ S)
  BY <1>2, <1>3 DEF TxFields
<1>5. Sending(u) \subseteq Sending(f)
  BY <1>4 DEF Sending, Keep
<1>6. Pursues(f, u)
  BY <1>4, <1>5 DEF Pursues
<1> QED BY <1>1, <1>6, PursuesOn DEF u

LEMMA HandlePacketLossPursues ==
  ASSUME NEW t, DOMAIN t = TxFields
  PROVE  Pursues(t, HandlePacketLoss(t))
<1> DEFINE v == [t EXCEPT !.frozen = TRUE, !.timers = @ \ {"add"}]
           spare == IF v.avail = 0 /\ v.holding # {}
                      THEN v.holding \ {Smallest(v.holding)} ELSE v.holding
           u == HandlePacketLoss(t)
<1>1. /\ DOMAIN v = TxFields /\ v.packets = t.packets /\ v.forceID = t.forceID
      /\ v.timers = t.timers \ {"add"}
  BY DEF TxFields
<1>2. \/ u = [v EXCEPT !.ppb = @ \div 2]
      \/ u = [v EXCEPT !.avail = @ - 1]
      \/ u = [v EXCEPT !.holding = @ \ {Smallest(spare)}]
      \/ u = v
  BY DEF HandlePacketLoss
<1> HIDE DEF v, u, spare
<1>3. /\ DOMAIN u = TxFields /\ u.packets = v.packets /\ u.forceID = v.forceID
      /\ u.timers = v.timers
  BY <1>1, <1>2 DEF TxFields
<1>4. Pursues(t, u)
  BY <1>1, <1>3 DEF Pursues, Sending, Movers
<1> QED BY <1>4 DEF u

LEMMA ForgetForcePursues ==
  ASSUME NEW t, DOMAIN t = TxFields
  PROVE  /\ Pursues(t, ForgetForce(t))
         /\ Sending(ForgetForce(t)) = {} => ForgetForce(t).forceID = 0
<1> DEFINE u == [t EXCEPT !.forceID = 0]
<1>1. /\ DOMAIN u = TxFields /\ u.packets = t.packets /\ u.forceID = 0
      /\ u.timers = t.timers
  BY DEF TxFields
<1>2. ForgetForce(t) = IF Sending(t) = {} THEN u ELSE t
  BY DEF ForgetForce
<1> HIDE DEF u
<1>3. Pursues(t, u) /\ Pursues(t, t) /\ Sending(u) = Sending(t)
  BY <1>1 DEF Pursues, Sending
<1> QED BY <1>1, <1>2, <1>3

LEMMA HandleUnfreezingPursues ==
  ASSUME NEW t, DOMAIN t = TxFields, NEW good
  PROVE  Pursues(t, HandleUnfreezing(t, good))
<1> DEFINE u == [t EXCEPT !.frozen = FALSE, !.timers = @ \ {"add"}]
<1>1. /\ DOMAIN u = TxFields /\ u.packets = t.packets /\ u.forceID = t.forceID
      /\ u.timers = t.timers \ {"add"}
  BY DEF TxFields
<1>2. HandleUnfreezing(t, good) \in {u, t}
  BY DEF HandleUnfreezing
<1> HIDE DEF u
<1>3. Pursues(t, u) /\ Pursues(t, t)
  BY <1>1 DEF Pursues, Sending, Movers
<1> QED BY <1>2, <1>3

LEMMA HandleVectorPursues ==
  ASSUME NEW t, DOMAIN t = TxFields, NEW a
  PROVE  Pursues(t, HandleVector(t, a))
<1> DEFINE lost == NewlyLost(t, a)
           got  == Reported(t, a, Arrived) \cup ({a.gsnr} \cap Sending(t))
           n == [t EXCEPT !.failed = @ \cup lost]
           f == FlagForResending(n, lost)
           u == FlagAsReceived(f, got)
<1>1. HandleVector(t, a) = IF lost = {} THEN u ELSE HandlePacketLoss(u)
  BY DEF HandleVector
<1> HIDE DEF lost, got
<1>2. /\ DOMAIN n = TxFields /\ n.packets = t.packets /\ n.timers = t.timers
      /\ n.forceID = t.forceID
  BY DEF TxFields
<1> HIDE DEF n
<1>3. /\ DOMAIN f = TxFields /\ f.packets = t.packets /\ f.timers = t.timers
      /\ f.forceID = t.forceID
  BY <1>2 DEF FlagForResending, TxFields
<1> HIDE DEF f
<1>4. Pursues(t, f)
  BY <1>3, PursuesSame
<1>5. Pursues(f, u)
  BY <1>3, FlagAsReceivedPursues
<1> HIDE DEF u
<1>6. Pursues(t, u)
  BY <1>4, <1>5, PursuesOn
<1>7. Pursues(u, HandlePacketLoss(u))
  BY <1>6, HandlePacketLossPursues DEF Pursues
<1> QED BY <1>1, <1>6, <1>7, PursuesOn

LEMMA HandleAckPursues ==
  ASSUME NEW t, DOMAIN t = TxFields, NEW r, NEW a, NEW good
  PROVE  /\ Pursues(t, HandleAck(t, r, a, good))
         /\ Sending(HandleAck(t, r, a, good)) = {} => HandleAck(t, r, a, good).forceID = 0
<1> DEFINE u == Erase(t, {s \in Sending(t) : s <= a.gsnfr})
           v == IF a.gsnr = a.gsnfr THEN u ELSE HandleVector(u, a)
           h == HandleUnfreezing(v, good)
           w == ForgetForce(h)
<1>1. HandleAck(t, r, a, good) =
        IF Sending(t) = {} THEN ForgetForce(t)
        ELSE IF AckIgnored(t, r, a) THEN t ELSE w
  BY DEF HandleAck, w, h, v, u
<1>2. Pursues(t, u)
  BY ErasePursues
<1> HIDE DEF u
<1>3. Pursues(u, v)
  <2>1. DOMAIN u = TxFields
    BY <1>2 DEF Pursues
  <2> QED BY <2>1, HandleVectorPursues DEF Pursues
<1> HIDE DEF v
<1>4. Pursues(v, h)
  <2>1. DOMAIN v = TxFields
    BY <1>3 DEF Pursues
  <2> QED BY <2>1, HandleUnfreezingPursues
<1> HIDE DEF h
<1>5. Pursues(h, w) /\ (Sending(w) = {} => w.forceID = 0)
  <2>1. DOMAIN h = TxFields
    BY <1>4 DEF Pursues
  <2> QED BY <2>1, ForgetForcePursues
<1> HIDE DEF w
<1>6. Pursues(t, w)
  BY <1>2, <1>3, <1>4, <1>5, PursuesOn
<1>7. Pursues(t, t)
  BY DEF Pursues
<1> QED BY <1>1, <1>5, <1>6, <1>7, ForgetForcePursues

(* The answer to the forced ACK has it forgotten, if it was not already.    *)
LEMMA HandleForcedAckForgets ==
  ASSUME NEW t, DOMAIN t = TxFields, NEW id, Sending(t) = {} => t.forceID = 0
  PROVE  LET u == HandleForcedAck(t, id)
         IN  /\ DOMAIN u = TxFields /\ Sending(u) = Sending(t)
             /\ u.forceID = 0 \/ (u.forceID = t.forceID /\ t.forceID # id)
             /\ u.forceID = 0 \/ id = Indication \/ u.forceID # id
<1> DEFINE S == {s \in Sending(t) : s <= t.forceSeq}
           f == FlagForResending(t, S)
           r == ReleaseBaton(f, S)
           u == [r EXCEPT !.forceID = 0, !.forceNext = FALSE]
<1>1. HandleForcedAck(t, id) =
        IF id # Indication /\ t.forceID = id /\ Sending(t) # {} THEN u ELSE t
  BY DEF HandleForcedAck, u, r, f, S
<1> HIDE DEF S
<1>2. DOMAIN f = TxFields /\ f.packets = t.packets
  BY DEF FlagForResending, TxFields
<1> HIDE DEF f
<1>3. DOMAIN r = TxFields /\ r.packets = t.packets
  BY <1>2 DEF ReleaseBaton, TxFields
<1> HIDE DEF r
<1>4. DOMAIN u = TxFields /\ u.packets = t.packets /\ u.forceID = 0
  BY <1>3 DEF TxFields
<1> HIDE DEF u
<1> QED BY <1>1, <1>4 DEF Sending, Indication

(* What holds until the next callback: a stream is over exactly when its    *)
(* delegate is gone, a forced ACK that is remembered was asked for, and     *)
(* who holds sending has taken nothing in; and work that waits between two  *)
(* bursts, or at the end of one, is awaited.                                *)
IoFields == {"unread", "delivered", "kept", "attached", "written"}

Live == ctl.state \notin {"Shutdown", "Crashed"}

Awaited ==
  \/ posted
  \/ tx.timers \cap Movers # {}
  \/ due \ {Indication} # {}

Moving ==
  Live /\ rx.hold = 0 /\ burst.pc \in {"idle", "unwind"} /\ WorkPending => Awaited

HeldBack ==
  ctl.delegate /\ rx.hold # 0 =>
    /\ HoldSending /\ rx.hold = FirstReceive
    /\ rx.gsnr = FirstReceive - 1 /\ rx.gsnfr = FirstReceive - 1

StallInv ==
  /\ DOMAIN io = IoFields
  /\ ctl.delegate <=> Live
  /\ ctl.delegate /\ tx.forceID # 0 => tx.forceID \in due
  /\ HeldBack
  /\ Moving

Inv == TypeInv /\ StallInv

LEMMA StallInvInit == Init => StallInv
<1> SUFFICES ASSUME Init PROVE StallInv
  OBVIOUS
<1>1. /\ DOMAIN io = IoFields /\ io.unread = << >>
  BY DEF Init, IoFields
<1>2. Live /\ ctl.delegate
  BY DEF Init, Live
<1>3. tx.forceID = 0 /\ tx.packets = << >>
  BY DEF Init
<1>4. ~WorkPending
  <2>1. DOMAIN << >> = {}
    OBVIOUS
  <2> QED BY <1>1, <1>3, <2>1 DEF WorkPending, Sending, ToWrite
<1>5. HeldBack
  BY DEF Init, HeldBack
<1> QED BY <1>1, <1>2, <1>3, <1>4, <1>5 DEF StallInv, Moving

(* A step that leaves both halves of the stream alone, and posts a call for *)
(* what becomes ready to be written.                                        *)
LEMMA QuietStep ==
  ASSUME StallInv, DOMAIN io' = DOMAIN io, Live' <=> Live, ctl'.delegate = ctl.delegate,
         tx' = tx, rx'.hold = rx.hold, rx'.gsnr = rx.gsnr, rx'.gsnfr = rx.gsnfr,
         due \ {Indication} \subseteq due',
         burst'.pc = burst.pc, posted => posted', ToWrite' => ToWrite \/ posted'
  PROVE  StallInv'
<1>1. HeldBack'
  BY DEF StallInv, HeldBack
<1>2. WorkPending' => WorkPending \/ posted'
  BY DEF WorkPending, Sending
<1>3. Awaited => Awaited'
  BY DEF Awaited
<1>4. Moving'
  <2>1. posted' => Awaited'
    BY DEF Awaited
  <2> QED BY <1>2, <1>3, <2>1 DEF StallInv, Moving
<1>5. ctl'.delegate /\ tx'.forceID # 0 => tx'.forceID \in due'
  BY DEF StallInv, Indication
<1> QED BY <1>1, <1>4, <1>5 DEF StallInv

(* A stream that is over waits for nothing.                                 *)
LEMMA OverStep ==
  ASSUME DOMAIN io' = IoFields, ~Live', ~ctl'.delegate
  PROVE  StallInv'
BY DEF StallInv, HeldBack, Moving

LEMMA CancelStall ==
  ASSUME StallInv, CtlType, NEW reason, Cancel(reason)
  PROVE  StallInv'
<1>1. CASE IsShutdown
  <2>1. ctl' = ctl /\ io' = io /\ ~Live
    BY <1>1 DEF Cancel, Live, IsShutdown
  <2>2. ~ctl.delegate
    BY <2>1 DEF StallInv
  <2> QED BY <2>1, <2>2, OverStep DEF StallInv, Live
<1>2. CASE ~IsShutdown
  <2>1. ctl'.state = "Shutdown" /\ ctl'.delegate = FALSE
    BY <1>2 DEF Cancel, CtlType
  <2>2. DOMAIN io' = IoFields
    BY <1>2 DEF Cancel, StallInv, IoFields
  <2> QED BY <2>1, <2>2, OverStep DEF Live
<1> QED BY <1>1, <1>2

(* The two ways in which sendNow is entered between two bursts: it begins   *)
(* one, or there is nothing that it may do.                                 *)
LEMMA EnteredOrOver ==
  ASSUME BurstType, burst.pc = "idle", NEW ext, EnterSendNow(ext, 0)
  PROVE  /\ IsShutdown \/ burst'.pc = "begun"
         /\ due \subseteq due'
<1>1. CASE IsShutdown
  BY <1>1 DEF EnterSendNow
<1>2. CASE ~IsShutdown
  <2>1. burst' = [IdleBurst EXCEPT !.pc = "begun", !.ext = ext] /\ due' = due
    BY <1>2 DEF EnterSendNow
  <2>2. burst'.pc = "begun"
    BY <2>1 DEF IdleBurst
  <2> QED BY <2>1, <2>2
<1> QED BY <1>1, <1>2

LEMMA TimerStall ==
  ASSUME Inv, SharedQueue, OnBurstTimer \/ OnEnsureTimer \/ OnAddTimer \/ OnSendNow
  PROVE  StallInv'
<1>1. /\ burst.pc = "idle" /\ EnterSendNow(FALSE, rx.hold)
      /\ UNCHANGED <<ctl, rx, io>>
  BY DEF OnBurstTimer, OnEnsureTimer, OnAddTimer, OnSendNow, MayCallBack
<1>2. tx'.forceID = tx.forceID
  <2>1. DOMAIN tx = TxFields
    BY DEF Inv, TypeInv, BooksInv, Shape
  <2> QED BY <2>1 DEF OnBurstTimer, OnEnsureTimer, OnAddTimer, OnSendNow, TxFields
<1>3. HeldBack' /\ (Live' <=> Live)
  BY <1>1 DEF Inv, StallInv, HeldBack, Live
<1>4. due \subseteq due'
  BY <1>1 DEF EnterSendNow
<1>5. Moving'
  <2>1. CASE rx.hold = 0
    <3>1. IsShutdown \/ burst'.pc = "begun"
      BY <1>1, <2>1, EnteredOrOver DEF Inv, TypeInv, OtherType
    <3>2. IsShutdown => ~Live'
      BY <1>3 DEF IsShutdown, Live
    <3> QED BY <3>1, <3>2 DEF Moving
  <2>2. CASE rx.hold # 0
    BY <1>1, <2>2 DEF Moving
  <2> QED BY <2>1, <2>2
<1> QED BY <1>1, <1>2, <1>3, <1>4, <1>5 DEF Inv, StallInv

(* An acknowledgement that is taken in by a stream which has nothing to     *)
(* hold back leaves what was awaited awaited.                               *)
LEMMA PursuedStall ==
  ASSUME StallInv, ctl' = ctl, io' = io, Pursues(tx, tx'), HeldBack',
         burst' = burst, posted' = posted, due' = due, rx.hold = 0
  PROVE  StallInv'
<1>1. WorkPending' => WorkPending
  BY DEF Pursues, WorkPending, ToWrite
<1>2. Awaited => Awaited'
  BY DEF Pursues, Awaited
<1>3. Moving'
  BY <1>1, <1>2 DEF StallInv, Moving, Live
<1>4. ctl'.delegate /\ tx'.forceID # 0 => tx'.forceID \in due'
  BY DEF StallInv, Pursues
<1> QED BY <1>3, <1>4 DEF StallInv, Live

(* What a packet that reaches an end which holds sending can do to the hold.*)
LEMMA HeldPacket ==
  ASSUME Inv, FirstInWindow, NEW m \in Messages, ctl.delegate, rx.hold # 0
  PROVE  LET seq == NumberWithHint(m.seq, rx.gsnr)
         IN  /\ seq \in Int /\ seq <= rx.gsnfr + Window /\ seq <= rx.gsnr + Window
             /\ seq <= rx.gsnfr => HoldAfter(seq) = rx.hold
             /\ seq > rx.gsnfr => HoldAfter(seq) = 0
<1> DEFINE seq == NumberWithHint(m.seq, rx.gsnr)
<1>1. /\ HoldSending /\ rx.hold = FirstReceive
      /\ rx.gsnr = FirstReceive - 1 /\ rx.gsnfr = FirstReceive - 1
  BY DEF Inv, StallInv, HeldBack
<1>2. seq \in Int /\ FirstReceive \in Nat /\ Window \in Nat
  <2>1. m.seq \in Nat /\ rx.gsnr \in Nat
    BY MessagesAssumption DEF Inv, TypeInv, RxInv, RxBounds
  <2> QED BY <2>1, NumberIsInteger, StreamAssumption
<1>3. seq < FirstReceive + Window
  BY <1>1 DEF FirstInWindow
<1> HIDE DEF seq
<1>4. seq <= rx.gsnfr + Window /\ seq <= rx.gsnr + Window
  BY <1>1, <1>2, <1>3
<1>5. /\ seq <= rx.gsnfr => ~(seq >= rx.hold)
      /\ seq > rx.gsnfr => seq >= rx.hold
  BY <1>1, <1>2
<1> QED BY <1>2, <1>4, <1>5 DEF HoldAfter, seq

LEMMA HoldOver ==
  ASSUME NEW seq, rx.hold = 0
  PROVE  HoldAfter(seq) = 0
BY DEF HoldAfter

LEMMA HandlePacketStall ==
  ASSUME Inv, SharedQueue, FirstInWindow, NEW m \in Messages, HandlePacket(m)
  PROVE  StallInv'
<1> DEFINE seq == NumberWithHint(m.seq, rx.gsnr)
<1>1. /\ StallInv /\ CtlType /\ BurstType
      /\ DOMAIN tx = TxFields /\ DOMAIN rx = RxFields
  BY DEF Inv, TypeInv, BooksInv, Shape, RxInv, RxBounds, OtherType
<1>2. ctl.delegate /\ burst.pc = "idle"
  BY DEF HandlePacket, IgnorePacket, RejectPacket, DropData, AcceptPacket, MayCallBack
<1>3. CASE IgnorePacket(m)
  <2>1. /\ PacketIgnored(seq) /\ rx' = [rx EXCEPT !.hold = HoldAfter(seq)]
        /\ UNCHANGED <<ctl, tx, io, burst, posted, due>>
    BY <1>3 DEF IgnorePacket
  <2> HIDE DEF seq
  <2>2. HoldAfter(seq) = rx.hold
    <3>1. CASE rx.hold = 0
      BY <3>1, HoldOver
    <3>2. CASE rx.hold # 0
      <4>1. seq <= rx.gsnr + Window /\ (seq <= rx.gsnfr => HoldAfter(seq) = rx.hold) /\ seq \in Int
        BY <1>2, <3>2, HeldPacket DEF seq
      <4>2. rx.gsnr + Window \in Int
        BY StreamAssumption DEF Inv, TypeInv, RxInv, RxBounds
      <4> QED BY <2>1, <4>1, <4>2 DEF PacketIgnored
    <3> QED BY <3>1, <3>2
  <2>3. rx'.hold = rx.hold /\ rx'.gsnr = rx.gsnr /\ rx'.gsnfr = rx.gsnfr
    BY <1>1, <2>1, <2>2 DEF RxFields
  <2> QED BY <1>1, <2>1, <2>3, QuietStep DEF ToWrite, Live
<1>4. CASE RejectPacket(m)
  BY <1>1, <1>4, CancelStall DEF RejectPacket
<1>5. CASE DropData(m)
  <2>1. PICK good \in BOOLEAN : tx' = HandleAck(tx, rx, AckOf(m, seq), good)
    BY <1>5 DEF DropData
  <2>2. /\ ~PacketIgnored(seq) /\ rx' = [rx EXCEPT !.hold = HoldAfter(seq)]
        /\ seq \notin DOMAIN rx.pending => seq > rx.gsnfr + Window
        /\ UNCHANGED <<ctl, io, burst, posted, due>>
    BY <1>5 DEF DropData
  <2>3. Pursues(tx, tx')
    BY <1>1, <2>1, HandleAckPursues
  <2> HIDE DEF seq
  <2>4. rx.hold = 0
    <3> SUFFICES ASSUME rx.hold # 0 PROVE FALSE
      OBVIOUS
    <3>1. seq \in Int /\ seq <= rx.gsnfr + Window
      BY <1>2, HeldPacket DEF seq
    <3>2. rx.gsnfr \in Nat /\ rx.gsnr = rx.gsnfr /\ Window \in Nat
      BY <1>2, StreamAssumption DEF Inv, StallInv, HeldBack, TypeInv, RxInv, RxBounds
    <3>3. seq > rx.gsnfr
      BY <2>2, <3>1, <3>2 DEF PacketIgnored
    <3>4. seq \notin DOMAIN rx.pending
      BY <3>1, <3>2, <3>3 DEF Inv, TypeInv, RxInv, RxBounds
    <3> QED BY <2>2, <3>1, <3>2, <3>4
  <2>5. HeldBack'
    <3>1. rx'.hold = 0
      BY <1>1, <2>2, <2>4, HoldOver DEF RxFields
    <3> QED BY <3>1 DEF HeldBack
  <2> QED BY <1>1, <2>2, <2>3, <2>4, <2>5, PursuedStall
<1>6. CASE AcceptPacket(m)
  <2>1. PICK good \in BOOLEAN : tx' = HandleAck(tx, rx, AckOf(m, seq), good)
    BY <1>6 DEF AcceptPacket
  <2>2. /\ ~PacketIgnored(seq) /\ rx' = Deliver(Accepted(m, seq))
        /\ io' = IoAfter(Delivered(Accepted(m, seq)))
        /\ EnterSendNow(m.ar, HoldAfter(seq))
        /\ UNCHANGED <<ctl, posted>>
    BY <1>6 DEF AcceptPacket
  <2>3. Pursues(tx, tx')
    BY <1>1, <2>1, HandleAckPursues
  <2> HIDE DEF seq
  <2>4. HoldAfter(seq) = 0
    <3>1. CASE rx.hold = 0
      BY <3>1, HoldOver
    <3>2. CASE rx.hold # 0
      <4>1. seq \in Int /\ (seq > rx.gsnfr => HoldAfter(seq) = 0)
        BY <1>2, <3>2, HeldPacket DEF seq
      <4>2. rx.gsnfr \in Nat
        BY DEF Inv, TypeInv, RxInv, RxBounds
      <4> QED BY <2>2, <4>1, <4>2 DEF PacketIgnored
    <3> QED BY <3>1, <3>2
  <2>5. rx'.hold = 0
    <3>1. DOMAIN Accepted(m, seq) = RxFields /\ Accepted(m, seq).hold = 0
      BY <1>1, <2>4 DEF Accepted, RxFields
    <3> HIDE DEF Accepted
    <3>2. Deliver(Accepted(m, seq)).hold = 0
      BY <3>1 DEF Deliver, RxFields
    <3> QED BY <2>2, <3>2
  <2>6. burst'.pc = "begun" /\ due \subseteq due'
    <3>1. ~IsShutdown
      BY <1>1, <1>2 DEF StallInv, Live, IsShutdown
    <3> QED BY <1>1, <1>2, <2>2, <2>4, <3>1, EnteredOrOver
  <2>7. DOMAIN io' = IoFields
    BY <1>1, <2>2 DEF IoAfter, StallInv, IoFields
  <2>8. Moving' /\ HeldBack'
    BY <2>5, <2>6 DEF Moving, HeldBack
  <2>9. ctl'.delegate /\ tx'.forceID # 0 => tx'.forceID \in due'
    BY <1>1, <2>2, <2>3, <2>6 DEF StallInv, Pursues
  <2> QED BY <1>1, <2>2, <2>7, <2>8, <2>9 DEF StallInv, Live
<1> QED BY <1>3, <1>4, <1>5, <1>6 DEF HandlePacket

LEMMA HandleExternalAckStall ==
  ASSUME Inv, SharedQueue, NEW id, NEW a, HandleExternalAck(id, a)
  PROVE  StallInv'
<1> DEFINE t == ForgetForce(tx)
<1>1. /\ StallInv /\ CtlType /\ ctl.delegate
      /\ DOMAIN tx = TxFields /\ DOMAIN rx = RxFields
  BY DEF Inv, TypeInv, BooksInv, Shape, RxInv, RxBounds, OtherType, HandleExternalAck
<1>2. CASE AckIllegal(t, rx, a)
  <2>1. Cancel("IllegalStreamState")
    BY <1>2 DEF HandleExternalAck
  <2> QED BY <1>1, <2>1, CancelStall
<1>3. CASE ~AckIllegal(t, rx, a)
  <2>1. /\ rx' = [rx EXCEPT !.hold = HoldAfter(a.next)]
        /\ posted' = TRUE
        /\ due' = IF id = Indication THEN due ELSE due \ {id}
        /\ UNCHANGED <<ctl, io>>
    BY <1>3 DEF HandleExternalAck
  <2>2. PICK good \in BOOLEAN :
          tx' = [HandleForcedAck(HandleAck(t, rx, a, good), id) EXCEPT
                   !.timers = @ \ {"ensure"}]
    BY <1>3 DEF HandleExternalAck
  <2> DEFINE h == HandleAck(t, rx, a, good)
             f == HandleForcedAck(h, id)
  <2>3. Pursues(tx, t)
    BY <1>1, ForgetForcePursues
  <2> HIDE DEF t
  <2>4. Pursues(t, h) /\ (Sending(h) = {} => h.forceID = 0)
    <3>1. DOMAIN t = TxFields
      BY <2>3 DEF Pursues
    <3> QED BY <3>1, HandleAckPursues
  <2> HIDE DEF h
  <2>5. /\ DOMAIN f = TxFields
        /\ f.forceID = 0 \/ f.forceID = h.forceID
        /\ f.forceID = 0 \/ f.forceID # id \/ id = Indication
    <3>1. DOMAIN h = TxFields
      BY <2>4 DEF Pursues
    <3> QED BY <2>4, <3>1, HandleForcedAckForgets
  <2> HIDE DEF f
  <2>6. tx'.forceID = f.forceID
    BY <2>2, <2>5 DEF TxFields, h, f
  <2>7. tx'.forceID # 0 => tx'.forceID \in due'
    BY <1>1, <2>1, <2>3, <2>4, <2>5, <2>6 DEF Pursues, StallInv
  <2>8. HeldBack'
    <3>1. /\ rx'.hold = 0 \/ rx'.hold = rx.hold
          /\ rx'.gsnr = rx.gsnr /\ rx'.gsnfr = rx.gsnfr
      BY <1>1, <2>1 DEF HoldAfter, RxFields
    <3> QED BY <1>1, <2>1, <3>1 DEF StallInv, HeldBack
  <2>9. Moving'
    BY <2>1 DEF Moving, Awaited
  <2> QED BY <1>1, <2>1, <2>7, <2>8, <2>9 DEF StallInv, Live
<1> QED BY <1>2, <1>3

(* A step within a burst.                                                   *)
LEMMA BusyStep ==
  ASSUME StallInv, DOMAIN io' = DOMAIN io, ctl' = ctl, tx'.forceID = tx.forceID,
         rx' = rx, due' = due, burst'.pc \notin {"idle", "unwind"}
  PROVE  StallInv'
BY DEF StallInv, HeldBack, Moving, Live

(* What sendNowCleanup leaves behind.                                       *)
LEMMA CleanupFields ==
  ASSUME NEW t, DOMAIN t = TxFields, NEW id
  PROVE  LET u == Cleanup(t, id)
         IN  /\ Sending(u) = Sending(t) /\ u.timers = TimersAfter(t)
             /\ u.forceID = IF ForceRequired(t) THEN id
                            ELSE IF Sending(t) = {} THEN 0 ELSE t.forceID
<1> DEFINE f == ForgetForce(t)
           u == [f EXCEPT !.timers = TimersAfter(t)]
           v == [u EXCEPT !.forceID = id, !.forceSeq = t.next - 1, !.forceNext = FALSE]
<1>1. /\ DOMAIN f = TxFields /\ f.packets = t.packets
      /\ f.forceID = IF Sending(t) = {} THEN 0 ELSE t.forceID
  BY DEF ForgetForce, TxFields
<1> HIDE DEF f
<1>2. /\ DOMAIN u = TxFields /\ u.packets = t.packets /\ u.forceID = f.forceID
      /\ u.timers = TimersAfter(t)
  BY <1>1 DEF TxFields
<1> HIDE DEF u
<1>3. v.packets = t.packets /\ v.forceID = id /\ v.timers = TimersAfter(t)
  BY <1>2 DEF TxFields
<1>4. Cleanup(t, id) = IF ForceRequired(t) THEN v ELSE u
  BY DEF Cleanup, v, u, f
<1> HIDE DEF v
<1> QED BY <1>1, <1>2, <1>3, <1>4 DEF Sending

(* Who has work left after a burst has a timer or a forced ACK to wait for. *)
LEMMA WorkIsTimed ==
  ASSUME NEW t, Books(t), Sending(t) # {} \/ ToWrite
  PROVE  TimersAfter(t) \cap Movers # {} \/ ForceRequired(t) \/ t.forceID # 0
<1>1. CASE Sending(t) = {}
  <2>1. t.avail # 0
    BY <1>1 DEF Books, Shape, Balanced
  <2>2. "burst" \in TimersAfter(t)
    BY <1>1, <2>1 DEF TimersAfter, BurstRequired
  <2> QED BY <2>2 DEF Movers
<1>2. CASE Sending(t) # {} /\ RoomToSend(t)
  <2>1. "burst" \in TimersAfter(t)
    BY <1>2 DEF TimersAfter, BurstRequired, RoomToSend
  <2> QED BY <2>1 DEF Movers
<1>3. CASE Sending(t) # {} /\ ~RoomToSend(t) /\ ~Forcing(t)
  <2>1. "ensure" \in TimersAfter(t)
    BY <1>3 DEF TimersAfter, EnsureRequired
  <2> QED BY <2>1 DEF Movers
<1>4. CASE Forcing(t)
  BY <1>4 DEF Forcing
<1> QED BY <1>1, <1>2, <1>3, <1>4

LEMMA AfterBurstBooks ==
  ASSUME Inv
  PROVE  /\ DOMAIN AfterBurst = TxFields /\ AfterBurst.forceID = tx.forceID
         /\ ctl.delegate => Books(AfterBurst)
<1>1. Shape(tx) /\ (ctl.delegate => Books(tx))
  BY DEF Inv, TypeInv, BooksInv, Books
<1>2. CASE burst.last \in Sending(tx) \ tx.acked
  <2>1. AfterBurst = ConsumeBaton(tx, burst.last)
    BY <1>2 DEF AfterBurst
  <2>2. /\ DOMAIN ConsumeBaton(tx, burst.last) = TxFields
        /\ ConsumeBaton(tx, burst.last).forceID = tx.forceID
    BY <1>1 DEF ConsumeBaton, Shape, TxFields
  <2> QED BY <1>1, <1>2, <2>1, <2>2, ConsumeBatonBooks
<1>3. CASE burst.last \notin Sending(tx) \ tx.acked
  BY <1>1, <1>3 DEF AfterBurst, Shape
<1> QED BY <1>2, <1>3

LEMMA FinishBurstStall ==
  ASSUME Inv, FinishBurst
  PROVE  StallInv'
<1> DEFINE b == AfterBurst
<1>1. StallInv /\ CtlType /\ burst'.pc = "unwind"
  BY DEF Inv, TypeInv, OtherType, BurstType, IdleBurst, FinishBurst
<1>2. /\ DOMAIN b = TxFields /\ b.forceID = tx.forceID
      /\ ctl.delegate => Books(b)
  BY AfterBurstBooks
<1>3. ASSUME NEW id, ctl' = ctl, rx' = rx, io' = io, posted' = posted, due \subseteq due',
             tx' = Cleanup(b, id),
             IF ForceRequired(b) THEN id # 0 /\ id \in due' ELSE id = 0
      PROVE  StallInv'
  <2> HIDE DEF b
  <2>1. /\ Sending(tx') = Sending(b) /\ tx'.timers = TimersAfter(b)
        /\ tx'.forceID = IF ForceRequired(b) THEN id
                         ELSE IF Sending(b) = {} THEN 0 ELSE b.forceID
    BY <1>2, <1>3, CleanupFields
  <2>2. ctl'.delegate /\ tx'.forceID # 0 => tx'.forceID \in due'
    BY <1>1, <1>2, <1>3, <2>1 DEF StallInv
  <2>3. Moving'
    <3> SUFFICES ASSUME Live', WorkPending' PROVE Awaited'
      BY DEF Moving
    <3>1. ctl.delegate /\ Books(b)
      BY <1>1, <1>2, <1>3 DEF StallInv, Live
    <3>2. Sending(b) # {} \/ ToWrite
      BY <1>3, <2>1 DEF WorkPending, ToWrite
    <3>3. CASE TimersAfter(b) \cap Movers # {}
      BY <2>1, <3>3 DEF Awaited
    <3>4. CASE ForceRequired(b)
      BY <1>3, <3>4 DEF Awaited, Indication
    <3>5. CASE b.forceID # 0
      BY <1>1, <1>2, <1>3, <3>1, <3>5 DEF StallInv, Awaited, Indication
    <3> QED BY <3>1, <3>2, <3>3, <3>4, <3>5, WorkIsTimed
  <2>4. HeldBack'
    BY <1>1, <1>3 DEF StallInv, HeldBack
  <2> QED BY <1>1, <1>3, <2>2, <2>3, <2>4 DEF StallInv, Live
<1>4. CASE Cancel("None") \/ Cancel("DelegateGone")
  BY <1>1, <1>4, CancelStall
<1>5. CASE ~ForceRequired(b) /\ ~AllDataSent(b)
  <2>1. tx' = Cleanup(b, 0) /\ UNCHANGED <<ctl, rx, io, posted, due>>
    BY <1>5 DEF FinishBurst, b
  <2> HIDE DEF b
  <2> QED BY <1>3, <1>5, <2>1
<1>6. CASE ForceRequired(b) /\ ~AllDataSent(b) /\ ~ctl.delegate
  <2>1. ctl' = [ctl EXCEPT !.state = "Crashed"] /\ io' = io
    BY <1>6 DEF FinishBurst, b
  <2>2. ctl'.state = "Crashed" /\ ~ctl'.delegate
    BY <1>1, <1>6, <2>1 DEF CtlType
  <2>3. DOMAIN io' = IoFields /\ ~Live'
    BY <1>1, <2>1, <2>2 DEF StallInv, Live
  <2> QED BY <2>2, <2>3, OverStep
<1>7. CASE ForceRequired(b) /\ ~AllDataSent(b) /\ ctl.delegate
  <2>1. \/ \E id \in AckIds \ (due \cup {tx.forceID}) :
             /\ tx' = Cleanup(b, id) /\ due' = due \cup {id}
             /\ UNCHANGED <<ctl, rx, io, posted>>
        \/ Cancel("DelegateGone")
    BY <1>7 DEF FinishBurst, b
  <2> HIDE DEF b
  <2>2. ASSUME NEW id \in AckIds, tx' = Cleanup(b, id), due' = due \cup {id},
               UNCHANGED <<ctl, rx, io, posted>>
        PROVE  StallInv'
    <3>1. id # 0
      BY StreamAssumption
    <3> QED BY <1>3, <1>7, <2>2, <3>1
  <2> QED BY <1>4, <2>1, <2>2
<1>8. CASE AllDataSent(b)
  <2>1. Cancel("None")
    BY <1>8 DEF FinishBurst, b
  <2> QED BY <1>4, <2>1
<1> QED BY <1>5, <1>6, <1>7, <1>8

LEMMA SendNowStall ==
  ASSUME Inv, SendNow
  PROVE  StallInv'
<1>1. StallInv /\ CtlType /\ BurstType /\ DOMAIN tx = TxFields
  BY DEF Inv, TypeInv, BooksInv, Shape, OtherType
<1>2. CASE BeginBurst \/ PickResend \/ NothingToSend \/ SendPacket \/ SendFails
  <2>1. UNCHANGED <<ctl, tx, rx, io, due>>
    BY <1>2 DEF BeginBurst, PickResend, NothingToSend, SendPacket, SendFails
  <2>2. burst'.pc \notin {"idle", "unwind"}
    <3>1. CASE BeginBurst
      BY <1>1, <3>1 DEF BeginBurst, BurstType, IdleBurst
    <3>2. CASE PickResend
      BY <1>1, <3>2 DEF PickResend, BurstType, IdleBurst
    <3>3. CASE NothingToSend
      BY <1>1, <3>3 DEF NothingToSend, BurstType, IdleBurst
    <3>4. CASE SendPacket
      BY <1>1, <3>4 DEF SendPacket, BurstType, IdleBurst
    <3>5. CASE SendFails
      BY <1>1, <3>5 DEF SendFails, BurstType, IdleBurst
    <3> QED BY <1>2, <3>1, <3>2, <3>3, <3>4, <3>5
  <2> QED BY <1>1, <2>1, <2>2, BusyStep
<1>3. CASE CreatePacket
  <2>1. /\ io' = [io EXCEPT !.unread = Tail(@)] /\ UNCHANGED <<ctl, rx, due>>
        /\ burst'.pc = "picked" /\ tx'.forceID = tx.forceID
    BY <1>1, <1>3 DEF CreatePacket, BurstType, IdleBurst, TxFields
  <2>2. DOMAIN io' = DOMAIN io
    BY <2>1
  <2> QED BY <1>1, <2>1, <2>2, BusyStep
<1>4. CASE SendGone
  BY <1>1, <1>4, CancelStall DEF SendGone
<1>5. CASE AfterSend
  <2>1. UNCHANGED <<ctl, rx, io, due>> /\ burst'.pc \in {"finish", "loop"}
    BY <1>1, <1>5 DEF AfterSend, BurstType, IdleBurst
  <2>2. tx'.forceID = tx.forceID
    <3> DEFINE d == DoNotResend(tx, {burst.picked})
    <3>1. DOMAIN d = TxFields /\ d.forceID = tx.forceID
      BY <1>1 DEF DoNotResend, TxFields
    <3>2. tx' = [d EXCEPT !.forceNext = TRUE] \/ tx' = tx
      BY <1>5 DEF AfterSend
    <3> HIDE DEF d
    <3> QED BY <3>1, <3>2 DEF TxFields
  <2> QED BY <1>1, <2>1, <2>2, BusyStep
<1>6. CASE FinishBurst
  BY <1>6, FinishBurstStall
<1>7. CASE UnwindBurst
  <2>1. burst.pc = "unwind" /\ posted' = posted
    BY <1>7 DEF UnwindBurst
  <2>2. CASE Cancel("DelegateGone")
    BY <1>1, <2>2, CancelStall
  <2>3. CASE UNCHANGED <<ctl, tx, rx, io>> /\ due \subseteq due'
    <3>1. WorkPending' <=> WorkPending
      BY <2>3 DEF WorkPending, ToWrite
    <3>2. Awaited => Awaited'
      BY <2>1, <2>3 DEF Awaited
    <3>3. Moving'
      BY <1>1, <2>1, <2>3, <3>1, <3>2 DEF StallInv, Moving, Live
    <3> QED BY <1>1, <2>3, <3>3 DEF StallInv, HeldBack, Live
  <2> QED BY <1>7, <2>2, <2>3 DEF UnwindBurst
<1> QED BY <1>2, <1>3, <1>4, <1>5, <1>6, <1>7 DEF SendNow

LEMMA ApplicationStall ==
  ASSUME Inv, Application
  PROVE  StallInv'
<1>1. /\ StallInv /\ CtlType /\ DOMAIN io = IoFields
  BY DEF Inv, TypeInv, OtherType, StallInv
<1>2. CASE Write
  <2>1. /\ io' = [io EXCEPT !.written = @ + 1, !.unread = Append(@, io.written + 1)]
        /\ posted' = (posted \/ io.attached)
        /\ UNCHANGED <<ctl, tx, rx, burst, due>>
    BY <1>2 DEF Write
  <2>2. DOMAIN io' = DOMAIN io /\ io'.attached = io.attached
    BY <1>1, <2>1 DEF IoFields
  <2>3. ToWrite' => posted'
    BY <2>1, <2>2 DEF ToWrite
  <2> QED BY <1>1, <2>1, <2>2, <2>3, QuietStep DEF Live
<1>3. CASE SetStreams
  <2>1. /\ io' = [io EXCEPT !.attached = TRUE, !.kept = << >>,
                     !.delivered = IF "Receive" \in ctl.dirs THEN @ ELSE @ \o io.kept]
        /\ posted' = (posted \/ io.unread # << >>)
        /\ UNCHANGED <<ctl, tx, rx, burst, due>>
    BY <1>3 DEF SetStreams
  <2>2. DOMAIN io' = DOMAIN io /\ io'.unread = io.unread
    BY <1>1, <2>1 DEF IoFields
  <2>3. ToWrite' => posted'
    BY <2>1, <2>2 DEF ToWrite
  <2> QED BY <1>1, <2>1, <2>2, <2>3, QuietStep DEF Live
<1>4. CASE CheckShutdown
  <2>1. UNCHANGED <<ctl, tx, rx, io, burst, posted, due>>
    BY <1>4 DEF CheckShutdown
  <2> QED BY <1>1, <2>1, QuietStep DEF Live, ToWrite
<1>5. ASSUME NEW dirs, ShutdownDirection(dirs) PROVE StallInv'
  <2>1. ctl' = ShutDirections(dirs) /\ UNCHANGED <<tx, rx, io, burst, posted, due>>
    BY <1>5 DEF ShutdownDirection
  <2>2. Running
    BY <1>5 DEF ShutdownDirection
  <2>3. ctl'.delegate = ctl.delegate /\ (Live' <=> Live)
    <3>1. CASE IsShutdown \/ IsShuttingDown
      <4>1. ctl' = [ctl EXCEPT !.dirs = @ \cup dirs, !.state = @]
        BY <2>1, <3>1 DEF ShutDirections
      <4> QED BY <1>1, <4>1 DEF CtlType, Live
    <3>2. CASE ~(IsShutdown \/ IsShuttingDown)
      <4>1. ctl' = [ctl EXCEPT !.dirs = @ \cup dirs, !.state = "DirectionalShutdown"]
        BY <2>1, <3>2 DEF ShutDirections
      <4> QED BY <1>1, <2>2, <3>2, <4>1 DEF CtlType, Live, Running, IsShutdown
    <3> QED BY <3>1, <3>2
  <2> QED BY <1>1, <2>1, <2>3, QuietStep DEF ToWrite
<1>6. CASE ShutdownNow
  BY <1>1, <1>6, CancelStall DEF ShutdownNow
<1>7. CASE BeginShutdown
  <2>1. CASE ~ctl.delegate
    <3>1. ctl' = [ctl EXCEPT !.state = "Crashed"] /\ io' = io
      BY <1>7, <2>1 DEF BeginShutdown
    <3>2. ~Live' /\ ~ctl'.delegate
      BY <1>1, <2>1, <3>1 DEF CtlType, Live
    <3> QED BY <1>1, <3>1, <3>2, OverStep
  <2>2. CASE ctl.delegate /\ ~ToWrite /\ Sending(tx) = {}
    <3>1. /\ ctl' = [ctl EXCEPT !.state = "Shutdown", !.delegate = FALSE,
                                !.dirs = @ \cup {"Receive"}]
          /\ io' = io
      BY <1>7, <2>2 DEF BeginShutdown
    <3>2. ~Live' /\ ~ctl'.delegate
      BY <1>1, <3>1 DEF CtlType, Live
    <3> QED BY <1>1, <3>1, <3>2, OverStep
  <2>3. CASE ctl.delegate /\ ~(~ToWrite /\ Sending(tx) = {})
    <3>1. /\ ctl' = [ctl EXCEPT !.state = "ShuttingDown", !.dirs = @ \cup {"Receive"}]
          /\ UNCHANGED <<tx, rx, io, burst, posted, due>>
      BY <1>7, <2>3 DEF BeginShutdown
    <3>2. Live' /\ ctl'.delegate = ctl.delegate
      BY <1>1, <3>1 DEF CtlType, Live
    <3>3. Live
      BY <1>1, <2>3 DEF StallInv
    <3> QED BY <1>1, <3>1, <3>2, <3>3, QuietStep DEF ToWrite
  <2> QED BY <2>1, <2>2, <2>3
<1> QED BY <1>2, <1>3, <1>4, <1>5, <1>6, <1>7 DEF Application

LEMMA StallInvStep ==
  ASSUME Inv, SharedQueue, FirstInWindow, [Next]_vars
  PROVE  StallInv'
<1>1. CASE Callback
  BY <1>1, HandlePacketStall, HandleExternalAckStall, TimerStall DEF Callback
<1>2. CASE SendNow
  BY <1>2, SendNowStall
<1>3. CASE Application
  BY <1>3, ApplicationStall
<1>4. CASE SendIndication \/ UNCHANGED vars
  <2>1. /\ UNCHANGED <<ctl, tx, rx, io, burst, posted>>
        /\ due \ {Indication} \subseteq due'
    BY <1>4 DEF SendIndication, vars
  <2>2. StallInv
    BY DEF Inv
  <2> QED BY <2>1, <2>2, QuietStep DEF ToWrite, Live
<1> QED BY <1>1, <1>2, <1>3, <1>4 DEF Next

(* While the stream runs, does not hold sending and has something to send   *)
(* or unacknowledged, a burst, a posted sendNow, a timer or the answer to a *)
(* forced ACK will call sendNow again (sendNowCleanup sets the timers, and  *)
(* what handleAck undoes stops none that matters). All callbacks of the     *)
(* stream come from one queue, as RUDPChannel sets it up: on two threads    *)
(* the ensure timer may fire, and be spent, while mAttemptingSendNow is set.*)
(* And no packet reaches the end that holds sending from beyond its window: *)
(* that one would end the hold and be dropped before the sendNow which      *)
(* handlePacket calls last.                                                 *)
THEOREM SpecNeverStalled ==
  ASSUME SharedQueue, FirstInWindow
  PROVE  Spec => []NeverStalled
<1>1. Init => Inv
  BY TypeInvInit, StallInvInit DEF Inv
<1>2. Inv /\ [Next]_vars => Inv'
  <2> SUFFICES ASSUME Inv, [Next]_vars PROVE Inv'
    OBVIOUS
  <2>1. TypeInv'
    BY BooksInvStep, RxInvStep, OtherStep DEF Inv, TypeInv
  <2>2. StallInv'
    BY StallInvStep
  <2> QED BY <2>1, <2>2 DEF Inv
<1>3. Inv => NeverStalled
  <2> SUFFICES ASSUME Inv, Running, ~IsShutdown, WorkPending, rx.hold = 0, burst.pc = "idle"
               PROVE  Awaited
    BY DEF NeverStalled, Awaited, Movers
  <2>1. Live
    BY DEF Running, IsShutdown, Live
  <2> QED BY <2>1 DEF Inv, StallInv, Moving
<1> QED BY <1>1, <1>2, <1>3, PTL DEF Spec
-----------------------------------------------------------------------------
(* One end whose peer tells the truth. What follows holds at each end of a  *)
(* channel; RUDPChannelPairProofs puts two of them together.                *)
(*                                                                          *)
(* A history x gives for each packet of one direction the xor of the PS     *)
(* bits up to it: mXORedParityToNow of the sender. "top" is the number of   *)
(* the next packet of that direction.                                       *)

History == [Nat -> BOOLEAN]

Ps(x, s) == XOR(x[s], x[s - 1])

(* The same packets up to the top.                                          *)
Extends(x, y, top) == \A s \in 0..top - 1 : y[s] = x[s]

Heard(a) == DecodeVector(a.vector, a.gsnr, a.gsnfr)

(* The packets an ACK says have arrived above its GSNFR and below its GSNR. *)
Told(a) ==
  {s \in a.gsnfr + 1 .. a.gsnfr + Len(Heard(a)) : Heard(a)[s - a.gsnfr] \in Arrived}

OddIn(x, S) == Cardinality({s \in S : Ps(x, s)}) % 2 = 1

(* An ACK of packets that were sent, whose parities are those of the        *)
(* packets it names. F is the first number of the direction.                *)
Bounded(a, F, top) ==
  /\ a.gsnr \in Nat /\ a.gsnfr \in Nat
  /\ F - 1 <= a.gsnfr /\ a.gsnfr <= a.gsnr /\ a.gsnr < top

VectorHonest(a, x) ==
  /\ Heard(a) \in Seq(VectorStates)
  /\ Len(Heard(a)) < a.gsnr - a.gsnfr
  /\ a.vp = XOR(a.xp, OddIn(x, Told(a)))

Honest(a, F, top, x) ==
  /\ Bounded(a, F, top)
  /\ a.xp = x[a.gsnfr]
  /\ a.gsnr >= F => a.pg = Ps(x, a.gsnr)
  /\ a.gsnr # a.gsnfr => VectorHonest(a, x)

(* What a receiver r has.                                                   *)
Got(r, s) == s <= r.gsnfr \/ s \in DOMAIN r.pending

(* The receiver still has what the ACK told of, while it has its delegate   *)
(* (d); cancel() throws away what was not delivered.                        *)
Knows(a, r, d) ==
  /\ a.gsnfr <= r.gsnfr
  /\ d => /\ Got(r, a.gsnr)
          /\ a.gsnr # a.gsnfr => \A s \in Told(a) : Got(r, s)

Speaks(a, r, d, F, top, x) == Honest(a, F, top, x) /\ Knows(a, r, d)

(* A packet with the number s; the ACK it carries, once its numbers are     *)
(* expanded to g and f.                                                     *)
Is(m, s, F, x) == m.seq = LowBits(s) /\ m.ps = Ps(x, s) /\ m.data = s - F + 1

Genuine(m, F, top, x) == \E s \in F..top - 1 : Is(m, s, F, x)

AckIn(m, g, f) ==
  [gsnr |-> g, gsnfr |-> f, vector |-> m.vector, vp |-> m.vp, pg |-> m.pg, xp |-> m.xp]

Carries(m, r, d, F, top, x) ==
  \E g, f \in F - 1 .. top - 1 :
    /\ m.gsnr = LowBits(g) /\ m.gsnfr = LowBits(f)
    /\ Speaks(AckIn(m, g, f), r, d, F, top, x)

(* The numbers of a direction lie within half the modulus.                  *)
Near(F, top) == top \in Nat /\ F <= top /\ 2 * (top - F + 1) < SeqModulus

Count(n) == [i \in 1..n |-> i]

PacketFields ==
  {"seq", "ps", "ar", "gsnr", "gsnfr", "vector", "vp", "pg", "xp", "data", "xorNow"}

CtlHonest(c) ==
  /\ c.delegate <=> c.state \notin {"Shutdown", "Crashed"}
  /\ c.error # "IllegalStreamState"

(* mSendingPackets ends with the last packet sent.                          *)
UpToNext(t) == \A s \in Sending(t) : \A u \in s..t.next - 1 : u \in Sending(t)

SentAs(p, s, r, d, x, top, y) ==
  /\ DOMAIN p = PacketFields
  /\ p.xorNow = x[s]
  /\ Is(p, s, FirstSend, x)
  /\ Carries(p, r, d, FirstReceive, top, y)

TxHonest(t, r, d, x, top, y) ==
  /\ t.next \in Nat /\ FirstSend <= t.next
  /\ t.xorNow = x[t.next - 1]
  /\ Sending(t) \subseteq FirstSend..t.next - 1
  /\ UpToNext(t)
  /\ \A s \in Sending(t) : SentAs(t.packets[s], s, r, d, x, top, y)

(* What was received is what was sent.                                      *)
RxHonest(r, d, top, y) ==
  /\ DOMAIN r = RxFields
  /\ r.gsnr \in Nat /\ r.gsnfr \in Nat
  /\ FirstReceive - 1 <= r.gsnfr /\ r.gsnfr <= r.gsnr /\ r.gsnr < top
  /\ \A s \in DOMAIN r.pending :
       /\ s \in Nat /\ r.gsnfr < s /\ s <= r.gsnr
       /\ r.pending[s] = [ps |-> Ps(y, s), data |-> s - FirstReceive + 1]
  /\ d /\ r.gsnr # r.gsnfr => r.gsnr \in DOMAIN r.pending
  /\ r.xorFull = y[r.gsnfr]
  /\ r.gsnr >= FirstReceive => r.gsnrParity = Ps(y, r.gsnr)

(* What waits to be sent follows what was sent, unless cancel() has thrown  *)
(* it away.                                                                 *)
UnreadFollows(c, t, o) ==
  \/ o.unread = [i \in 1..o.written - (t.next - FirstSend) |-> t.next - FirstSend + i]
  \/ o.unread = << >> /\ o.attached /\ c.state \in {"Shutdown", "Crashed"}

(* What was received in order was handed to the application, or is kept for *)
(* it; the rest was dropped because the direction was shut down.            *)
HandedOver(c, r, o) ==
  LET k == r.gsnfr - FirstReceive + 1
  IN  /\ \E n \in 0..k : o.delivered = Count(n)
      /\ ~o.attached => o.delivered = << >>
      /\ o.attached => o.kept = << >>
      /\ "Receive" \notin c.dirs =>
           IF o.attached THEN o.delivered = Count(k) ELSE o.kept = Count(k)

IoHonest(c, t, r, o) ==
  /\ DOMAIN o = IoFields
  /\ o.written \in Nat /\ t.next - FirstSend <= o.written /\ o.written <= MaxUnits
  /\ StreamsGiven => o.attached
  /\ UnreadFollows(c, t, o)
  /\ HandedOver(c, r, o)

(* The vector of a burst in progress, with the numbers of the moment.       *)
BurstAck(b, r) ==
  [gsnr |-> r.gsnr, gsnfr |-> r.gsnfr, vector |-> b.vector, vp |-> b.vp,
   pg |-> r.gsnrParity, xp |-> r.xorFull]

BurstHonest(b, t, r, d, x, top, y) ==
  /\ DOMAIN b = DOMAIN IdleBurst
  /\ b.first # NoPacket => /\ b.pc # "idle"
                           /\ Speaks(BurstAck(b, r), r, d, FirstReceive, top, y)
  /\ b.pc = "picked" => /\ Genuine(b.message, FirstSend, t.next, x)
                        /\ Carries(b.message, r, d, FirstReceive, top, y)

WireHonest(w, t, r, d, x, top, y) ==
  \A m \in w : /\ Genuine(m, FirstSend, t.next, x)
               /\ Carries(m, r, d, FirstReceive, top, y)

(* x is the history of what this end sends, y of what its peer sends, of    *)
(* which top is the next.                                                   *)
EndInv(c, t, r, o, b, w, x, top, y) ==
  /\ CtlHonest(c)
  /\ TxHonest(t, r, c.delegate, x, top, y)
  /\ RxHonest(r, c.delegate, top, y)
  /\ IoHonest(c, t, r, o)
  /\ BurstHonest(b, t, r, c.delegate, x, top, y)
  /\ WireHonest(w, t, r, c.delegate, x, top, y)

(* What the sender t forgot the other end, r, has delivered; what t only    *)
(* freed r has. Neither is asked of an end without its delegate (d of the   *)
(* sender, e of the receiver).                                              *)
Believes(t, d, r, e) ==
  d => \A s \in FirstSend..t.next - 1 :
         /\ s \notin Sending(t) => s <= r.gsnfr
         /\ e /\ s \in t.acked => Got(r, s)
-----------------------------------------------------------------------------
(* What was true of a history stays true as it grows.                       *)

Later(top, x, top1, x1) ==
  /\ top \in Nat /\ top1 \in Nat /\ top <= top1
  /\ x \in History /\ x1 \in History /\ Extends(x, x1, top)

(* A receiver that only takes in, or loses its delegate.                    *)
Grows(r, d, r1, d1) ==
  /\ r.gsnfr \in Nat /\ r1.gsnfr \in Nat /\ r.gsnfr <= r1.gsnfr
  /\ d1 => d /\ \A s \in Nat : Got(r, s) => Got(r1, s)

LEMMA PsLater ==
  ASSUME NEW top, NEW x, NEW top1, NEW x1, Later(top, x, top1, x1),
         NEW s \in Nat \ {0}, s < top
  PROVE  Ps(x1, s) = Ps(x, s) /\ x1[s] = x[s] /\ x1[s - 1] = x[s - 1]
<1>1. s \in 0..top - 1 /\ s - 1 \in 0..top - 1
  BY DEF Later
<1>2. x1[s] = x[s] /\ x1[s - 1] = x[s - 1]
  BY <1>1 DEF Later, Extends
<1> QED BY <1>2 DEF Ps

LEMMA ToldBelow ==
  ASSUME NEW a, NEW F \in Nat \ {0}, NEW top, Bounded(a, F, top),
         NEW x, VectorHonest(a, x)
  PROVE  Told(a) \subseteq F..a.gsnr - 1
<1>1. Len(Heard(a)) \in Nat
  <2>1. Heard(a) \in Seq(VectorStates)
    BY DEF VectorHonest
  <2> QED BY <2>1
<1>2. a.gsnfr + Len(Heard(a)) <= a.gsnr - 1 /\ F <= a.gsnfr + 1
  BY <1>1 DEF VectorHonest, Bounded
<1> QED BY <1>1, <1>2 DEF Told, Bounded

LEMMA HonestLater ==
  ASSUME NEW top, NEW x, NEW top1, NEW x1, Later(top, x, top1, x1),
         NEW a, NEW F \in Nat \ {0}, Honest(a, F, top, x)
  PROVE  Honest(a, F, top1, x1)
<1>1. Bounded(a, F, top) /\ Bounded(a, F, top1)
  BY DEF Honest, Bounded, Later
<1>2. a.xp = x1[a.gsnfr]
  <2>1. a.gsnfr \in 0..top - 1
    BY <1>1 DEF Bounded, Later
  <2> QED BY <2>1 DEF Honest, Later, Extends
<1>3. a.gsnr >= F => a.pg = Ps(x1, a.gsnr)
  <2> SUFFICES ASSUME a.gsnr >= F PROVE a.pg = Ps(x1, a.gsnr)
    OBVIOUS
  <2>1. a.gsnr \in Nat \ {0} /\ a.gsnr < top
    BY <1>1 DEF Bounded
  <2>2. Ps(x1, a.gsnr) = Ps(x, a.gsnr)
    BY <2>1, PsLater
  <2> QED BY <2>2 DEF Honest
<1>4. ASSUME a.gsnr # a.gsnfr PROVE VectorHonest(a, x1)
  <2>1. VectorHonest(a, x)
    BY <1>4 DEF Honest
  <2>2. Told(a) \subseteq F..a.gsnr - 1
    BY <1>1, <2>1, ToldBelow
  <2>3. ASSUME NEW s \in Told(a) PROVE Ps(x1, s) = Ps(x, s)
    <3>1. s \in Nat \ {0} /\ s < top
      BY <1>1, <2>2 DEF Bounded, Later
    <3> QED BY <3>1, PsLater
  <2>4. {s \in Told(a) : Ps(x1, s)} = {s \in Told(a) : Ps(x, s)}
    BY <2>3
  <2>5. OddIn(x1, Told(a)) = OddIn(x, Told(a))
    BY <2>4 DEF OddIn
  <2> QED BY <2>1, <2>5 DEF VectorHonest
<1> QED BY <1>1, <1>2, <1>3, <1>4 DEF Honest

LEMMA SpeaksLater ==
  ASSUME NEW top, NEW x, NEW top1, NEW x1, Later(top, x, top1, x1),
         NEW r, NEW d, NEW r1, NEW d1, Grows(r, d, r1, d1),
         NEW a, NEW F \in Nat \ {0}, Speaks(a, r, d, F, top, x)
  PROVE  Speaks(a, r1, d1, F, top1, x1)
<1>1. Honest(a, F, top1, x1)
  BY HonestLater DEF Speaks
<1>2. Bounded(a, F, top)
  BY DEF Speaks, Honest
<1>3. a.gsnfr <= r1.gsnfr
  BY <1>2 DEF Speaks, Knows, Grows, Bounded
<1>4. ASSUME d1 PROVE Got(r1, a.gsnr)
  <2>1. Got(r, a.gsnr) /\ a.gsnr \in Nat
    BY <1>2, <1>4 DEF Grows, Speaks, Knows, Bounded
  <2> QED BY <1>4, <2>1 DEF Grows
<1>5. ASSUME d1, a.gsnr # a.gsnfr, NEW s \in Told(a) PROVE Got(r1, s)
  <2>1. VectorHonest(a, x)
    BY <1>5 DEF Speaks, Honest
  <2>2. s \in Nat
    BY <1>2, <2>1, ToldBelow DEF Bounded
  <2>3. Got(r, s)
    BY <1>5 DEF Speaks, Knows, Grows
  <2> QED BY <1>5, <2>2, <2>3 DEF Grows
<1> QED BY <1>1, <1>3, <1>4, <1>5 DEF Speaks, Knows

LEMMA CarriesLater ==
  ASSUME NEW top, NEW x, NEW top1, NEW x1, Later(top, x, top1, x1),
         NEW r, NEW d, NEW r1, NEW d1, Grows(r, d, r1, d1),
         NEW m, NEW F \in Nat \ {0}, Carries(m, r, d, F, top, x)
  PROVE  Carries(m, r1, d1, F, top1, x1)
<1>1. PICK g \in F - 1 .. top - 1, f \in F - 1 .. top - 1 :
        /\ m.gsnr = LowBits(g) /\ m.gsnfr = LowBits(f)
        /\ Speaks(AckIn(m, g, f), r, d, F, top, x)
  BY DEF Carries
<1>2. Speaks(AckIn(m, g, f), r1, d1, F, top1, x1)
  BY <1>1, SpeaksLater
<1>3. g \in F - 1 .. top1 - 1 /\ f \in F - 1 .. top1 - 1
  BY DEF Later
<1> QED BY <1>1, <1>2, <1>3 DEF Carries

LEMMA GenuineLater ==
  ASSUME NEW top, NEW x, NEW top1, NEW x1, Later(top, x, top1, x1),
         NEW m, NEW F \in Nat \ {0}, Genuine(m, F, top, x)
  PROVE  Genuine(m, F, top1, x1)
<1>1. PICK s \in F..top - 1 : Is(m, s, F, x)
  BY DEF Genuine
<1>2. s \in Nat \ {0} /\ s < top /\ s \in F..top1 - 1
  BY DEF Later
<1>3. Is(m, s, F, x1)
  BY <1>1, <1>2, PsLater DEF Is
<1> QED BY <1>2, <1>3 DEF Genuine

(* What two records of the sender, or of the receiver, have in common.      *)
SameTx(t, u) ==
  u.next = t.next /\ u.xorNow = t.xorNow /\ u.packets = t.packets

SameRx(r, u) ==
  /\ DOMAIN u = DOMAIN r /\ u.gsnr = r.gsnr /\ u.gsnfr = r.gsnfr
  /\ u.pending = r.pending /\ u.xorFull = r.xorFull /\ u.gsnrParity = r.gsnrParity

LEMMA GrowsSame ==
  ASSUME NEW r, NEW u, NEW d, SameRx(r, u), r.gsnfr \in Nat
  PROVE  Grows(r, d, u, d)
BY DEF Grows, SameRx, Got

LEMMA LaterSame ==
  ASSUME NEW top \in Nat, NEW x \in History
  PROVE  Later(top, x, top, x)
BY DEF Later, Extends

LEMMA SentLater ==
  ASSUME NEW n, NEW x, NEW n1, NEW x1, Later(n, x, n1, x1),
         NEW top, NEW y, NEW top1, NEW y1, Later(top, y, top1, y1),
         NEW r, NEW d, NEW r1, NEW d1, Grows(r, d, r1, d1),
         NEW p, NEW s \in FirstSend..n - 1, SentAs(p, s, r, d, x, top, y)
  PROVE  SentAs(p, s, r1, d1, x1, top1, y1)
<1>1. s \in Nat \ {0} /\ s < n
  BY StreamAssumption DEF Later
<1>2. Ps(x1, s) = Ps(x, s) /\ x1[s] = x[s]
  BY <1>1, PsLater
<1>3. Carries(p, r1, d1, FirstReceive, top1, y1)
  BY CarriesLater, StreamAssumption DEF SentAs
<1> QED BY <1>2, <1>3 DEF SentAs, Is

LEMMA TxLater ==
  ASSUME NEW top, NEW y, NEW top1, NEW y1, Later(top, y, top1, y1),
         NEW r, NEW d, NEW r1, NEW d1, Grows(r, d, r1, d1),
         NEW t, NEW u, SameTx(t, u), NEW x \in History, TxHonest(t, r, d, x, top, y)
  PROVE  TxHonest(u, r1, d1, x, top1, y1)
<1>1. /\ u.next = t.next /\ u.xorNow = t.xorNow /\ u.packets = t.packets
      /\ Sending(u) = Sending(t)
  BY DEF SameTx, Sending
<1>2. Later(t.next, x, t.next, x)
  BY LaterSame DEF TxHonest
<1>3. ASSUME NEW s \in Sending(u)
      PROVE  SentAs(u.packets[s], s, r1, d1, x, top1, y1)
  <2>1. s \in FirstSend..t.next - 1 /\ SentAs(u.packets[s], s, r, d, x, top, y)
    BY <1>1, <1>3 DEF TxHonest
  <2> QED BY <1>2, <2>1, SentLater
<1>4. UpToNext(u)
  BY <1>1 DEF TxHonest, UpToNext
<1> QED BY <1>1, <1>3, <1>4 DEF TxHonest

LEMMA WireLater ==
  ASSUME NEW t, NEW x, NEW t1, NEW x1, Later(t.next, x, t1.next, x1),
         NEW top, NEW y, NEW top1, NEW y1, Later(top, y, top1, y1),
         NEW r, NEW d, NEW r1, NEW d1, Grows(r, d, r1, d1),
         NEW w, WireHonest(w, t, r, d, x, top, y)
  PROVE  WireHonest(w, t1, r1, d1, x1, top1, y1)
<1> SUFFICES ASSUME NEW m \in w
             PROVE  /\ Genuine(m, FirstSend, t1.next, x1)
                    /\ Carries(m, r1, d1, FirstReceive, top1, y1)
  BY DEF WireHonest
<1>1. /\ Genuine(m, FirstSend, t.next, x)
      /\ Carries(m, r, d, FirstReceive, top, y)
  BY DEF WireHonest
<1>2. FirstSend \in Nat \ {0} /\ FirstReceive \in Nat \ {0}
  BY StreamAssumption
<1>3. Genuine(m, FirstSend, t1.next, x1)
  BY <1>1, <1>2, GenuineLater
<1> QED BY <1>1, <1>2, <1>3, CarriesLater

(* A burst goes on; the receiver's numbers are the same.                    *)
LEMMA BurstLater ==
  ASSUME NEW t, NEW x, NEW t1, NEW x1, Later(t.next, x, t1.next, x1),
         NEW top, NEW y, NEW top1, NEW y1, Later(top, y, top1, y1),
         NEW r, NEW d, NEW r1, NEW d1, Grows(r, d, r1, d1),
         r1.gsnr = r.gsnr, r1.gsnfr = r.gsnfr,
         r1.gsnrParity = r.gsnrParity, r1.xorFull = r.xorFull,
         NEW b, BurstHonest(b, t, r, d, x, top, y)
  PROVE  BurstHonest(b, t1, r1, d1, x1, top1, y1)
<1>1. FirstSend \in Nat \ {0} /\ FirstReceive \in Nat \ {0}
  BY StreamAssumption
<1>2. BurstAck(b, r1) = BurstAck(b, r)
  BY DEF BurstAck
<1>3. ASSUME b.first # NoPacket
      PROVE  b.pc # "idle" /\ Speaks(BurstAck(b, r1), r1, d1, FirstReceive, top1, y1)
  <2>1. b.pc # "idle" /\ Speaks(BurstAck(b, r1), r, d, FirstReceive, top, y)
    BY <1>2, <1>3 DEF BurstHonest
  <2> QED BY <1>1, <2>1, SpeaksLater
<1>4. ASSUME b.pc = "picked"
      PROVE  /\ Genuine(b.message, FirstSend, t1.next, x1)
             /\ Carries(b.message, r1, d1, FirstReceive, top1, y1)
  <2>1. /\ Genuine(b.message, FirstSend, t.next, x)
        /\ Carries(b.message, r, d, FirstReceive, top, y)
    BY <1>4 DEF BurstHonest
  <2>2. Genuine(b.message, FirstSend, t1.next, x1)
    BY <1>1, <2>1, GenuineLater
  <2> QED BY <1>1, <2>1, <2>2, CarriesLater
<1>5. DOMAIN b = DOMAIN IdleBurst
  BY DEF BurstHonest
<1> QED BY <1>3, <1>4, <1>5 DEF BurstHonest

LEMMA RxLater ==
  ASSUME NEW top, NEW y, NEW top1, NEW y1, Later(top, y, top1, y1),
         NEW r, NEW u, SameRx(r, u), NEW d, RxHonest(r, d, top, y)
  PROVE  RxHonest(u, d, top1, y1)
<1>1. /\ DOMAIN u = RxFields
      /\ u.gsnr \in Nat /\ u.gsnfr \in Nat
      /\ FirstReceive - 1 <= u.gsnfr /\ u.gsnfr <= u.gsnr /\ u.gsnr < top1
      /\ u.gsnr < top /\ FirstReceive \in Nat \ {0}
      /\ d /\ u.gsnr # u.gsnfr => u.gsnr \in DOMAIN u.pending
  BY StreamAssumption DEF RxHonest, SameRx, Later
<1>2. ASSUME NEW s \in DOMAIN u.pending
      PROVE  /\ s \in Nat /\ u.gsnfr < s /\ s <= u.gsnr
             /\ u.pending[s] = [ps |-> Ps(y1, s), data |-> s - FirstReceive + 1]
  <2>1. /\ s \in Nat /\ u.gsnfr < s /\ s <= u.gsnr
        /\ u.pending[s] = [ps |-> Ps(y, s), data |-> s - FirstReceive + 1]
    BY <1>2 DEF RxHonest, SameRx
  <2>2. s \in Nat \ {0} /\ s < top
    BY <1>1, <2>1 DEF Later
  <2>3. Ps(y1, s) = Ps(y, s)
    BY <2>2, PsLater
  <2> QED BY <2>1, <2>3
<1>3. u.xorFull = y1[u.gsnfr]
  <2>1. u.gsnfr \in 0..top - 1
    BY <1>1 DEF Later
  <2> QED BY <2>1 DEF RxHonest, SameRx, Later, Extends
<1>4. ASSUME u.gsnr >= FirstReceive PROVE u.gsnrParity = Ps(y1, u.gsnr)
  <2>1. u.gsnr \in Nat \ {0}
    BY <1>1, <1>4
  <2>2. Ps(y1, u.gsnr) = Ps(y, u.gsnr)
    BY <1>1, <2>1, PsLater
  <2> QED BY <1>4, <2>2 DEF RxHonest, SameRx
<1> QED BY <1>1, <1>2, <1>3, <1>4 DEF RxHonest

(* The direction of the peer goes on; this end is as it was.                *)
LEMMA EndLater ==
  ASSUME NEW top, NEW y, NEW top1, NEW y1, Later(top, y, top1, y1),
         NEW c, NEW t, NEW r, NEW o, NEW b, NEW w, NEW x \in History,
         EndInv(c, t, r, o, b, w, x, top, y)
  PROVE  EndInv(c, t, r, o, b, w, x, top1, y1)
<1> DEFINE d == c.delegate
<1>1. /\ TxHonest(t, r, d, x, top, y) /\ RxHonest(r, d, top, y)
      /\ BurstHonest(b, t, r, d, x, top, y) /\ WireHonest(w, t, r, d, x, top, y)
      /\ CtlHonest(c) /\ IoHonest(c, t, r, o)
  BY DEF EndInv
<1> HIDE DEF d
<1>2. SameTx(t, t) /\ SameRx(r, r)
  BY DEF SameTx, SameRx
<1>3. Grows(r, d, r, d)
  BY <1>1, <1>2, GrowsSame DEF RxHonest
<1>4. Later(t.next, x, t.next, x)
  BY <1>1, LaterSame DEF TxHonest
<1>5. TxHonest(t, r, d, x, top1, y1)
  BY <1>1, <1>2, <1>3, TxLater
<1>6. RxHonest(r, d, top1, y1)
  BY <1>1, <1>2, RxLater
<1>7. BurstHonest(b, t, r, d, x, top1, y1)
  BY <1>1, <1>3, <1>4, BurstLater
<1>8. WireHonest(w, t, r, d, x, top1, y1)
  BY <1>1, <1>3, <1>4, WireLater
<1> QED BY <1>1, <1>5, <1>6, <1>7, <1>8 DEF EndInv, d

-----------------------------------------------------------------------------
(* What an end does of itself.                                              *)

(* The sender forgets nothing that was not acknowledged.                    *)
KeepsSending(t, d, u, d1) ==
  d1 => /\ d
        /\ \A s \in FirstSend..u.next - 1 :
             s \notin Sending(u) => s < t.next /\ s \notin Sending(t)
        /\ u.acked \subseteq t.acked

LEMMA BelievesOn ==
  ASSUME NEW t, NEW d, NEW u, NEW d1, KeepsSending(t, d, u, d1),
         NEW r, NEW e, Believes(t, d, r, e), t.next \in Nat,
         u.acked \subseteq FirstSend..u.next - 1, t.acked \subseteq FirstSend..t.next - 1
  PROVE  Believes(u, d1, r, e)
BY StreamAssumption DEF KeepsSending, Believes

(* The steps of this end: its history may grow, its peer's does not.        *)
OwnMove(x, x1, top, y) ==
  /\ Later(tx.next, x, tx'.next, x1)
  /\ EndInv(ctl', tx', rx', io', burst', wire', x1, top, y)
  /\ Grows(rx, ctl.delegate, rx', ctl'.delegate)
  /\ KeepsSending(tx, ctl.delegate, tx', ctl'.delegate)

Own(x, top, y) ==
  /\ BooksInv
  /\ EndInv(ctl, tx, rx, io, burst, wire, x, top, y)
  /\ x \in History /\ y \in History /\ top \in Nat

LEMMA OwnParts ==
  ASSUME NEW x, NEW top, NEW y, Own(x, top, y)
  PROVE  /\ CtlHonest(ctl)
         /\ TxHonest(tx, rx, ctl.delegate, x, top, y)
         /\ RxHonest(rx, ctl.delegate, top, y)
         /\ IoHonest(ctl, tx, rx, io)
         /\ BurstHonest(burst, tx, rx, ctl.delegate, x, top, y)
         /\ WireHonest(wire, tx, rx, ctl.delegate, x, top, y)
         /\ tx.next \in Nat /\ x \in History /\ y \in History /\ top \in Nat
         /\ Later(tx.next, x, tx.next, x) /\ Later(top, y, top, y)
         /\ BooksInv
BY LaterSame DEF Own, EndInv, TxHonest

(* The numbers stay, and so does what the application sees.                 *)
LEMMA IoSame ==
  ASSUME NEW c, NEW t, NEW r, NEW o, IoHonest(c, t, r, o),
         NEW t1, SameTx(t, t1), NEW r1, r1.gsnfr = r.gsnfr
  PROVE  IoHonest(c, t1, r1, o)
BY DEF IoHonest, UnreadFollows, HandedOver, SameTx

LEMMA SameSending ==
  ASSUME NEW t, NEW u, SameTx(t, u), u.acked \subseteq t.acked,
         t.next \in Nat, NEW d
  PROVE  KeepsSending(t, d, u, d)
BY StreamAssumption DEF SameTx, KeepsSending, Sending

(* A step that touches neither the packets sent nor those received.         *)
LEMMA QuietMove ==
  ASSUME NEW x, NEW top, NEW y, Own(x, top, y),
         SameTx(tx, tx'), tx'.acked \subseteq tx.acked, SameRx(rx, rx'),
         ctl' = ctl, io' = io, wire' = wire,
         BurstHonest(burst', tx, rx, ctl.delegate, x, top, y)
  PROVE  OwnMove(x, x, top, y)
<1> DEFINE d == ctl.delegate
<1>1. /\ CtlHonest(ctl)
      /\ TxHonest(tx, rx, d, x, top, y) /\ RxHonest(rx, d, top, y)
      /\ IoHonest(ctl, tx, rx, io) /\ WireHonest(wire, tx, rx, d, x, top, y)
      /\ tx.next \in Nat /\ x \in History /\ rx.gsnfr \in Nat
      /\ Later(tx.next, x, tx.next, x) /\ Later(top, y, top, y)
  BY OwnParts DEF RxHonest
<1> HIDE DEF d
<1>2. /\ tx'.next = tx.next /\ rx'.gsnr = rx.gsnr /\ rx'.gsnfr = rx.gsnfr
      /\ rx'.gsnrParity = rx.gsnrParity /\ rx'.xorFull = rx.xorFull
  BY DEF SameTx, SameRx
<1>3. Later(tx.next, x, tx'.next, x)
  BY <1>1, <1>2
<1>4. Grows(rx, d, rx', d)
  BY <1>1, GrowsSame
<1>5. TxHonest(tx', rx', d, x, top, y)
  BY <1>1, <1>4, TxLater
<1>6. RxHonest(rx', d, top, y)
  BY <1>1, RxLater
<1>7. IoHonest(ctl, tx', rx', io)
  BY <1>1, <1>2, IoSame
<1>8. BurstHonest(burst', tx', rx', d, x, top, y)
  BY <1>1, <1>2, <1>3, <1>4, BurstLater DEF d
<1>9. WireHonest(wire, tx', rx', d, x, top, y)
  BY <1>1, <1>3, <1>4, WireLater
<1>10. KeepsSending(tx, d, tx', d)
  BY <1>1, SameSending
<1>11. EndInv(ctl, tx', rx', io, burst', wire, x, top, y)
  BY <1>1, <1>5, <1>6, <1>7, <1>8, <1>9 DEF EndInv, d
<1> QED BY <1>3, <1>4, <1>10, <1>11 DEF OwnMove, d

(* A burst that has no packet to send now.                                  *)
LEMMA BurstOn ==
  ASSUME NEW b, NEW t, NEW r, NEW d, NEW x, NEW top, NEW y,
         BurstHonest(b, t, r, d, x, top, y),
         NEW b1, DOMAIN b1 = DOMAIN b, b1.pc # "picked",
         \/ b1.first = NoPacket
         \/ /\ b1.first = b.first /\ b1.vector = b.vector /\ b1.vp = b.vp
            /\ b1.pc # "idle"
  PROVE  BurstHonest(b1, t, r, d, x, top, y)
BY DEF BurstHonest, BurstAck

LEMMA EnterSendNowHonest ==
  ASSUME NEW x, NEW top, NEW y, Own(x, top, y), NEW ext, NEW hold,
         EnterSendNow(ext, hold)
  PROVE  /\ BurstHonest(burst', tx, rx, ctl.delegate, x, top, y)
         /\ burst.pc = "idle" => burst'.first = NoPacket /\ burst'.pc # "picked"
         /\ DOMAIN burst' = DOMAIN IdleBurst
<1>1. BurstHonest(burst, tx, rx, ctl.delegate, x, top, y) /\ DOMAIN burst = DOMAIN IdleBurst
  BY OwnParts DEF BurstHonest
<1>2. CASE burst' = burst
  BY <1>1, <1>2 DEF BurstHonest
<1>3. CASE burst' = [IdleBurst EXCEPT !.pc = "begun", !.ext = ext]
  <2>1. /\ DOMAIN burst' = DOMAIN IdleBurst /\ burst'.first = NoPacket
        /\ burst'.pc = "begun"
    BY <1>3 DEF IdleBurst
  <2> QED BY <1>1, <2>1, BurstOn
<1> QED BY <1>2, <1>3 DEF EnterSendNow

(* Timers, and the calls that are posted.                                   *)
LEMMA TimerMove ==
  ASSUME NEW x, NEW top, NEW y, Own(x, top, y),
         OnBurstTimer \/ OnEnsureTimer \/ OnAddTimer \/ OnSendNow
  PROVE  OwnMove(x, x, top, y)
<1>1. DOMAIN tx = TxFields
  BY DEF Own, BooksInv, Shape
<1>2. SameTx(tx, tx') /\ tx'.acked = tx.acked
  BY <1>1 DEF SameTx, TxFields, OnBurstTimer, OnEnsureTimer, OnAddTimer, OnSendNow
<1>3. rx' = rx /\ ctl' = ctl /\ io' = io /\ wire' = wire /\ EnterSendNow(FALSE, rx.hold)
  BY DEF OnBurstTimer, OnEnsureTimer, OnAddTimer, OnSendNow
<1>4. SameRx(rx, rx')
  BY <1>3 DEF SameRx
<1> QED BY <1>2, <1>3, <1>4, EnterSendNowHonest, QuietMove

(* The steps of a burst that neither make nor send a packet.                *)
LEMMA LoopMove ==
  ASSUME NEW x, NEW top, NEW y, Own(x, top, y),
         BeginBurst \/ NothingToSend \/ SendFails \/ AfterSend
  PROVE  OwnMove(x, x, top, y)
<1>1. /\ DOMAIN tx = TxFields /\ DOMAIN burst = DOMAIN IdleBurst
      /\ BurstHonest(burst, tx, rx, ctl.delegate, x, top, y)
  BY OwnParts DEF Own, BooksInv, Shape, BurstHonest
<1>2. SameTx(tx, tx') /\ tx'.acked = tx.acked
  <2>1. CASE tx' = tx
    BY <2>1 DEF SameTx
  <2>2. CASE tx' = [DoNotResend(tx, {burst.picked}) EXCEPT !.forceNext = TRUE]
    BY <1>1, <2>2 DEF SameTx, TxFields, DoNotResend
  <2> QED BY <2>1, <2>2 DEF BeginBurst, NothingToSend, SendFails, AfterSend
<1>3. rx' = rx /\ ctl' = ctl /\ io' = io /\ wire' = wire
  BY DEF BeginBurst, NothingToSend, SendFails, AfterSend
<1>4. /\ DOMAIN burst' = DOMAIN burst /\ burst'.pc \in {"finish", "loop"}
      /\ burst'.first \in {NoPacket, burst.first}
      /\ burst'.vector = burst.vector /\ burst'.vp = burst.vp
  BY <1>1 DEF BeginBurst, NothingToSend, SendFails, AfterSend, IdleBurst
<1>5. BurstHonest(burst', tx, rx, ctl.delegate, x, top, y)
  BY <1>1, <1>4, BurstOn
<1>6. SameRx(rx, rx')
  BY <1>3 DEF SameRx
<1> QED BY <1>2, <1>3, <1>5, <1>6, QuietMove

LEMMA StillMove ==
  ASSUME NEW x, NEW top, NEW y, Own(x, top, y),
         UNCHANGED <<ctl, tx, rx, io, burst, wire>>
  PROVE  OwnMove(x, x, top, y)
<1>1. SameTx(tx, tx') /\ SameRx(rx, rx')
  BY DEF SameTx, SameRx
<1>2. BurstHonest(burst', tx, rx, ctl.delegate, x, top, y)
  BY OwnParts
<1> QED BY <1>1, <1>2, QuietMove

(* The vector that goes out with a packet tells the truth, whoever made it. *)
LEMMA WiredFields ==
  ASSUME NEW p, DOMAIN p = PacketFields
  PROVE  LET m == Wired(p)
         IN  /\ m.seq = p.seq /\ m.ps = p.ps /\ m.data = p.data
             /\ m.gsnr = p.gsnr /\ m.gsnfr = p.gsnfr /\ m.vector = p.vector
             /\ m.vp = p.vp /\ m.pg = p.pg /\ m.xp = p.xp
BY DEF Wired, PacketFields

LEMMA WiredGenuine ==
  ASSUME NEW p, NEW s, NEW r, NEW d, NEW x, NEW top, NEW y, NEW n,
         SentAs(p, s, r, d, x, top, y), s \in FirstSend..n - 1
  PROVE  /\ Genuine(Wired(p), FirstSend, n, x)
         /\ Carries(Wired(p), r, d, FirstReceive, top, y)
<1> DEFINE m == Wired(p)
<1>1. /\ m.seq = p.seq /\ m.ps = p.ps /\ m.data = p.data
      /\ m.gsnr = p.gsnr /\ m.gsnfr = p.gsnfr /\ m.vector = p.vector
      /\ m.vp = p.vp /\ m.pg = p.pg /\ m.xp = p.xp
  BY WiredFields DEF SentAs
<1> HIDE DEF m
<1>2. Is(m, s, FirstSend, x)
  BY <1>1 DEF Is, SentAs
<1>3. \A g, f : AckIn(m, g, f) = AckIn(p, g, f)
  BY <1>1 DEF AckIn
<1>4. Carries(m, r, d, FirstReceive, top, y)
  <2>1. PICK g \in FirstReceive - 1 .. top - 1, f \in FirstReceive - 1 .. top - 1 :
          /\ p.gsnr = LowBits(g) /\ p.gsnfr = LowBits(f)
          /\ Speaks(AckIn(p, g, f), r, d, FirstReceive, top, y)
    BY DEF Carries, SentAs
  <2>2. /\ m.gsnr = LowBits(g) /\ m.gsnfr = LowBits(f)
        /\ Speaks(AckIn(m, g, f), r, d, FirstReceive, top, y)
    BY <1>1, <1>3, <2>1
  <2> QED BY <2>2 DEF Carries
<1> QED BY <1>2, <1>4 DEF Genuine, m

LEMMA GreatestIsMember ==
  ASSUME NEW n \in Nat, NEW S \in SUBSET (0..n), S # {}
  PROVE  Greatest(S) \in S
<1> DEFINE Back == {n - s : s \in S}
           k == Smallest(Back)
<1>1. Back \in SUBSET Nat /\ Back # {}
  <2>1. \A s \in S : n - s \in Nat
    OBVIOUS
  <2> QED BY <2>1
<1> HIDE DEF Back
<1>2. k \in Back /\ \A u \in Back : k <= u
  BY <1>1, SmallestIsMember
<1> HIDE DEF k
<1>3. PICK g \in S : k = n - g
  BY <1>2 DEF Back
<1>4. ASSUME NEW u \in S PROVE u <= g
  <2>1. n - u \in Back
    BY DEF Back
  <2>2. n - g <= n - u
    BY <1>2, <1>3, <2>1
  <2>3. g \in 0..n /\ u \in 0..n
    OBVIOUS
  <2> QED BY <2>2, <2>3
<1> QED BY <1>4 DEF Greatest

LEMMA PickResendMove ==
  ASSUME NEW x, NEW top, NEW y, Own(x, top, y), PickResend
  PROVE  OwnMove(x, x, top, y)
<1> DEFINE s == Greatest(Resendable)
<1>1. /\ DOMAIN burst = DOMAIN IdleBurst
      /\ BurstHonest(burst, tx, rx, ctl.delegate, x, top, y)
      /\ TxHonest(tx, rx, ctl.delegate, x, top, y)
      /\ Shape(tx)
  BY OwnParts DEF Own, BooksInv, BurstHonest
<1>2. burst' = [burst EXCEPT !.pc = "picked", !.picked = s, !.message = Wired(tx.packets[s])]
  BY DEF PickResend
<1>3. s \in Sending(tx)
  <2>1. Resendable # {} /\ Resendable \subseteq tx.flagged
    BY DEF PickResend, Resendable
  <2>2. Resendable \subseteq Sending(tx)
    BY <1>1, <2>1 DEF Shape
  <2>3. tx.next \in Nat /\ Resendable \in SUBSET (0..tx.next)
    BY <1>1, <2>2, StreamAssumption DEF TxHonest
  <2>4. Greatest(Resendable) \in Resendable
    BY <2>1, <2>3, GreatestIsMember
  <2> QED BY <2>2, <2>4
<1> HIDE DEF s
<1>4. /\ DOMAIN burst' = DOMAIN IdleBurst /\ burst'.pc = "picked"
      /\ burst'.first = burst.first /\ burst'.vector = burst.vector
      /\ burst'.vp = burst.vp /\ burst'.message = Wired(tx.packets[s])
  BY <1>1, <1>2 DEF IdleBurst
<1>5. /\ Genuine(burst'.message, FirstSend, tx.next, x)
      /\ Carries(burst'.message, rx, ctl.delegate, FirstReceive, top, y)
  <2>1. /\ SentAs(tx.packets[s], s, rx, ctl.delegate, x, top, y)
        /\ s \in FirstSend..tx.next - 1
    BY <1>1, <1>3 DEF TxHonest
  <2> QED BY <1>4, <2>1, WiredGenuine
<1>6. BurstHonest(burst', tx, rx, ctl.delegate, x, top, y)
  BY <1>1, <1>4, <1>5 DEF BurstHonest, BurstAck
<1>7. ctl' = ctl /\ tx' = tx /\ rx' = rx /\ io' = io /\ wire' = wire
  BY DEF PickResend
<1>8. SameTx(tx, tx') /\ SameRx(rx, rx')
  BY <1>7 DEF SameTx, SameRx
<1> QED BY <1>6, <1>7, <1>8, QuietMove

LEMMA SendPacketMove ==
  ASSUME NEW x, NEW top, NEW y, Own(x, top, y), SendPacket
  PROVE  OwnMove(x, x, top, y)
<1> DEFINE d == ctl.delegate
<1>1. /\ CtlHonest(ctl) /\ TxHonest(tx, rx, d, x, top, y) /\ RxHonest(rx, d, top, y)
      /\ IoHonest(ctl, tx, rx, io) /\ WireHonest(wire, tx, rx, d, x, top, y)
      /\ DOMAIN burst = DOMAIN IdleBurst /\ BurstHonest(burst, tx, rx, d, x, top, y)
      /\ Later(tx.next, x, tx.next, x) /\ rx.gsnfr \in Nat /\ tx.next \in Nat
  BY OwnParts DEF RxHonest, BurstHonest
<1> HIDE DEF d
<1>2. /\ burst.pc = "picked" /\ wire' = wire \cup {burst.message}
      /\ burst' = [burst EXCEPT !.pc = "sent"]
      /\ ctl' = ctl /\ tx' = tx /\ rx' = rx /\ io' = io
  BY DEF SendPacket
<1>3. WireHonest(wire', tx, rx, d, x, top, y)
  BY <1>1, <1>2 DEF WireHonest, BurstHonest
<1>4. /\ DOMAIN burst' = DOMAIN burst /\ burst'.pc = "sent"
      /\ burst'.first = burst.first /\ burst'.vector = burst.vector /\ burst'.vp = burst.vp
  BY <1>1, <1>2 DEF IdleBurst
<1>5. BurstHonest(burst', tx, rx, d, x, top, y)
  BY <1>1, <1>4, BurstOn
<1>6. EndInv(ctl, tx, rx, io, burst', wire', x, top, y)
  BY <1>1, <1>3, <1>5 DEF EndInv, d
<1>7. SameTx(tx, tx) /\ SameRx(rx, rx)
  BY DEF SameTx, SameRx
<1>8. Grows(rx, d, rx, d) /\ KeepsSending(tx, d, tx, d)
  BY <1>1, <1>7, GrowsSame, SameSending
<1> QED BY <1>1, <1>2, <1>6, <1>8 DEF OwnMove, d

-----------------------------------------------------------------------------
(* What an end says of itself.                                              *)

(* getState, and the vector of a packet: what is told is what was received. *)
LEMMA ReceiverVectorHonest ==
  ASSUME NEW r, NEW d, NEW top, NEW y \in History, RxHonest(r, d, top, y),
         NEW a, a.gsnr = r.gsnr, a.gsnfr = r.gsnfr, a.gsnr # a.gsnfr,
         a.vector = ReceiverVector(r).vector, a.vp = ReceiverVector(r).vp,
         a.xp = r.xorFull
  PROVE  VectorHonest(a, y) /\ Told(a) \subseteq DOMAIN r.pending
<1> DEFINE g == r.gsnr
           f == r.gsnfr
           status == [s \in f + 1 .. g - 1 |->
                        IF s \in DOMAIN r.pending THEN "Received" ELSE "NotReceived"]
           parity == [s \in f + 1 .. g - 1 |-> s \in DOMAIN r.pending /\ r.pending[s].ps]
           v == Heard(a)
<1>1. g \in Nat /\ f \in Nat /\ f < g /\ r.xorFull \in BOOLEAN
  <2>1. g \in Nat /\ f \in Nat /\ f <= g /\ r.xorFull = y[f]
    BY DEF RxHonest
  <2>2. y[f] \in BOOLEAN
    BY <2>1 DEF History
  <2> QED BY <2>1, <2>2
<1>2. ReceiverVector(r) = EncodeVector(g, f, r.xorFull, status, parity)
  BY DEF ReceiverVector
<1>3. ASSUME NEW s \in DOMAIN r.pending PROVE r.pending[s].ps = Ps(y, s)
  <2>1. r.pending[s] = [ps |-> Ps(y, s), data |-> s - FirstReceive + 1]
    BY DEF RxHonest
  <2> QED BY <2>1
<1>4. status \in [f + 1 .. g - 1 -> VectorStates]
  BY DEF VectorStates
<1>5. parity \in [f + 1 .. g - 1 -> BOOLEAN]
  OBVIOUS
<1>6. /\ \A s \in f + 1 .. g - 1 : status[s] = IF s \in DOMAIN r.pending
                                               THEN "Received" ELSE "NotReceived"
      /\ \A s \in f + 1 .. g - 1 : parity[s] = (s \in DOMAIN r.pending /\ r.pending[s].ps)
  OBVIOUS
<1> HIDE DEF g, f, status, parity
<1>7. v = DecodeVector(ReceiverVector(r).vector, g, f)
  BY DEF Heard, g, f
<1> HIDE DEF v
<1>8. /\ v \in Seq(VectorStates) /\ Len(v) <= g - f - 1
      /\ \A i \in 1..Len(v) : v[i] = status[f + i]
      /\ ReceiverVector(r).vp = XOR(r.xorFull, OddUpTo(status, parity, f, f + Len(v)))
  <2> DEFINE e == EncodeVector(g, f, r.xorFull, status, parity)
             w == DecodeVector(e.vector, g, f)
  <2>1. /\ w \in Seq(VectorStates) /\ Len(w) <= g - f - 1
        /\ \A i \in 1..Len(w) : w[i] = status[f + i]
        /\ e.vp = XOR(r.xorFull, OddUpTo(status, parity, f, f + Len(w)))
    BY <1>1, <1>4, <1>5, VectorSurvives
  <2>2. e = ReceiverVector(r) /\ v = w
    BY <1>2, <1>7
  <2> HIDE DEF e, w
  <2> QED BY <2>1, <2>2
<1>9. Len(v) \in Nat
  BY <1>8
<1>10. ASSUME NEW s \in f + 1 .. f + Len(v)
       PROVE  /\ s \in f + 1 .. g - 1
              /\ v[s - f] \in Arrived <=> s \in DOMAIN r.pending
              /\ status[s] # "NotReceived" <=> s \in DOMAIN r.pending
  <2>1. s \in f + 1 .. g - 1 /\ s - f \in 1..Len(v) /\ f + (s - f) = s
    BY <1>1, <1>8, <1>9
  <2>2. v[s - f] = status[s]
    BY <1>8, <2>1
  <2> QED BY <1>6, <2>1, <2>2 DEF Arrived
<1>11. Told(a) = {s \in f + 1 .. f + Len(v) : v[s - f] \in Arrived}
  BY DEF Told, v, f
<1>12. Told(a) \subseteq DOMAIN r.pending
  BY <1>10, <1>11
<1>13. {s \in Told(a) : Ps(y, s)}
         = {s \in f + 1 .. f + Len(v) : status[s] # "NotReceived" /\ parity[s]}
  <2>1. ASSUME NEW s \in f + 1 .. f + Len(v), s \in DOMAIN r.pending
        PROVE  parity[s] <=> Ps(y, s)
    <3>1. parity[s] <=> r.pending[s].ps
      BY <1>6, <1>10, <2>1
    <3> QED BY <1>3, <2>1, <3>1
  <2>2. ASSUME NEW s \in f + 1 .. f + Len(v)
        PROVE  /\ s \in Told(a) <=> s \in DOMAIN r.pending
               /\ status[s] # "NotReceived" <=> s \in DOMAIN r.pending
    BY <1>10, <1>11
  <2>3. Told(a) \subseteq f + 1 .. f + Len(v)
    BY <1>11
  <2> QED BY <2>1, <2>2, <2>3
<1>14. OddIn(y, Told(a)) = OddUpTo(status, parity, f, f + Len(v))
  BY <1>13 DEF OddIn, OddUpTo
<1>15. a.vp = XOR(a.xp, OddIn(y, Told(a)))
  BY <1>8, <1>14
<1>16. Heard(a) \in Seq(VectorStates) /\ Len(Heard(a)) < a.gsnr - a.gsnfr
  BY <1>1, <1>8, <1>9 DEF v, g, f
<1> QED BY <1>12, <1>15, <1>16 DEF VectorHonest

LEMMA StateSpeaks ==
  ASSUME NEW r, NEW d, NEW top, NEW y \in History, RxHonest(r, d, top, y),
         NEW a, a.gsnr = r.gsnr, a.gsnfr = r.gsnfr,
         a.vector = ReceiverVector(r).vector, a.vp = ReceiverVector(r).vp,
         a.xp = r.xorFull, a.pg = r.gsnrParity
  PROVE  Speaks(a, r, d, FirstReceive, top, y)
<1>1. /\ Bounded(a, FirstReceive, top) /\ a.xp = y[a.gsnfr]
      /\ a.gsnr >= FirstReceive => a.pg = Ps(y, a.gsnr)
      /\ a.gsnfr <= r.gsnfr
  BY DEF RxHonest, Bounded
<1>2. a.gsnr # a.gsnfr => VectorHonest(a, y) /\ Told(a) \subseteq DOMAIN r.pending
  BY ReceiverVectorHonest
<1>3. d => Got(r, a.gsnr)
  BY DEF RxHonest, Got
<1>4. a.gsnr # a.gsnfr => \A s \in Told(a) : Got(r, s)
  BY <1>2 DEF Got
<1> QED BY <1>1, <1>2, <1>3, <1>4 DEF Speaks, Honest, Knows

LEMMA ExternalAckSpeaks ==
  ASSUME NEW x, NEW top, NEW y, Own(x, top, y)
  PROVE  Speaks(ExternalAck, rx, ctl.delegate, FirstReceive, top, y)
<1>1. RxHonest(rx, ctl.delegate, top, y) /\ y \in History
  BY OwnParts
<1>2. /\ ExternalAck.gsnr = rx.gsnr /\ ExternalAck.gsnfr = rx.gsnfr
      /\ ExternalAck.vector = ReceiverVector(rx).vector
      /\ ExternalAck.vp = ReceiverVector(rx).vp
      /\ ExternalAck.xp = rx.xorFull /\ ExternalAck.pg = rx.gsnrParity
  BY DEF ExternalAck
<1> QED BY <1>1, <1>2, StateSpeaks

(* What a new packet carries.                                               *)
LEMMA BurstSpeaks ==
  ASSUME NEW x, NEW top, NEW y, Own(x, top, y),
         NEW a, a = [gsnr |-> rx.gsnr, gsnfr |-> rx.gsnfr, vector |-> BurstVector.vector,
                     vp |-> BurstVector.vp, pg |-> rx.gsnrParity, xp |-> rx.xorFull]
  PROVE  Speaks(a, rx, ctl.delegate, FirstReceive, top, y)
<1>1. /\ RxHonest(rx, ctl.delegate, top, y) /\ y \in History
      /\ BurstHonest(burst, tx, rx, ctl.delegate, x, top, y)
  BY OwnParts
<1>2. /\ a.gsnr = rx.gsnr /\ a.gsnfr = rx.gsnfr /\ a.vector = BurstVector.vector
      /\ a.vp = BurstVector.vp /\ a.xp = rx.xorFull /\ a.pg = rx.gsnrParity
  OBVIOUS
<1>3. CASE burst.first = NoPacket
  <2>1. BurstVector = ReceiverVector(rx)
    BY <1>3 DEF BurstVector
  <2> QED BY <1>1, <1>2, <2>1, StateSpeaks
<1>4. CASE burst.first # NoPacket
  <2>1. BurstVector.vector = burst.vector /\ BurstVector.vp = burst.vp
    BY <1>4 DEF BurstVector
  <2>2. a = BurstAck(burst, rx)
    BY <2>1 DEF BurstAck
  <2> QED BY <1>1, <1>4, <2>2 DEF BurstHonest
<1> QED BY <1>3, <1>4

-----------------------------------------------------------------------------
(* A packet is made.                                                        *)

LEMMA HistoryGrows ==
  ASSUME NEW x \in History, NEW n \in Nat \ {0}, NEW bit, bit \in BOOLEAN
  PROVE  \E x1 \in History : /\ Later(n, x, n + 1, x1) /\ x1[n] = bit
                              /\ Ps(x1, n) = XOR(bit, x[n - 1])
<1> DEFINE x1 == [x EXCEPT ![n] = bit]
<1>1. x1 \in History /\ x1[n] = bit
  BY DEF History
<1>2. Extends(x, x1, n)
  BY DEF Extends, History
<1>3. x1[n - 1] = x[n - 1]
  BY DEF History
<1> HIDE DEF x1
<1>4. Later(n, x, n + 1, x1)
  BY <1>1, <1>2 DEF Later
<1>5. Ps(x1, n) = XOR(bit, x[n - 1])
  BY <1>1, <1>3 DEF Ps
<1> QED BY <1>1, <1>4, <1>5

LEMMA XorTwice ==
  ASSUME NEW p \in BOOLEAN, NEW q \in BOOLEAN
  PROVE  XOR(XOR(p, q), p) = q /\ XOR(p, q) \in BOOLEAN
<1>1. XOR(XOR(p, q), p) = q
  BY Z3 DEF XOR
<1>2. XOR(p, q) \in BOOLEAN
  BY Z3 DEF XOR
<1> QED BY <1>1, <1>2

(* What waits to be sent, without its first unit.                           *)
LEMMA TailFollows ==
  ASSUME NEW k \in Int, NEW n \in Nat, NEW q, q # << >>,
         q = [i \in 1..n |-> k + i]
  PROVE  n > 0 /\ Head(q) = k + 1 /\ Tail(q) = [i \in 1..n - 1 |-> k + 1 + i]
<1>1. q \in Seq(Int) /\ Len(q) = n
  <2>1. \A i \in 1..n : k + i \in Int
    OBVIOUS
  <2>2. q \in [1..n -> Int]
    BY <2>1
  <2> QED BY <2>2, TableIsSequence
<1>2. n > 0
  <2>1. ASSUME n = 0 PROVE FALSE
    <3>1. Len(q) = 0
      BY <1>1, <2>1
    <3> QED BY <1>1, <3>1
  <2> QED BY <2>1
<1>3. Head(q) = k + 1
  BY <1>1, <1>2
<1>4. Tail(q) = [i \in 1..n - 1 |-> q[i + 1]]
  BY <1>1, <1>2
<1>5. \A i \in 1..n - 1 : q[i + 1] = k + 1 + i
  BY <1>2
<1> QED BY <1>2, <1>3, <1>4, <1>5

LEMMA HandedSame ==
  ASSUME NEW c, NEW r, NEW o, HandedOver(c, r, o), NEW o1,
         o1.delivered = o.delivered, o1.kept = o.kept, o1.attached = o.attached
  PROVE  HandedOver(c, r, o1)
BY DEF HandedOver

LEMMA CreateIo ==
  ASSUME NEW c, NEW t, NEW r, NEW o, IoHonest(c, t, r, o),
         NEW u, t.next \in Nat, FirstSend <= t.next, u.next = t.next + 1,
         o.attached, o.unread # << >>,
         NEW o1, o1 = [o EXCEPT !.unread = Tail(@)]
  PROVE  /\ IoHonest(c, u, r, o1)
         /\ Head(o.unread) = t.next - FirstSend + 1
<1> DEFINE k == t.next - FirstSend
           n == o.written - k
<1>1. /\ DOMAIN o = IoFields /\ o.written \in Nat /\ k <= o.written
      /\ o.written <= MaxUnits /\ HandedOver(c, r, o) /\ (StreamsGiven => o.attached)
      /\ o.unread = [i \in 1..n |-> k + i]
  BY DEF IoHonest, UnreadFollows
<1>2. k \in Nat /\ n \in Nat
  <2>1. k \in Nat
    BY StreamAssumption
  <2> HIDE DEF k
  <2> QED BY <1>1, <2>1
<1>3. u.next - FirstSend = k + 1 /\ o.written - (k + 1) = n - 1
  BY <1>1, <1>2, StreamAssumption, SMTT(60)
<1> HIDE DEF k, n
<1>4. n > 0 /\ Head(o.unread) = k + 1 /\ Tail(o.unread) = [i \in 1..n - 1 |-> k + 1 + i]
  BY <1>1, <1>2, TailFollows
<1>5. /\ DOMAIN o1 = IoFields /\ o1.written = o.written /\ o1.attached = o.attached
      /\ o1.delivered = o.delivered /\ o1.kept = o.kept
      /\ o1.unread = [i \in 1..n - 1 |-> k + 1 + i]
  BY <1>1, <1>4 DEF IoFields
<1>6. UnreadFollows(c, u, o1)
  <2> DEFINE j == u.next - FirstSend
             m == o1.written - j
  <2>1. j = k + 1
    BY <1>3
  <2>2. m = n - 1
    BY <1>3, <1>5
  <2> HIDE DEF j, m
  <2>3. o1.unread = [i \in 1..m |-> j + i]
    BY <1>5, <2>1, <2>2, Zenon
  <2> QED BY <2>3 DEF UnreadFollows, j, m
<1>7. HandedOver(c, r, o1)
  <2>1. /\ HandedOver(c, r, o) /\ o1.delivered = o.delivered /\ o1.kept = o.kept
        /\ o1.attached = o.attached
    BY <1>1, <1>5
  <2> QED BY <2>1, HandedSame
<1>8. k + 1 <= o.written
  BY <1>1, <1>2, <1>4 DEF n
<1>9. IoHonest(c, u, r, o1)
  BY <1>1, <1>3, <1>5, <1>6, <1>7, <1>8 DEF IoHonest
<1> QED BY <1>4, <1>9 DEF k

(* mSendingPackets and the history after one packet more.                   *)
LEMMA CreateTx ==
  ASSUME NEW t, NEW r, NEW d, NEW x, NEW top, NEW y, TxHonest(t, r, d, x, top, y),
         NEW u, NEW x1, NEW p, Later(t.next, x, t.next + 1, x1),
         Later(top, y, top, y), Grows(r, d, r, d),
         u.next = t.next + 1, u.xorNow = p.xorNow,
         u.packets = [s \in (DOMAIN t.packets) \cup {t.next} |->
                        IF s = t.next THEN p ELSE t.packets[s]],
         SentAs(p, t.next, r, d, x1, top, y)
  PROVE  TxHonest(u, r, d, x1, top, y)
<1>1. /\ t.next \in Nat /\ FirstSend <= t.next /\ UpToNext(t)
      /\ Sending(t) \subseteq FirstSend..t.next - 1 /\ FirstSend \in Nat \ {0}
  BY StreamAssumption DEF TxHonest
<1>2. Sending(u) = Sending(t) \cup {t.next}
  BY DEF Sending
<1>3. Sending(u) \subseteq FirstSend..u.next - 1
  BY <1>1, <1>2
<1>4. UpToNext(u)
  <2> SUFFICES ASSUME NEW s \in Sending(u), NEW v \in s..u.next - 1 PROVE v \in Sending(u)
    BY DEF UpToNext
  <2>1. CASE v = t.next
    BY <1>2, <2>1
  <2>2. CASE v # t.next
    <3>1. s \in Sending(t) /\ v \in s..t.next - 1
      BY <1>1, <1>2, <2>2
    <3> QED BY <1>1, <1>2, <3>1 DEF UpToNext
  <2> QED BY <2>1, <2>2
<1>5. ASSUME NEW s \in Sending(u) PROVE SentAs(u.packets[s], s, r, d, x1, top, y)
  <2>1. CASE s = t.next
    BY <2>1 DEF Sending
  <2>2. CASE s # t.next
    <3>1. s \in Sending(t) /\ u.packets[s] = t.packets[s]
      BY <1>2, <1>5, <2>2 DEF Sending
    <3>2. SentAs(t.packets[s], s, r, d, x, top, y) /\ s \in FirstSend..t.next - 1
      BY <1>1, <3>1 DEF TxHonest
    <3>3. SentAs(t.packets[s], s, r, d, x1, top, y)
      BY <3>2, SentLater
    <3> QED BY <3>1, <3>3
  <2> QED BY <2>1, <2>2
<1>6. u.xorNow = x1[u.next - 1]
  BY <1>1 DEF SentAs
<1>7. u.next \in Nat /\ FirstSend <= u.next
  BY <1>1
<1> QED BY <1>3, <1>4, <1>5, <1>6, <1>7 DEF TxHonest

LEMMA CreatePacketMove ==
  ASSUME NEW x, NEW top, NEW y, Own(x, top, y), CreatePacket
  PROVE  \E x1 \in History : OwnMove(x, x1, top, y)
<1> DEFINE d == ctl.delegate
<1>1. /\ CtlHonest(ctl) /\ TxHonest(tx, rx, d, x, top, y) /\ RxHonest(rx, d, top, y)
      /\ IoHonest(ctl, tx, rx, io) /\ WireHonest(wire, tx, rx, d, x, top, y)
      /\ BurstHonest(burst, tx, rx, d, x, top, y) /\ DOMAIN burst = DOMAIN IdleBurst
      /\ x \in History /\ y \in History /\ Later(top, y, top, y) /\ rx.gsnfr \in Nat
      /\ rx.gsnr \in FirstReceive - 1 .. top - 1 /\ rx.gsnfr \in FirstReceive - 1 .. top - 1
      /\ DOMAIN tx = TxFields
  <2>1. /\ CtlHonest(ctl) /\ TxHonest(tx, rx, d, x, top, y) /\ RxHonest(rx, d, top, y)
        /\ IoHonest(ctl, tx, rx, io) /\ WireHonest(wire, tx, rx, d, x, top, y)
        /\ BurstHonest(burst, tx, rx, d, x, top, y) /\ BooksInv
        /\ x \in History /\ y \in History /\ Later(top, y, top, y) /\ top \in Nat
    BY OwnParts
  <2>2. /\ rx.gsnfr \in Nat /\ rx.gsnr \in FirstReceive - 1 .. top - 1
        /\ rx.gsnfr \in FirstReceive - 1 .. top - 1
    BY <2>1, StreamAssumption DEF RxHonest
  <2> QED BY <2>1, <2>2 DEF BurstHonest, BooksInv, Shape
<1>2. tx.next \in Nat /\ FirstSend <= tx.next /\ tx.next \in Nat \ {0} /\ FirstSend \in Nat \ {0}
  BY <1>1, StreamAssumption DEF TxHonest
<1>3. PICK ps \in ParityBits :
        LET p == NewPacket(ps)
        IN  /\ tx' = [tx EXCEPT !.next = @ + 1, !.xorNow = p.xorNow,
                        !.packets = [s \in (DOMAIN @) \cup {tx.next} |->
                                       IF s = tx.next THEN p ELSE @[s]],
                        !.timers = IF NeedsAck THEN @ \ {"ensure"} ELSE @]
            /\ burst' = [burst EXCEPT !.pc = "picked", !.picked = tx.next,
                           !.message = Wired(p), !.vector = p.vector, !.vp = p.vp,
                           !.first = IF @ = NoPacket THEN tx.next ELSE @]
  BY DEF CreatePacket
<1> DEFINE p == NewPacket(ps)
           a == [gsnr |-> rx.gsnr, gsnfr |-> rx.gsnfr, vector |-> BurstVector.vector,
                 vp |-> BurstVector.vp, pg |-> rx.gsnrParity, xp |-> rx.xorFull]
<1>4. /\ DOMAIN p = PacketFields /\ p.seq = LowBits(tx.next) /\ p.ps = ps
      /\ p.gsnr = LowBits(rx.gsnr) /\ p.gsnfr = LowBits(rx.gsnfr)
      /\ p.data = Head(io.unread) /\ p.xorNow = XOR(tx.xorNow, ps)
      /\ p.vector = BurstVector.vector /\ p.vp = BurstVector.vp
      /\ p.pg = rx.gsnrParity /\ p.xp = rx.xorFull
  BY DEF NewPacket, PacketFields
<1>5. /\ tx'.next = tx.next + 1 /\ tx'.xorNow = p.xorNow /\ tx'.acked = tx.acked
      /\ tx'.packets = [s \in (DOMAIN tx.packets) \cup {tx.next} |->
                          IF s = tx.next THEN p ELSE tx.packets[s]]
  BY <1>1, <1>3 DEF TxFields
<1>6. /\ DOMAIN burst' = DOMAIN IdleBurst /\ burst'.pc = "picked"
      /\ burst'.message = Wired(p) /\ burst'.vector = p.vector /\ burst'.vp = p.vp
  BY <1>1, <1>3 DEF IdleBurst
<1>7. /\ ctl' = ctl /\ rx' = rx /\ wire' = wire /\ io' = [io EXCEPT !.unread = Tail(@)]
      /\ io.attached /\ io.unread # << >>
  BY DEF CreatePacket, ToWrite
<1> HIDE DEF p
<1>8. tx.xorNow \in BOOLEAN /\ ps \in BOOLEAN /\ tx.xorNow = x[tx.next - 1]
  <2>1. tx.xorNow = x[tx.next - 1] /\ tx.next - 1 \in Nat
    BY <1>1, <1>2 DEF TxHonest
  <2> QED BY <1>1, <2>1, StreamAssumption DEF History
<1>9. p.xorNow \in BOOLEAN /\ XOR(p.xorNow, x[tx.next - 1]) = ps
  <2>1. XOR(XOR(tx.xorNow, ps), tx.xorNow) = ps /\ XOR(tx.xorNow, ps) \in BOOLEAN
    BY <1>8, XorTwice
  <2> QED BY <1>4, <1>8, <2>1
<1>10. PICK x1 \in History :
         /\ Later(tx.next, x, tx.next + 1, x1) /\ x1[tx.next] = p.xorNow
         /\ Ps(x1, tx.next) = ps
  <2>1. tx.next \in Nat \ {0} /\ x \in History /\ p.xorNow \in BOOLEAN
    BY <1>1, <1>2, <1>9
  <2>2. \E x1 \in History :
          /\ Later(tx.next, x, tx.next + 1, x1) /\ x1[tx.next] = p.xorNow
          /\ Ps(x1, tx.next) = XOR(p.xorNow, x[tx.next - 1])
    BY <2>1, HistoryGrows
  <2> QED BY <1>9, <2>2
<1>11. Speaks(a, rx, d, FirstReceive, top, y)
  BY BurstSpeaks
<1>12. /\ Head(io.unread) = tx.next - FirstSend + 1
       /\ IoHonest(ctl, tx', rx, io')
  <2>1. /\ IoHonest(ctl, tx, rx, io) /\ tx.next \in Nat /\ FirstSend <= tx.next
        /\ tx'.next = tx.next + 1 /\ io.attached /\ io.unread # << >>
        /\ io' = [io EXCEPT !.unread = Tail(@)]
    BY <1>1, <1>2, <1>5, <1>7
  <2>2. /\ Head(io.unread) = tx.next - FirstSend + 1
        /\ IoHonest(ctl, tx', rx, io')
    BY <2>1, CreateIo
  <2> QED BY <2>2
<1>13. SentAs(p, tx.next, rx, d, x1, top, y)
  <2>1. Is(p, tx.next, FirstSend, x1)
    BY <1>4, <1>10, <1>12 DEF Is
  <2>2. AckIn(p, rx.gsnr, rx.gsnfr) = a
    BY <1>4 DEF AckIn
  <2>3. Carries(p, rx, d, FirstReceive, top, y)
    <3>1. Speaks(AckIn(p, rx.gsnr, rx.gsnfr), rx, d, FirstReceive, top, y)
      BY <1>11, <2>2
    <3> HIDE DEF d
    <3> QED BY <1>1, <1>4, <3>1 DEF Carries
  <2> QED BY <1>4, <1>10, <2>1, <2>3 DEF SentAs
<1>14. Grows(rx, d, rx, d)
  <2>1. SameRx(rx, rx)
    BY DEF SameRx
  <2> QED BY <1>1, <2>1, GrowsSame
<1> HIDE DEF d
<1>15. TxHonest(tx', rx, d, x1, top, y)
  BY <1>1, <1>5, <1>10, <1>13, <1>14, CreateTx
<1>16. Later(tx.next, x, tx'.next, x1)
  BY <1>5, <1>10
<1>17. WireHonest(wire, tx', rx, d, x1, top, y)
  BY <1>1, <1>14, <1>16, WireLater
<1>18. BurstHonest(burst', tx', rx, d, x1, top, y)
  <2>1. /\ Genuine(burst'.message, FirstSend, tx'.next, x1)
        /\ Carries(burst'.message, rx, d, FirstReceive, top, y)
    <3>1. tx.next \in FirstSend..tx'.next - 1
      BY <1>2, <1>5
    <3> QED BY <1>6, <1>13, <3>1, WiredGenuine
  <2>2. BurstAck(burst', rx) = a
    BY <1>4, <1>6 DEF BurstAck
  <2> QED BY <1>6, <1>11, <2>1, <2>2 DEF BurstHonest, d
<1>19. EndInv(ctl, tx', rx, io', burst', wire, x1, top, y)
  BY <1>1, <1>12, <1>15, <1>17, <1>18 DEF EndInv, d
<1>20. KeepsSending(tx, d, tx', d)
  <2>1. Sending(tx') = Sending(tx) \cup {tx.next}
    BY <1>5 DEF Sending
  <2> QED BY <1>2, <1>5, <2>1 DEF KeepsSending
<1>21. OwnMove(x, x1, top, y)
  BY <1>7, <1>14, <1>16, <1>19, <1>20 DEF OwnMove, d
<1> QED BY <1>21

-----------------------------------------------------------------------------
(* The end of a stream, and the application.                                *)

LEMMA EndedTx ==
  ASSUME NEW t, NEW r, NEW d, NEW x, NEW top, NEW y, TxHonest(t, r, d, x, top, y),
         NEW u, u.next = t.next, u.xorNow = t.xorNow, u.packets = << >>,
         NEW r1, NEW d1
  PROVE  TxHonest(u, r1, d1, x, top, y)
<1>1. Sending(u) = {}
  BY DEF Sending
<1> QED BY <1>1 DEF TxHonest, UpToNext

LEMMA EndedRx ==
  ASSUME NEW r, NEW d, NEW top, NEW y, RxHonest(r, d, top, y),
         NEW u, DOMAIN u = DOMAIN r, u.gsnr = r.gsnr, u.gsnfr = r.gsnfr,
         u.gsnrParity = r.gsnrParity, u.xorFull = r.xorFull, u.pending = << >>
  PROVE  RxHonest(u, FALSE, top, y) /\ Grows(r, d, u, FALSE)
<1>1. DOMAIN u.pending = {}
  OBVIOUS
<1>2. RxHonest(u, FALSE, top, y)
  BY <1>1 DEF RxHonest
<1>3. Grows(r, d, u, FALSE)
  BY DEF Grows, RxHonest
<1> QED BY <1>2, <1>3

(* The streams of the application, when only the state or the directions    *)
(* that are open change.                                                    *)
LEMMA IoOver ==
  ASSUME NEW c, NEW t, NEW r, NEW o, IoHonest(c, t, r, o),
         NEW c1, c.dirs \subseteq c1.dirs,
         c.state \in {"Shutdown", "Crashed"} => c1.state \in {"Shutdown", "Crashed"},
         NEW u, u.next = t.next, NEW r1, r1.gsnfr = r.gsnfr,
         NEW o1, DOMAIN o1 = DOMAIN o, o1.written = o.written, o1.attached = o.attached,
         o1.delivered = o.delivered, o1.kept = o.kept,
         \/ o1.unread = o.unread
         \/ o1.unread = << >> /\ o.attached /\ c1.state \in {"Shutdown", "Crashed"}
  PROVE  IoHonest(c1, u, r1, o1)
<1>1. UnreadFollows(c1, u, o1)
  BY DEF IoHonest, UnreadFollows
<1>2. HandedOver(c1, r1, o1)
  BY DEF IoHonest, HandedOver
<1> QED BY <1>1, <1>2 DEF IoHonest

(* cancel(), and the end of shutdown(true): nothing is left to send and     *)
(* nothing out of order is kept.                                            *)
LEMMA EndedMove ==
  ASSUME NEW x, NEW top, NEW y, Own(x, top, y),
         tx' = Cancelled(tx), rx' = [rx EXCEPT !.pending = << >>], wire' = wire,
         ctl'.state = "Shutdown", ctl'.delegate = FALSE,
         ctl'.error # "IllegalStreamState", ctl.dirs \subseteq ctl'.dirs,
         DOMAIN io' = DOMAIN io, io'.written = io.written, io'.attached = io.attached,
         io'.delivered = io.delivered, io'.kept = io.kept,
         io'.unread = io.unread \/ (io'.unread = << >> /\ io.attached),
         BurstHonest(burst', tx, rx, ctl.delegate, x, top, y)
  PROVE  OwnMove(x, x, top, y)
<1> DEFINE d == ctl.delegate
<1>1. /\ TxHonest(tx, rx, d, x, top, y) /\ RxHonest(rx, d, top, y)
      /\ IoHonest(ctl, tx, rx, io) /\ WireHonest(wire, tx, rx, d, x, top, y)
      /\ BurstHonest(burst', tx, rx, d, x, top, y)
      /\ Later(tx.next, x, tx.next, x) /\ Later(top, y, top, y)
      /\ DOMAIN tx = TxFields
  BY OwnParts DEF BooksInv, Shape
<1> HIDE DEF d
<1>2. tx'.next = tx.next /\ tx'.xorNow = tx.xorNow /\ tx'.packets = << >>
  BY <1>1 DEF Cancelled, TxFields
<1>3. TxHonest(tx', rx', FALSE, x, top, y)
  BY <1>1, <1>2, EndedTx
<1>4. /\ RxHonest(rx', FALSE, top, y) /\ Grows(rx, d, rx', FALSE)
      /\ rx'.gsnr = rx.gsnr /\ rx'.gsnfr = rx.gsnfr
      /\ rx'.gsnrParity = rx.gsnrParity /\ rx'.xorFull = rx.xorFull
  <2>1. /\ DOMAIN rx' = DOMAIN rx /\ rx'.gsnr = rx.gsnr /\ rx'.gsnfr = rx.gsnfr
        /\ rx'.gsnrParity = rx.gsnrParity /\ rx'.xorFull = rx.xorFull
        /\ rx'.pending = << >>
    BY <1>1 DEF RxHonest, RxFields
  <2> QED BY <1>1, <2>1, EndedRx
<1>5. IoHonest(ctl', tx', rx', io')
  BY <1>1, <1>2, <1>4, IoOver
<1>6. Later(tx.next, x, tx'.next, x)
  BY <1>1, <1>2
<1>7. BurstHonest(burst', tx', rx', FALSE, x, top, y)
  BY <1>1, <1>4, <1>6, BurstLater
<1>8. WireHonest(wire, tx', rx', FALSE, x, top, y)
  BY <1>1, <1>4, <1>6, WireLater
<1>9. CtlHonest(ctl')
  BY DEF CtlHonest
<1>10. EndInv(ctl', tx', rx', io', burst', wire', x, top, y)
  BY <1>3, <1>4, <1>5, <1>7, <1>8, <1>9 DEF EndInv
<1>11. KeepsSending(tx, d, tx', FALSE)
  BY DEF KeepsSending
<1> QED BY <1>4, <1>6, <1>10, <1>11 DEF OwnMove, d

(* The state changes and the delegate stays, or was gone before.            *)
LEMMA CtlMove ==
  ASSUME NEW x, NEW top, NEW y, Own(x, top, y),
         UNCHANGED <<tx, rx, io, wire>>,
         ctl'.delegate = ctl.delegate, CtlHonest(ctl'), ctl.dirs \subseteq ctl'.dirs,
         BurstHonest(burst', tx, rx, ctl.delegate, x, top, y)
  PROVE  OwnMove(x, x, top, y)
<1> DEFINE d == ctl.delegate
<1>1. /\ TxHonest(tx, rx, d, x, top, y) /\ RxHonest(rx, d, top, y)
      /\ IoHonest(ctl, tx, rx, io) /\ WireHonest(wire, tx, rx, d, x, top, y)
      /\ BurstHonest(burst', tx, rx, d, x, top, y) /\ CtlHonest(ctl)
      /\ Later(tx.next, x, tx.next, x) /\ rx.gsnfr \in Nat /\ tx.next \in Nat
  BY OwnParts DEF RxHonest
<1> HIDE DEF d
<1>2. ctl.state \in {"Shutdown", "Crashed"} => ctl'.state \in {"Shutdown", "Crashed"}
  BY <1>1 DEF CtlHonest
<1>3. IoHonest(ctl', tx, rx, io)
  BY <1>1, <1>2, IoOver
<1>4. EndInv(ctl', tx, rx, io, burst', wire, x, top, y)
  BY <1>1, <1>3 DEF EndInv, d
<1>5. SameTx(tx, tx) /\ SameRx(rx, rx)
  BY DEF SameTx, SameRx
<1>6. Grows(rx, d, rx, d) /\ KeepsSending(tx, d, tx, d)
  BY <1>1, <1>5, GrowsSame, SameSending
<1> QED BY <1>1, <1>4, <1>6 DEF OwnMove, d

LEMMA CancelMove ==
  ASSUME NEW x, NEW top, NEW y, Own(x, top, y),
         NEW reason, reason # "IllegalStreamState", Cancel(reason), wire' = wire,
         BurstHonest(burst', tx, rx, ctl.delegate, x, top, y)
  PROVE  OwnMove(x, x, top, y)
<1>1. CtlHonest(ctl) /\ DOMAIN ctl = {"state", "dirs", "delegate", "error"}
  BY OwnParts DEF BooksInv
<1>2. CASE IsShutdown
  <2>1. UNCHANGED <<ctl, tx, rx, io>>
    BY <1>2 DEF Cancel
  <2>2. SameTx(tx, tx') /\ tx'.acked \subseteq tx.acked /\ SameRx(rx, rx')
    BY <2>1 DEF SameTx, SameRx
  <2> QED BY <2>1, <2>2, QuietMove
<1>3. CASE ~IsShutdown
  <2>1. /\ tx' = Cancelled(tx) /\ rx' = [rx EXCEPT !.pending = << >>]
        /\ ctl' = [ctl EXCEPT !.state = "Shutdown", !.delegate = FALSE,
                     !.error = IF IsShuttingDown \/ @ # "None" THEN @ ELSE reason]
        /\ io' = [io EXCEPT !.unread = IF io.attached THEN << >> ELSE @]
    BY <1>3 DEF Cancel
  <2>2. /\ ctl'.state = "Shutdown" /\ ctl'.delegate = FALSE /\ ctl'.dirs = ctl.dirs
        /\ ctl'.error \in {ctl.error, reason}
    BY <1>1, <2>1
  <2>3. ctl'.error # "IllegalStreamState"
    BY <1>1, <2>2 DEF CtlHonest
  <2>4. DOMAIN io = IoFields
    BY OwnParts DEF IoHonest
  <2>5. /\ DOMAIN io' = DOMAIN io /\ io'.written = io.written /\ io'.attached = io.attached
        /\ io'.delivered = io.delivered /\ io'.kept = io.kept
        /\ io'.unread = io.unread \/ (io'.unread = << >> /\ io.attached)
    BY <2>1, <2>4 DEF IoFields
  <2> QED BY <2>1, <2>2, <2>3, <2>5, EndedMove
<1> QED BY <1>2, <1>3

(* What sendNowCleanup leaves alone.                                        *)
LEMMA CleanupSame ==
  ASSUME NEW t, DOMAIN t = TxFields, NEW id, NEW u, u = Cleanup(t, id)
  PROVE  SameTx(t, u) /\ u.acked = t.acked
<1> DEFINE f == ForgetForce(t)
           v == [f EXCEPT !.timers = TimersAfter(t)]
           w == [v EXCEPT !.forceID = id, !.forceSeq = t.next - 1, !.forceNext = FALSE]
<1>1. DOMAIN f = TxFields /\ SameTx(t, f) /\ f.acked = t.acked
  BY DEF ForgetForce, TxFields, SameTx
<1> HIDE DEF f
<1>2. DOMAIN v = TxFields /\ SameTx(t, v) /\ v.acked = t.acked
  BY <1>1 DEF TxFields, SameTx
<1> HIDE DEF v
<1>3. SameTx(t, w) /\ w.acked = t.acked
  BY <1>2 DEF TxFields, SameTx
<1>4. u = IF ForceRequired(t) THEN w ELSE v
  BY DEF Cleanup, v, w, f
<1> HIDE DEF w
<1> QED BY <1>2, <1>3, <1>4

LEMMA FinishBurstMove ==
  ASSUME NEW x, NEW top, NEW y, Own(x, top, y), FinishBurst
  PROVE  OwnMove(x, x, top, y)
<1>1. /\ DOMAIN tx = TxFields /\ CtlHonest(ctl) /\ DOMAIN burst = DOMAIN IdleBurst
      /\ DOMAIN ctl = {"state", "dirs", "delegate", "error"}
      /\ BurstHonest(burst, tx, rx, ctl.delegate, x, top, y)
  BY OwnParts DEF BooksInv, Shape, BurstHonest
<1>2. wire' = wire /\ burst' = [burst EXCEPT !.pc = "unwind"]
  BY DEF FinishBurst
<1>3. /\ DOMAIN burst' = DOMAIN burst /\ burst'.pc = "unwind"
      /\ burst'.first = burst.first /\ burst'.vector = burst.vector /\ burst'.vp = burst.vp
  BY <1>1, <1>2 DEF IdleBurst
<1>4. BurstHonest(burst', tx, rx, ctl.delegate, x, top, y)
  BY <1>1, <1>3, BurstOn
<1>5. CASE Cancel("None") \/ Cancel("DelegateGone")
  BY <1>2, <1>4, <1>5, CancelMove
<1>6. ASSUME NEW id, tx' = Cleanup(AfterBurst, id), UNCHANGED <<ctl, rx, io>>
      PROVE  OwnMove(x, x, top, y)
  <2>1. DOMAIN AfterBurst = TxFields /\ SameTx(tx, AfterBurst) /\ AfterBurst.acked = tx.acked
    BY <1>1 DEF AfterBurst, ConsumeBaton, SameTx, TxFields
  <2>2. SameTx(AfterBurst, tx') /\ tx'.acked = AfterBurst.acked
    BY <1>6, <2>1, CleanupSame
  <2>3. SameTx(tx, tx') /\ tx'.acked \subseteq tx.acked /\ SameRx(rx, rx')
    BY <1>6, <2>1, <2>2 DEF SameTx, SameRx
  <2> QED BY <1>2, <1>4, <1>6, <2>3, QuietMove
<1>7. CASE ctl' = [ctl EXCEPT !.state = "Crashed"] /\ ~ctl.delegate /\ UNCHANGED <<tx, rx, io>>
  <2>1. /\ ctl'.state = "Crashed" /\ ctl'.delegate = ctl.delegate /\ ctl'.dirs = ctl.dirs
        /\ ctl'.error = ctl.error
    BY <1>1, <1>7
  <2>2. CtlHonest(ctl') /\ ctl.dirs \subseteq ctl'.dirs
    BY <1>1, <1>7, <2>1 DEF CtlHonest
  <2> QED BY <1>2, <1>4, <1>7, <2>1, <2>2, CtlMove
<1> QED BY <1>5, <1>6, <1>7 DEF FinishBurst

LEMMA UnwindBurstMove ==
  ASSUME NEW x, NEW top, NEW y, Own(x, top, y), UnwindBurst
  PROVE  OwnMove(x, x, top, y)
<1>1. BurstHonest(burst, tx, rx, ctl.delegate, x, top, y) /\ DOMAIN burst = DOMAIN IdleBurst
  BY OwnParts DEF BurstHonest
<1>2. wire' = wire /\ burst' = IdleBurst
  BY DEF UnwindBurst
<1>3. DOMAIN burst' = DOMAIN burst /\ burst'.pc # "picked" /\ burst'.first = NoPacket
  BY <1>1, <1>2 DEF IdleBurst
<1>4. BurstHonest(burst', tx, rx, ctl.delegate, x, top, y)
  BY <1>1, <1>3, BurstOn
<1>5. CASE Cancel("DelegateGone")
  BY <1>2, <1>4, <1>5, CancelMove
<1>6. CASE UNCHANGED <<ctl, tx, rx, io>>
  <2>1. SameTx(tx, tx') /\ tx'.acked \subseteq tx.acked /\ SameRx(rx, rx')
    BY <1>6 DEF SameTx, SameRx
  <2> QED BY <1>2, <1>4, <1>6, <2>1, QuietMove
<1> QED BY <1>5, <1>6 DEF UnwindBurst

(* shutdown(false) and shutdown(true)                                       *)
LEMMA ShutdownMove ==
  ASSUME NEW x, NEW top, NEW y, Own(x, top, y),
         ShutdownNow \/ CheckShutdown \/ BeginShutdown
  PROVE  OwnMove(x, x, top, y)
<1>1. /\ CtlHonest(ctl) /\ DOMAIN ctl = {"state", "dirs", "delegate", "error"}
      /\ BurstHonest(burst, tx, rx, ctl.delegate, x, top, y)
  BY OwnParts DEF BooksInv
<1>2. burst' = burst /\ wire' = wire
  BY DEF ShutdownNow, CheckShutdown, BeginShutdown
<1>3. BurstHonest(burst', tx, rx, ctl.delegate, x, top, y)
  BY <1>1, <1>2
<1>4. CASE ShutdownNow
  BY <1>2, <1>3, <1>4, CancelMove DEF ShutdownNow
<1>5. CASE CheckShutdown
  BY <1>5, StillMove DEF CheckShutdown
<1>6. CASE BeginShutdown
  <2>1. CASE ~ctl.delegate
    <3>1. ctl' = [ctl EXCEPT !.state = "Crashed"] /\ UNCHANGED <<tx, rx, io>>
      BY <1>6, <2>1 DEF BeginShutdown
    <3>2. /\ ctl'.state = "Crashed" /\ ctl'.delegate = ctl.delegate /\ ctl'.dirs = ctl.dirs
          /\ ctl'.error = ctl.error
      BY <1>1, <3>1
    <3>3. CtlHonest(ctl') /\ ctl.dirs \subseteq ctl'.dirs
      BY <1>1, <2>1, <3>2 DEF CtlHonest
    <3> QED BY <1>2, <1>3, <3>1, <3>2, <3>3, CtlMove
  <2>2. CASE ctl.delegate /\ ~ToWrite /\ Sending(tx) = {}
    <3>1. /\ ctl' = [ctl EXCEPT !.state = "Shutdown", !.delegate = FALSE,
                                !.dirs = @ \cup {"Receive"}]
          /\ tx' = Cancelled(tx) /\ rx' = [rx EXCEPT !.pending = << >>] /\ io' = io
      BY <1>6, <2>2 DEF BeginShutdown
    <3>2. /\ ctl'.state = "Shutdown" /\ ctl'.delegate = FALSE
          /\ ctl'.dirs = ctl.dirs \cup {"Receive"} /\ ctl'.error = ctl.error
      BY <1>1, <3>1
    <3>3. ctl'.error # "IllegalStreamState" /\ ctl.dirs \subseteq ctl'.dirs
      BY <1>1, <3>2 DEF CtlHonest
    <3>4. /\ Own(x, top, y) /\ tx' = Cancelled(tx) /\ rx' = [rx EXCEPT !.pending = << >>]
          /\ wire' = wire /\ BurstHonest(burst', tx, rx, ctl.delegate, x, top, y)
          /\ DOMAIN io' = DOMAIN io /\ io'.written = io.written
          /\ io'.attached = io.attached /\ io'.delivered = io.delivered
          /\ io'.kept = io.kept /\ io'.unread = io.unread
      BY <1>2, <1>3, <3>1
    <3> QED BY <3>2, <3>3, <3>4, EndedMove
  <2>3. CASE ctl.delegate /\ ~(~ToWrite /\ Sending(tx) = {})
    <3>1. /\ ctl' = [ctl EXCEPT !.state = "ShuttingDown", !.dirs = @ \cup {"Receive"}]
          /\ UNCHANGED <<tx, rx, io>>
      BY <1>6, <2>3 DEF BeginShutdown
    <3>2. /\ ctl'.state = "ShuttingDown" /\ ctl'.delegate = ctl.delegate
          /\ ctl'.dirs = ctl.dirs \cup {"Receive"} /\ ctl'.error = ctl.error
      BY <1>1, <3>1
    <3>3. CtlHonest(ctl') /\ ctl.dirs \subseteq ctl'.dirs
      BY <1>1, <2>3, <3>2 DEF CtlHonest
    <3> QED BY <1>2, <1>3, <3>1, <3>2, <3>3, CtlMove
  <2> QED BY <2>1, <2>2, <2>3
<1> QED BY <1>4, <1>5, <1>6

LEMMA RunGrows ==
  ASSUME NEW k \in Int, NEW n \in Nat, NEW q, q = [i \in 1..n |-> k + i]
  PROVE  Append(q, k + n + 1) = [i \in 1..n + 1 |-> k + i]
<1>1. q \in Seq(Int) /\ Len(q) = n
  <2>1. \A i \in 1..n : k + i \in Int
    OBVIOUS
  <2>2. q \in [1..n -> Int]
    BY <2>1
  <2> QED BY <2>2, TableIsSequence
<1>2. Append(q, k + n + 1) = [i \in 1..n + 1 |-> IF i <= n THEN q[i] ELSE k + n + 1]
  BY <1>1
<1>3. ASSUME NEW i \in 1..n + 1
      PROVE  (IF i <= n THEN q[i] ELSE k + n + 1) = k + i
  <2>1. CASE i <= n
    <3>1. i \in 1..n
      BY <2>1
    <3> QED BY <2>1, <3>1
  <2>2. CASE ~(i <= n)
    <3>1. i = n + 1
      BY <2>2
    <3> QED BY <2>2, <3>1
  <2> QED BY <2>1, <2>2
<1> QED BY <1>2, <1>3

(* Nothing written is no run at all.                                        *)
LEMMA CountNone == Count(0) = << >>
BY DEF Count

(* A step that touches only the streams of the application.                 *)
LEMMA IoMove ==
  ASSUME NEW x, NEW top, NEW y, Own(x, top, y),
         UNCHANGED <<ctl, tx, rx, burst, wire>>, IoHonest(ctl, tx, rx, io')
  PROVE  OwnMove(x, x, top, y)
<1> DEFINE d == ctl.delegate
<1>1. /\ TxHonest(tx, rx, d, x, top, y) /\ RxHonest(rx, d, top, y)
      /\ WireHonest(wire, tx, rx, d, x, top, y)
      /\ BurstHonest(burst, tx, rx, d, x, top, y) /\ CtlHonest(ctl)
      /\ Later(tx.next, x, tx.next, x) /\ rx.gsnfr \in Nat /\ tx.next \in Nat
  BY OwnParts DEF RxHonest
<1>2. EndInv(ctl, tx, rx, io', burst, wire, x, top, y)
  BY <1>1 DEF EndInv
<1> HIDE DEF d
<1>3. SameTx(tx, tx) /\ SameRx(rx, rx)
  BY DEF SameTx, SameRx
<1>4. Grows(rx, d, rx, d) /\ KeepsSending(tx, d, tx, d)
  BY <1>1, <1>3, GrowsSame, SameSending
<1> QED BY <1>1, <1>2, <1>4 DEF OwnMove, d

LEMMA WriteMove ==
  ASSUME NEW x, NEW top, NEW y, Own(x, top, y), Write
  PROVE  OwnMove(x, x, top, y)
<1> DEFINE k == tx.next - FirstSend
           n == io.written - k
<1>1. /\ DOMAIN io = IoFields /\ io.written \in Nat /\ k <= io.written
      /\ (StreamsGiven => io.attached) /\ HandedOver(ctl, rx, io)
      /\ UnreadFollows(ctl, tx, io)
      /\ tx.next \in Nat /\ FirstSend <= tx.next
  BY OwnParts DEF IoHonest, TxHonest
<1>2. /\ ~(ctl.state \in {"Shutdown", "Crashed"} /\ io.attached) /\ io.written < MaxUnits
      /\ io' = [io EXCEPT !.written = @ + 1, !.unread = Append(@, io.written + 1)]
      /\ UNCHANGED <<ctl, tx, rx, burst, wire>>
  BY DEF Write, Running, IsShutdown
<1>3. k \in Nat /\ n \in Nat /\ k + n + 1 = io.written + 1 /\ io.written + 1 - k = n + 1
  <2>1. k \in Nat
    BY <1>1, StreamAssumption
  <2> HIDE DEF k
  <2> QED BY <1>1, <2>1
<1>4. io.unread = [i \in 1..n |-> k + i]
  BY <1>1, <1>2 DEF UnreadFollows
<1> HIDE DEF k, n
<1>5. Append(io.unread, io.written + 1) = [i \in 1..n + 1 |-> k + i]
  <2>1. k \in Int
    BY <1>3
  <2>2. Append(io.unread, k + n + 1) = [i \in 1..n + 1 |-> k + i]
    BY <1>3, <1>4, <2>1, RunGrows
  <2> QED BY <1>3, <2>2
<1>6. /\ DOMAIN io' = IoFields /\ io'.written = io.written + 1
      /\ io'.attached = io.attached /\ io'.delivered = io.delivered /\ io'.kept = io.kept
      /\ io'.unread = [i \in 1..n + 1 |-> k + i]
  BY <1>1, <1>2, <1>5 DEF IoFields
<1>7. io'.written - k = n + 1
  BY <1>3, <1>6
<1>8. UnreadFollows(ctl, tx, io')
  BY <1>6, <1>7 DEF UnreadFollows, k
<1>9. HandedOver(ctl, rx, io')
  BY <1>1, <1>6, HandedSame
<1>10. io'.written \in Nat /\ k <= io'.written /\ io'.written <= MaxUnits
  <2>1. io.written \in Nat /\ MaxUnits \in Nat /\ io.written < MaxUnits /\ k <= io.written
    BY <1>1, <1>2, StreamAssumption DEF k
  <2>2. k \in Nat /\ io'.written = io.written + 1
    BY <1>3, <1>6
  <2> QED BY <2>1, <2>2
<1>11. IoHonest(ctl, tx, rx, io')
  BY <1>1, <1>6, <1>8, <1>9, <1>10 DEF IoHonest, k
<1> QED BY <1>2, <1>11, IoMove

LEMMA SetStreamsMove ==
  ASSUME NEW x, NEW top, NEW y, Own(x, top, y), SetStreams
  PROVE  OwnMove(x, x, top, y) /\ io.delivered = << >> /\ io'.written = io.written
<1> DEFINE k == rx.gsnfr - FirstReceive + 1
<1>1. /\ IoHonest(ctl, tx, rx, io) /\ DOMAIN io = IoFields /\ HandedOver(ctl, rx, io)
      /\ rx.gsnfr \in Nat /\ FirstReceive - 1 <= rx.gsnfr
  BY OwnParts DEF IoHonest, RxHonest
<1>2. /\ ~io.attached /\ UNCHANGED <<ctl, tx, rx, burst, wire>>
      /\ io' = [io EXCEPT !.attached = TRUE, !.kept = << >>,
                  !.delivered = IF "Receive" \in ctl.dirs THEN @ ELSE @ \o io.kept]
  BY DEF SetStreams
<1>3. /\ DOMAIN io' = IoFields /\ io'.written = io.written /\ io'.attached
      /\ io'.kept = << >> /\ io'.unread = io.unread
      /\ io'.delivered = IF "Receive" \in ctl.dirs THEN io.delivered
                         ELSE io.delivered \o io.kept
  BY <1>1, <1>2 DEF IoFields
<1>4. k \in Nat
  BY <1>1, StreamAssumption
<1>5. io.delivered = << >> /\ ("Receive" \notin ctl.dirs => io.kept = Count(k))
  BY <1>1, <1>2 DEF HandedOver
<1> HIDE DEF k
<1>6. Count(k) \in Seq(Nat)
  <2>1. Count(k) \in [1..k -> Nat]
    BY <1>4 DEF Count
  <2> QED BY <1>4, <2>1, TableIsSequence
<1>7. IF "Receive" \in ctl.dirs THEN io'.delivered = << >> ELSE io'.delivered = Count(k)
  <2>1. << >> \o Count(k) = Count(k)
    BY <1>6
  <2> QED BY <1>3, <1>5, <2>1
<1>8. \E n \in 0..k : io'.delivered = Count(n)
  <2>1. 0 \in 0..k /\ k \in 0..k
    BY <1>4
  <2> QED BY <1>7, <2>1, CountNone
<1>9. HandedOver(ctl, rx, io')
  BY <1>3, <1>7, <1>8 DEF HandedOver, k
<1>10. UnreadFollows(ctl, tx, io')
  BY <1>1, <1>2, <1>3 DEF IoHonest, UnreadFollows
<1>11. IoHonest(ctl, tx, rx, io')
  BY <1>1, <1>3, <1>9, <1>10 DEF IoHonest
<1> QED BY <1>2, <1>3, <1>5, <1>11, IoMove

-----------------------------------------------------------------------------
(* Every step of this end.                                                  *)

ByItself ==
  \/ BeginBurst \/ PickResend \/ CreatePacket \/ NothingToSend
  \/ SendPacket \/ SendFails \/ AfterSend \/ FinishBurst \/ UnwindBurst
  \/ OnBurstTimer \/ OnEnsureTimer \/ OnAddTimer \/ OnSendNow
  \/ Write \/ SetStreams \/ ShutdownNow \/ CheckShutdown \/ BeginShutdown
  \/ SendIndication

(* What the applications see of a step: one writes, or one is handed more.  *)
Handed(o, o1) ==
  \/ o1.written = o.written + 1 /\ o1.delivered = o.delivered
  \/ /\ o1.written = o.written
     /\ \E k, n \in Nat : k <= n /\ o.delivered = Count(k) /\ o1.delivered = Count(n)

LEMMA ByItselfMoves ==
  ASSUME NEW x, NEW top, NEW y, Own(x, top, y), ByItself
  PROVE  (\E x1 \in History : OwnMove(x, x1, top, y)) /\ BooksInv'
<1>1. x \in History /\ BooksInv
  BY DEF Own
<1>2. CASE SendIndication
  <2>1. UNCHANGED <<ctl, tx, rx, io, burst, wire>>
    BY <1>2 DEF SendIndication
  <2>2. BooksInv'
    BY <1>1, <2>1, IdleStep
  <2> QED BY <1>1, <2>1, <2>2, StillMove
<1>3. CASE OnBurstTimer \/ OnEnsureTimer \/ OnAddTimer \/ OnSendNow
  BY <1>1, <1>3, TimerMove, CallbackStep DEF Callback
<1>4. CASE Write \/ SetStreams \/ ShutdownNow \/ CheckShutdown \/ BeginShutdown
  <2>1. OwnMove(x, x, top, y)
    BY <1>4, WriteMove, SetStreamsMove, ShutdownMove
  <2>2. BooksInv'
    BY <1>1, <1>4, ApplicationStep DEF Application
  <2> QED BY <1>1, <2>1, <2>2
<1>5. CASE \/ BeginBurst \/ PickResend \/ CreatePacket \/ NothingToSend
           \/ SendPacket \/ SendFails \/ AfterSend \/ FinishBurst \/ UnwindBurst
  <2>1. \E x1 \in History : OwnMove(x, x1, top, y)
    BY <1>1, <1>5, LoopMove, PickResendMove, CreatePacketMove, SendPacketMove,
       FinishBurstMove, UnwindBurstMove
  <2>2. BooksInv'
    BY <1>1, <1>5, SendNowStep DEF SendNow
  <2> QED BY <2>1, <2>2
<1> QED BY <1>2, <1>3, <1>4, <1>5 DEF ByItself

(* What a step of this end shows the applications.                          *)
LEMMA ByItselfHanded ==
  ASSUME NEW x, NEW top, NEW y, Own(x, top, y), ByItself
  PROVE  Handed(io, io')
<1> DEFINE k == rx.gsnfr - FirstReceive + 1
<1>1. /\ DOMAIN io = IoFields /\ k \in Nat
      /\ \E n \in 0..k : io.delivered = Count(n)
  BY OwnParts, StreamAssumption DEF IoHonest, HandedOver, RxHonest
<1>2. PICK n \in Nat : io.delivered = Count(n)
  BY <1>1
<1> HIDE DEF k
<1>3. ASSUME io'.written = io.written, io'.delivered = io.delivered PROVE Handed(io, io')
  BY <1>2, <1>3 DEF Handed
<1>4. ASSUME io' = io PROVE Handed(io, io')
  BY <1>3, <1>4
<1>5. ASSUME NEW reason, Cancel(reason) PROVE Handed(io, io')
  <2>1. io'.written = io.written /\ io'.delivered = io.delivered
    BY <1>1, <1>5 DEF Cancel, IoFields
  <2> QED BY <1>3, <2>1
<1>6. CASE Write
  <2>1. io'.written = io.written + 1 /\ io'.delivered = io.delivered
    BY <1>1, <1>6 DEF Write, IoFields
  <2> QED BY <2>1 DEF Handed
<1>7. CASE SetStreams
  <2>1. /\ OwnMove(x, x, top, y) /\ io.delivered = << >> /\ io'.written = io.written
    BY <1>7, SetStreamsMove
  <2>2. /\ HandedOver(ctl', rx', io') /\ rx'.gsnfr \in Nat
        /\ FirstReceive - 1 <= rx'.gsnfr
    BY <2>1 DEF OwnMove, EndInv, IoHonest, RxHonest
  <2>3. rx'.gsnfr - FirstReceive + 1 \in Nat
    BY <2>2, StreamAssumption
  <2>4. PICK i \in 0..rx'.gsnfr - FirstReceive + 1 : io'.delivered = Count(i)
    BY <2>2 DEF HandedOver
  <2>5. i \in Nat /\ 0 \in Nat /\ 0 <= i
    BY <2>3
  <2> QED BY <2>1, <2>4, <2>5, CountNone DEF Handed
<1>8. CASE CreatePacket
  <2>1. io'.written = io.written /\ io'.delivered = io.delivered
    BY <1>1, <1>8 DEF CreatePacket, IoFields
  <2> QED BY <1>3, <2>1
<1>9. CASE \/ BeginBurst \/ PickResend \/ NothingToSend
           \/ SendPacket \/ SendFails \/ AfterSend
           \/ OnBurstTimer \/ OnEnsureTimer \/ OnAddTimer \/ OnSendNow
           \/ CheckShutdown \/ SendIndication
  BY <1>4, <1>9 DEF BeginBurst, PickResend, NothingToSend, SendPacket, SendFails, AfterSend,
     OnBurstTimer, OnEnsureTimer, OnAddTimer, OnSendNow, CheckShutdown, SendIndication
<1>10. CASE FinishBurst \/ UnwindBurst \/ ShutdownNow \/ BeginShutdown
  BY <1>4, <1>5, <1>10 DEF FinishBurst, UnwindBurst, ShutdownNow, BeginShutdown
<1> QED BY <1>6, <1>7, <1>8, <1>9, <1>10 DEF ByItself

-----------------------------------------------------------------------------
(* What an ACK does to the sender.                                          *)

LEMMA SpeaksSame ==
  ASSUME NEW a, NEW b, b.gsnr = a.gsnr, b.gsnfr = a.gsnfr, b.vector = a.vector,
         b.vp = a.vp, b.pg = a.pg, b.xp = a.xp,
         NEW r, NEW d, NEW F, NEW top, NEW x, Speaks(a, r, d, F, top, x)
  PROVE  Speaks(b, r, d, F, top, x)
<1>1. Heard(b) = Heard(a)
  BY DEF Heard
<1>2. Told(b) = Told(a)
  BY <1>1 DEF Told
<1>3. Honest(b, F, top, x)
  BY <1>1, <1>2 DEF Speaks, Honest, Bounded, VectorHonest
<1>4. Knows(b, r, d)
  BY <1>2 DEF Speaks, Knows
<1> QED BY <1>3, <1>4 DEF Speaks

(* What leaves the packets and the freed ones alone.                        *)
Same(t, u) == DOMAIN u = TxFields /\ SameTx(t, u) /\ u.acked = t.acked

LEMMA DoNotResendSame ==
  ASSUME NEW t, DOMAIN t = TxFields, NEW S
  PROVE  Same(t, DoNotResend(t, S)) /\ Same(t, ReleaseBaton(t, S))
         /\ Same(t, FlagForResending(t, S)) /\ Same(t, ForgetForce(t))
BY DEF Same, SameTx, TxFields, DoNotResend, ReleaseBaton, FlagForResending, ForgetForce

LEMMA FlagAsReceivedTakes ==
  ASSUME NEW t, DOMAIN t = TxFields, NEW S
  PROVE  LET u == FlagAsReceived(t, S)
         IN  DOMAIN u = TxFields /\ SameTx(t, u) /\ u.acked = t.acked \cup S
<1> DEFINE d == DoNotResend(t, S)
           v == ReleaseBaton(d, S)
           u == FlagAsReceived(t, S)
<1>1. Same(t, d)
  BY DoNotResendSame
<1> HIDE DEF d
<1>2. Same(d, v)
  BY <1>1, DoNotResendSame DEF Same
<1> HIDE DEF v
<1>3. DOMAIN v = TxFields /\ SameTx(t, v) /\ v.acked = t.acked
  BY <1>1, <1>2 DEF Same, SameTx
<1>4. u = [v EXCEPT !.acked = @ \cup S]
  BY DEF FlagAsReceived, d, v
<1> HIDE DEF u
<1>5. DOMAIN u = TxFields /\ SameTx(v, u) /\ u.acked = v.acked \cup S
  BY <1>3, <1>4 DEF SameTx, TxFields
<1> QED BY <1>3, <1>5 DEF u, SameTx

LEMMA HandlePacketLossSame ==
  ASSUME NEW t, DOMAIN t = TxFields
  PROVE  Same(t, HandlePacketLoss(t))
<1> DEFINE v == [t EXCEPT !.frozen = TRUE, !.timers = @ \ {"add"}]
           spare == IF v.avail = 0 /\ v.holding # {}
                      THEN v.holding \ {Smallest(v.holding)} ELSE v.holding
           u == HandlePacketLoss(t)
<1>1. /\ DOMAIN v = TxFields /\ v.next = t.next /\ v.xorNow = t.xorNow
      /\ v.packets = t.packets /\ v.acked = t.acked
  BY DEF TxFields
<1>2. \/ u = [v EXCEPT !.ppb = @ \div 2]
      \/ u = [v EXCEPT !.avail = @ - 1]
      \/ u = [v EXCEPT !.holding = @ \ {Smallest(spare)}]
      \/ u = v
  BY DEF HandlePacketLoss
<1> HIDE DEF u, v, spare
<1>3. Same(t, u)
  BY <1>1, <1>2 DEF Same, SameTx, TxFields
<1> QED BY <1>3 DEF u

LEMMA HandleUnfreezingSame ==
  ASSUME NEW t, DOMAIN t = TxFields, NEW good
  PROVE  Same(t, HandleUnfreezing(t, good))
BY DEF Same, SameTx, TxFields, HandleUnfreezing

LEMMA HandleForcedAckSame ==
  ASSUME NEW t, DOMAIN t = TxFields, NEW id
  PROVE  Same(t, HandleForcedAck(t, id))
<1> DEFINE S == {s \in Sending(t) : s <= t.forceSeq}
           f == FlagForResending(t, S)
           v == ReleaseBaton(f, S)
           u == HandleForcedAck(t, id)
<1>1. Same(t, f)
  BY DoNotResendSame
<1> HIDE DEF f
<1>2. Same(f, v)
  BY <1>1, DoNotResendSame DEF Same
<1> HIDE DEF v
<1>3. u = [v EXCEPT !.forceID = 0, !.forceNext = FALSE] \/ u = t
  BY DEF HandleForcedAck, f, v
<1>4. DOMAIN v = TxFields /\ SameTx(t, v) /\ v.acked = t.acked
  BY <1>1, <1>2 DEF Same, SameTx
<1> HIDE DEF u
<1>5. Same(t, u)
  BY <1>3, <1>4 DEF Same, SameTx, TxFields
<1> QED BY <1>5 DEF u

(* What the ACK a takes from the sender: packets up to its GSNFR, and what  *)
(* it tells of the rest is freed.                                           *)
Took(t, u, a) ==
  /\ DOMAIN u = TxFields /\ u.next = t.next /\ u.xorNow = t.xorNow
  /\ Sending(u) \subseteq Sending(t)
  /\ \A s \in Sending(u) : u.packets[s] = t.packets[s]
  /\ \A s \in Sending(t) \ Sending(u) : s <= a.gsnfr
  /\ \A s \in Sending(u) : \A v \in Sending(t) : s <= v => v \in Sending(u)
  /\ \A s \in u.acked \ t.acked :
       s = a.gsnr \/ (a.gsnr # a.gsnfr /\ s \in Told(a))

LEMMA TookNone ==
  ASSUME NEW t, NEW u, Same(t, u), NEW a
  PROVE  Took(t, u, a)
BY DEF Took, Same, SameTx, Sending

LEMMA TookOn ==
  ASSUME NEW t, NEW u, NEW v, NEW a, Took(t, u, a), Same(u, v)
  PROVE  Took(t, v, a)
BY DEF Took, Same, SameTx, Sending

LEMMA EraseTakes ==
  ASSUME NEW t, DOMAIN t = TxFields, NEW a, Sending(t) \subseteq Nat, a.gsnfr \in Nat
  PROVE  LET S == {s \in Sending(t) : s <= a.gsnfr}
         IN  Took(t, Erase(t, S), a)
<1> DEFINE S == {s \in Sending(t) : s <= a.gsnfr}
           f == FlagAsReceived(t, S)
           u == Erase(t, S)
<1>1. DOMAIN f = TxFields /\ SameTx(t, f) /\ f.acked = t.acked \cup S
  BY FlagAsReceivedTakes
<1> HIDE DEF f
<1>2. u = [f EXCEPT !.packets = Keep(@, Sending(t) \ S), !.acked = @ \ S, !.failed = @ \ S]
  BY DEF Erase, f
<1> HIDE DEF u
<1>3. /\ DOMAIN u = TxFields /\ u.next = t.next /\ u.xorNow = t.xorNow
      /\ u.packets = Keep(t.packets, Sending(t) \ S)
      /\ u.acked \subseteq t.acked
  BY <1>1, <1>2 DEF SameTx, TxFields
<1>4. /\ Sending(u) = Sending(t) \ S
      /\ \A s \in Sending(u) : u.packets[s] = t.packets[s]
  BY <1>3 DEF Sending, Keep
<1>5. Took(t, u, a)
  BY <1>3, <1>4 DEF Took
<1> QED BY <1>5 DEF u

(* The packets a vector reports are those it tells of that are still there. *)
LEMMA ReportedIsTold ==
  ASSUME NEW t, Sending(t) \subseteq Nat, NEW a, a.gsnfr \in Nat,
         Heard(a) \in Seq(VectorStates)
  PROVE  Reported(t, a, Arrived) = Told(a) \cap Sending(t)
<1> DEFINE v == Heard(a)
<1>1. Len(v) \in Nat
  OBVIOUS
<1>2. Reported(t, a, Arrived) =
        {s \in Sending(t) : s > a.gsnfr /\ s - a.gsnfr <= Len(v) /\ v[s - a.gsnfr] \in Arrived}
  BY DEF Reported, Heard
<1>3. Told(a) = {s \in a.gsnfr + 1 .. a.gsnfr + Len(v) : v[s - a.gsnfr] \in Arrived}
  BY DEF Told
<1> HIDE DEF v
<1>4. ASSUME NEW s \in Nat
      PROVE  s \in a.gsnfr + 1 .. a.gsnfr + Len(v) <=> s > a.gsnfr /\ s - a.gsnfr <= Len(v)
  BY <1>1
<1> QED BY <1>2, <1>3, <1>4

LEMMA HandleVectorTakes ==
  ASSUME NEW t, DOMAIN t = TxFields, Sending(t) \subseteq Nat, NEW a, a.gsnfr \in Nat,
         Heard(a) \in Seq(VectorStates), a.gsnr # a.gsnfr
  PROVE  Took(t, HandleVector(t, a), a)
<1> DEFINE lost == NewlyLost(t, a)
           got  == Reported(t, a, Arrived) \cup ({a.gsnr} \cap Sending(t))
           n == [t EXCEPT !.failed = @ \cup lost]
           f == FlagForResending(n, lost)
           v == FlagAsReceived(f, got)
           u == HandleVector(t, a)
<1>1. u = v \/ u = HandlePacketLoss(v)
  BY DEF HandleVector
<1>2. got \subseteq Told(a) \cup {a.gsnr}
  BY ReportedIsTold
<1> HIDE DEF u, lost, got
<1>3. Same(t, n)
  BY DEF Same, SameTx, TxFields
<1> HIDE DEF n
<1>4. Same(n, f)
  BY <1>3, DoNotResendSame DEF Same
<1> HIDE DEF f
<1>5. DOMAIN f = TxFields /\ SameTx(t, f) /\ f.acked = t.acked
  BY <1>3, <1>4 DEF Same, SameTx
<1>6. DOMAIN v = TxFields /\ SameTx(f, v) /\ v.acked = f.acked \cup got
  BY <1>5, FlagAsReceivedTakes
<1> HIDE DEF v
<1>7. Took(t, v, a)
  <2>1. /\ DOMAIN v = TxFields /\ v.next = t.next /\ v.xorNow = t.xorNow
        /\ v.packets = t.packets /\ Sending(v) = Sending(t)
        /\ v.acked = t.acked \cup got
    BY <1>5, <1>6 DEF SameTx, Sending
  <2> QED BY <1>2, <2>1 DEF Took
<1>8. Same(v, HandlePacketLoss(v))
  BY <1>6, HandlePacketLossSame
<1>9. Took(t, u, a)
  BY <1>1, <1>7, <1>8, TookOn
<1> QED BY <1>9 DEF u

LEMMA TookBoth ==
  ASSUME NEW t, NEW u, NEW v, NEW a, Took(t, u, a), Took(u, v, a), Sending(t) \subseteq Nat
  PROVE  Took(t, v, a)
<1>1. /\ DOMAIN v = TxFields /\ v.next = t.next /\ v.xorNow = t.xorNow
      /\ Sending(v) \subseteq Sending(t)
      /\ \A s \in Sending(v) : v.packets[s] = t.packets[s]
  BY DEF Took
<1>2. \A s \in Sending(t) \ Sending(v) : s <= a.gsnfr
  BY DEF Took
<1>3. \A s \in v.acked \ t.acked : s = a.gsnr \/ (a.gsnr # a.gsnfr /\ s \in Told(a))
  BY DEF Took
<1>4. ASSUME NEW s \in Sending(v), NEW w \in Sending(t), s <= w PROVE w \in Sending(v)
  <2>1. s \in Sending(u) /\ w \in Sending(u)
    BY <1>4 DEF Took
  <2> QED BY <1>4, <2>1 DEF Took
<1> QED BY <1>1, <1>2, <1>3, <1>4 DEF Took

LEMMA HandleAckTakes ==
  ASSUME NEW t, DOMAIN t = TxFields, Sending(t) \subseteq Nat,
         NEW r, NEW a, a.gsnfr \in Nat,
         a.gsnr # a.gsnfr => Heard(a) \in Seq(VectorStates), NEW good
  PROVE  Took(t, HandleAck(t, r, a, good), a)
<1> DEFINE u == Erase(t, {s \in Sending(t) : s <= a.gsnfr})
           v == IF a.gsnr = a.gsnfr THEN u ELSE HandleVector(u, a)
           h == HandleUnfreezing(v, good)
           w == ForgetForce(h)
<1>1. \/ HandleAck(t, r, a, good) = ForgetForce(t)
      \/ HandleAck(t, r, a, good) = t
      \/ HandleAck(t, r, a, good) = w
  BY DEF HandleAck
<1>2. Same(t, t) /\ Same(t, ForgetForce(t))
  BY DoNotResendSame DEF Same, SameTx
<1>3. Took(t, u, a)
  BY EraseTakes
<1> HIDE DEF u
<1>4. DOMAIN u = TxFields /\ Sending(u) \subseteq Nat
  BY <1>3 DEF Took
<1>5. Took(t, v, a)
  <2>1. CASE a.gsnr = a.gsnfr
    BY <1>3, <2>1
  <2>2. CASE a.gsnr # a.gsnfr
    <3>1. Took(u, HandleVector(u, a), a)
      BY <1>4, <2>2, HandleVectorTakes
    <3> QED BY <1>3, <2>2, <3>1, TookBoth
  <2> QED BY <2>1, <2>2
<1> HIDE DEF v
<1>6. Same(v, h)
  BY <1>5, HandleUnfreezingSame DEF Took
<1> HIDE DEF h
<1>7. Same(h, w)
  BY <1>6, DoNotResendSame DEF Same
<1> HIDE DEF w
<1>8. Took(t, w, a)
  <2>1. Took(t, h, a)
    BY <1>5, <1>6, TookOn
  <2> QED BY <1>7, <2>1, TookOn
<1> QED BY <1>1, <1>2, <1>8, TookNone

(* handleAck throws at no honest ACK.                                       *)
LEMMA HonestIsLegal ==
  ASSUME NEW t, NEW r, NEW d, NEW x \in History, NEW top, NEW y,
         TxHonest(t, r, d, x, top, y),
         NEW a, Honest(a, FirstSend, t.next, x), NEW r1
  PROVE  ~AckIllegal(t, r1, a)
<1>1. /\ a.gsnr \in Nat /\ a.gsnfr \in Nat /\ a.gsnfr <= a.gsnr /\ a.gsnr < t.next
      /\ FirstSend - 1 <= a.gsnfr /\ t.next \in Nat /\ FirstSend \in Nat \ {0}
      /\ Sending(t) \subseteq FirstSend..t.next - 1
  BY StreamAssumption DEF Honest, Bounded, TxHonest
<1>2. ASSUME NEW s \in Sending(t)
      PROVE  t.packets[s].xorNow = x[s] /\ t.packets[s].ps = Ps(x, s)
  BY DEF TxHonest, SentAs, Is
<1>3. a.gsnfr \in Sending(t) => a.xp = t.packets[a.gsnfr].xorNow
  BY <1>2 DEF Honest
<1>4. ASSUME a.gsnr \in Sending(t) PROVE a.pg = t.packets[a.gsnr].ps
  <2>1. a.gsnr >= FirstSend
    BY <1>1, <1>4
  <2> QED BY <1>2, <1>4, <2>1 DEF Honest
<1>5. ASSUME Sending(t) # {}, a.gsnr # a.gsnfr PROVE ~VectorParityWrong(t, a)
  <2> DEFINE v == DecodeVector(a.vector, a.gsnr, a.gsnfr)
             left == {s \in Sending(t) : s > a.gsnfr}
             gone == {i \in 1..Len(v) : /\ v[i] \in Arrived
                                        /\ \E s \in left : a.gsnfr + i < s
                                        /\ a.gsnfr + i \notin left}
  <2>1. VectorHonest(a, x)
    BY <1>5 DEF Honest
  <2>2. /\ Heard(a) \in Seq(VectorStates) /\ a.vp = XOR(a.xp, OddIn(x, Told(a)))
        /\ Told(a) \subseteq FirstSend..a.gsnr - 1
    BY <2>1, ToldBelow, StreamAssumption DEF VectorHonest, Honest
  <2>3. t.next - 1 \in Sending(t)
    <3>1. PICK s \in Sending(t) : TRUE
      BY <1>5
    <3>2. s \in FirstSend..t.next - 1 /\ t.next - 1 \in s..t.next - 1
      BY <1>1, <3>1
    <3> QED BY <3>1, <3>2 DEF TxHonest, UpToNext
  <2>4. ASSUME gone = {} PROVE Told(a) \subseteq Sending(t)
    <3> SUFFICES ASSUME NEW s \in Told(a) PROVE s \in Sending(t)
      OBVIOUS
    <3>1. v = Heard(a) /\ Len(v) \in Nat
      BY <2>2 DEF Heard
    <3>2. s \in a.gsnfr + 1 .. a.gsnfr + Len(v) /\ v[s - a.gsnfr] \in Arrived
      BY <3>1 DEF Told
    <3> HIDE DEF v
    <3>3. s - a.gsnfr \in 1..Len(v) /\ a.gsnfr + (s - a.gsnfr) = s
      BY <1>1, <3>1, <3>2
    <3>4. s - a.gsnfr \notin gone
      BY <2>4
    <3>5. s < t.next - 1 /\ t.next - 1 > a.gsnfr
      BY <1>1, <2>2, <3>2, <3>1, SMTT(60)
    <3>6. t.next - 1 \in left
      BY <2>3, <3>5
    <3> HIDE DEF left
    <3>7. s \in left
      BY <3>2, <3>3, <3>4, <3>5, <3>6
    <3> QED BY <3>7 DEF left
  <2>5. ASSUME Told(a) \subseteq Sending(t)
        PROVE  Parity(t.packets, Reported(t, a, Arrived)) = OddIn(x, Told(a))
    <3>1. Reported(t, a, Arrived) = Told(a)
      <4>1. Sending(t) \subseteq Nat
        BY <1>1
      <4> QED BY <1>1, <2>2, <2>5, <4>1, ReportedIsTold
    <3>2. {s \in Told(a) : t.packets[s].ps} = {s \in Told(a) : Ps(x, s)}
      BY <1>2, <2>5
    <3> QED BY <3>1, <3>2 DEF Parity, OddIn
  <2>6. VectorParityWrong(t, a) => /\ gone = {}
          /\ a.vp # XOR(a.xp, Parity(t.packets, Reported(t, a, Arrived)))
    BY DEF VectorParityWrong
  <2> HIDE DEF gone
  <2> QED BY <2>2, <2>4, <2>5, <2>6
<1> QED BY <1>1, <1>3, <1>4, <1>5 DEF AckIllegal

LEMMA TookTx ==
  ASSUME NEW t, NEW r, NEW d, NEW x, NEW top, NEW y, TxHonest(t, r, d, x, top, y),
         NEW u, NEW a, Took(t, u, a)
  PROVE  TxHonest(u, r, d, x, top, y)
<1>1. /\ u.next = t.next /\ u.xorNow = t.xorNow /\ Sending(u) \subseteq Sending(t)
      /\ \A s \in Sending(u) : u.packets[s] = t.packets[s]
      /\ \A s \in Sending(u) : \A v \in Sending(t) : s <= v => v \in Sending(u)
  BY DEF Took
<1>2. UpToNext(u)
  <2> SUFFICES ASSUME NEW s \in Sending(u), NEW v \in s..u.next - 1 PROVE v \in Sending(u)
    BY DEF UpToNext
  <2>1. s \in Sending(t) /\ v \in s..t.next - 1
    BY <1>1
  <2>2. v \in Sending(t)
    BY <2>1 DEF TxHonest, UpToNext
  <2>3. s <= v
    BY <2>1
  <2> QED BY <1>1, <2>2, <2>3
<1>3. /\ t.next \in Nat /\ FirstSend <= t.next /\ t.xorNow = x[t.next - 1]
      /\ Sending(t) \subseteq FirstSend..t.next - 1
      /\ \A s \in Sending(t) : SentAs(t.packets[s], s, r, d, x, top, y)
  BY DEF TxHonest
<1>4. \A s \in Sending(u) : SentAs(u.packets[s], s, r, d, x, top, y)
  BY <1>1, <1>3
<1>5. u.xorNow = x[u.next - 1] /\ Sending(u) \subseteq FirstSend..u.next - 1
  BY <1>1, <1>3
<1> QED BY <1>1, <1>2, <1>3, <1>4, <1>5 DEF TxHonest

LEMMA TookBelieves ==
  ASSUME NEW t, NEW d, NEW r, NEW e, Believes(t, d, r, e),
         NEW u, NEW a, Took(t, u, a), Knows(a, r, e),
         a.gsnfr \in Nat, r.gsnfr \in Nat
  PROVE  Believes(u, d, r, e)
<1> SUFFICES ASSUME d, NEW s \in FirstSend..u.next - 1
             PROVE  /\ s \notin Sending(u) => s <= r.gsnfr
                    /\ e /\ s \in u.acked => Got(r, s)
  BY DEF Believes
<1>1. u.next = t.next /\ a.gsnfr <= r.gsnfr
  BY DEF Took, Knows
<1>2. s \in FirstSend..t.next - 1
  BY <1>1
<1>3. s \in Int
  BY <1>2
<1>4. s \notin Sending(t) => s <= r.gsnfr
  BY <1>2 DEF Believes
<1>5. e /\ s \in t.acked => Got(r, s)
  BY <1>2 DEF Believes
<1>6. s \in Sending(t) /\ s \notin Sending(u) => s <= r.gsnfr
  <2>1. s \in Sending(t) /\ s \notin Sending(u) => s <= a.gsnfr
    BY DEF Took
  <2> QED BY <1>1, <1>3, <2>1
<1>7. e /\ s \in u.acked /\ s \notin t.acked => Got(r, s)
  BY DEF Took, Knows
<1> QED BY <1>4, <1>5, <1>6, <1>7

(* What a packet or an ACK from the peer, whose receiver is r, does.        *)
Taken(x, top, y, r, e) ==
  /\ EndInv(ctl', tx', rx', io', burst', wire', x, top, y)
  /\ tx'.next = tx.next
  /\ Grows(rx, ctl.delegate, rx', ctl'.delegate)
  /\ Believes(tx', ctl'.delegate, r, e)
  /\ Handed(io, io')

LEMMA HandedNothing ==
  ASSUME NEW x, NEW top, NEW y, Own(x, top, y)
  PROVE  Handed(io, io)
<1> DEFINE k == rx.gsnfr - FirstReceive + 1
<1>1. k \in Nat /\ \E n \in 0..k : io.delivered = Count(n)
  BY OwnParts, StreamAssumption DEF IoHonest, HandedOver, RxHonest
<1> HIDE DEF k
<1>2. PICK n \in Nat : io.delivered = Count(n)
  BY <1>1
<1> QED BY <1>2 DEF Handed

(* Only the sender's record changes, and the hold.                          *)
LEMMA AckTaken ==
  ASSUME NEW x, NEW top, NEW y, Own(x, top, y),
         NEW a, NEW r, NEW e, Speaks(a, r, e, FirstSend, tx.next, x),
         Believes(tx, ctl.delegate, r, e), r.gsnfr \in Nat,
         Took(tx, tx', a), SameRx(rx, rx'), UNCHANGED <<ctl, io, burst, wire>>
  PROVE  Taken(x, top, y, r, e)
<1> DEFINE d == ctl.delegate
<1>1. /\ CtlHonest(ctl)
      /\ TxHonest(tx, rx, d, x, top, y) /\ RxHonest(rx, d, top, y)
      /\ IoHonest(ctl, tx, rx, io) /\ WireHonest(wire, tx, rx, d, x, top, y)
      /\ BurstHonest(burst, tx, rx, d, x, top, y)
      /\ tx.next \in Nat /\ x \in History /\ rx.gsnfr \in Nat
      /\ Later(tx.next, x, tx.next, x) /\ Later(top, y, top, y)
  BY OwnParts DEF RxHonest
<1> HIDE DEF d
<1>2. /\ tx'.next = tx.next /\ rx'.gsnr = rx.gsnr /\ rx'.gsnfr = rx.gsnfr
      /\ rx'.gsnrParity = rx.gsnrParity /\ rx'.xorFull = rx.xorFull
  BY DEF SameRx, Took
<1>3. Later(tx.next, x, tx'.next, x)
  BY <1>1, <1>2
<1>4. Grows(rx, d, rx', d)
  BY <1>1, GrowsSame
<1>5. TxHonest(tx', rx', d, x, top, y)
  <2>1. TxHonest(tx', rx, d, x, top, y)
    BY <1>1, TookTx
  <2>2. SameTx(tx', tx')
    BY DEF SameTx
  <2> QED BY <1>1, <1>4, <2>1, <2>2, TxLater
<1>6. RxHonest(rx', d, top, y)
  BY <1>1, RxLater
<1>7. IoHonest(ctl, tx', rx', io)
  BY <1>1, <1>2, IoOver
<1>8. BurstHonest(burst, tx', rx', d, x, top, y)
  BY <1>1, <1>2, <1>3, <1>4, BurstLater
<1>9. WireHonest(wire, tx', rx', d, x, top, y)
  BY <1>1, <1>3, <1>4, WireLater
<1>10. Believes(tx', d, r, e)
  <2>1. Knows(a, r, e) /\ a.gsnfr \in Nat
    BY DEF Speaks, Honest, Bounded
  <2> QED BY <2>1, TookBelieves DEF d
<1>11. Handed(io, io)
  BY HandedNothing
<1>12. EndInv(ctl, tx', rx', io, burst, wire, x, top, y)
  BY <1>1, <1>5, <1>6, <1>7, <1>8, <1>9 DEF EndInv, d
<1> QED BY <1>2, <1>4, <1>10, <1>11, <1>12 DEF Taken, d

LEMMA SenderFields ==
  ASSUME NEW x, NEW top, NEW y, Own(x, top, y)
  PROVE  /\ DOMAIN tx = TxFields /\ DOMAIN rx = RxFields /\ Sending(tx) \subseteq Nat
         /\ rx.gsnr \in Nat /\ rx.gsnfr \in Nat
<1>1. DOMAIN tx = TxFields
  BY DEF Own, BooksInv, Shape
<1>2. DOMAIN rx = RxFields /\ rx.gsnr \in Nat /\ rx.gsnfr \in Nat
  BY OwnParts DEF RxHonest
<1>3. Sending(tx) \subseteq FirstSend..tx.next - 1 /\ tx.next \in Nat
  BY OwnParts DEF TxHonest
<1>4. Sending(tx) \subseteq Nat
  BY <1>3, StreamAssumption
<1> QED BY <1>1, <1>2, <1>4

LEMMA HandleExternalAckMove ==
  ASSUME NEW x, NEW top, NEW y, Own(x, top, y),
         NEW a, NEW r, NEW e, Speaks(a, r, e, FirstSend, tx.next, x),
         Believes(tx, ctl.delegate, r, e), r.gsnfr \in Nat,
         NEW id, HandleExternalAck(id, a)
  PROVE  Taken(x, top, y, r, e) /\ BooksInv'
<1> DEFINE t == ForgetForce(tx)
<1>1. /\ DOMAIN tx = TxFields /\ DOMAIN rx = RxFields /\ Sending(tx) \subseteq Nat
  BY SenderFields
<1>2. Same(tx, t)
  BY <1>1, DoNotResendSame
<1>3. /\ Honest(a, FirstSend, tx.next, x) /\ a.gsnfr \in Nat
      /\ a.gsnr # a.gsnfr => Heard(a) \in Seq(VectorStates)
  BY DEF Speaks, Honest, Bounded, VectorHonest
<1> HIDE DEF t
<1>4. ~AckIllegal(t, rx, a)
  <2>1. TxHonest(tx, rx, ctl.delegate, x, top, y) /\ x \in History
    BY OwnParts
  <2>2. Took(tx, t, a) /\ t.next = tx.next
    BY <1>2, TookNone DEF Same, SameTx
  <2>3. TxHonest(t, rx, ctl.delegate, x, top, y)
    BY <2>1, <2>2, TookTx
  <2> QED BY <1>3, <2>1, <2>2, <2>3, HonestIsLegal
<1>5. PICK good \in BOOLEAN :
        /\ tx' = [HandleForcedAck(HandleAck(t, rx, a, good), id) EXCEPT
                    !.timers = @ \ {"ensure"}]
        /\ rx' = [rx EXCEPT !.hold = HoldAfter(a.next)]
        /\ UNCHANGED <<ctl, io, burst, wire>>
  BY <1>4 DEF HandleExternalAck, t
<1>6. SameRx(rx, rx')
  BY <1>1, <1>5 DEF SameRx, RxFields
<1>7. Took(tx, tx', a)
  <2> DEFINE u == HandleAck(t, rx, a, good)
             v == HandleForcedAck(u, id)
  <2>1. Took(tx, t, a) /\ DOMAIN t = TxFields /\ Sending(t) \subseteq Nat
    BY <1>1, <1>2, TookNone DEF Same, SameTx, Sending
  <2>2. Took(t, u, a)
    BY <1>3, <2>1, HandleAckTakes
  <2> HIDE DEF u
  <2>3. Same(u, v)
    BY <2>2, HandleForcedAckSame DEF Took
  <2>4. tx' = [v EXCEPT !.timers = @ \ {"ensure"}]
    BY <1>5 DEF u
  <2> HIDE DEF v
  <2>5. Same(v, tx')
    BY <2>3, <2>4 DEF Same, SameTx, TxFields
  <2>6. Took(tx, u, a)
    BY <1>1, <2>1, <2>2, TookBoth
  <2>7. Took(tx, v, a)
    BY <2>3, <2>6, TookOn
  <2> QED BY <2>5, <2>7, TookOn
<1>8. BooksInv'
  BY HandleExternalAckStep DEF Own
<1> QED BY <1>5, <1>6, <1>7, <1>8, AckTaken

(* The sequence numbers and the ACK of a packet are recovered.              *)
LEMMA AckOfSpeaks ==
  ASSUME NEW x, NEW top, NEW y, Own(x, top, y), Near(FirstSend, tx.next),
         NEW m, NEW r, NEW e, Carries(m, r, e, FirstSend, tx.next, x), NEW seq
  PROVE  Speaks(AckOf(m, seq), r, e, FirstSend, tx.next, x)
<1>1. PICK g \in FirstSend - 1 .. tx.next - 1, f \in FirstSend - 1 .. tx.next - 1 :
        /\ m.gsnr = LowBits(g) /\ m.gsnfr = LowBits(f)
        /\ Speaks(AckIn(m, g, f), r, e, FirstSend, tx.next, x)
  BY DEF Carries
<1>2. tx.next \in Nat /\ FirstSend \in Nat \ {0} /\ SeqModulus \in Nat \ {0}
  BY StreamAssumption, SeqModulusAssumption DEF Near
<1>3. ASSUME NEW n \in FirstSend - 1 .. tx.next - 1
      PROVE  NumberWithHint(LowBits(n), tx.next) = n
  <2>1. n \in Nat /\ 2 * (n - tx.next) < SeqModulus /\ 2 * (tx.next - n) < SeqModulus
    BY <1>2 DEF Near
  <2> QED BY <1>2, <2>1, NumberWithHintInverts
<1>4. NumberWithHint(m.gsnr, tx.next) = g /\ NumberWithHint(m.gsnfr, tx.next) = f
  BY <1>1, <1>3
<1>5. /\ AckOf(m, seq).gsnr = g /\ AckOf(m, seq).gsnfr = f
      /\ AckOf(m, seq).vector = m.vector /\ AckOf(m, seq).vp = m.vp
      /\ AckOf(m, seq).pg = m.pg /\ AckOf(m, seq).xp = m.xp
  BY <1>4 DEF AckOf
<1>6. /\ AckIn(m, g, f).gsnr = g /\ AckIn(m, g, f).gsnfr = f
      /\ AckIn(m, g, f).vector = m.vector /\ AckIn(m, g, f).vp = m.vp
      /\ AckIn(m, g, f).pg = m.pg /\ AckIn(m, g, f).xp = m.xp
  BY DEF AckIn
<1> QED BY <1>1, <1>5, <1>6, SpeaksSame

LEMMA NumberIs ==
  ASSUME NEW x, NEW top, NEW y, Own(x, top, y), Near(FirstReceive, top),
         NEW m, NEW s \in FirstReceive..top - 1, Is(m, s, FirstReceive, y)
  PROVE  NumberWithHint(m.seq, rx.gsnr) = s
<1>1. /\ rx.gsnr \in Nat /\ FirstReceive - 1 <= rx.gsnr /\ rx.gsnr < top
      /\ top \in Nat /\ FirstReceive \in Nat \ {0} /\ SeqModulus \in Nat \ {0}
  BY OwnParts, StreamAssumption, SeqModulusAssumption DEF RxHonest, Near
<1>2. s \in Nat /\ 2 * (s - rx.gsnr) < SeqModulus /\ 2 * (rx.gsnr - s) < SeqModulus
  BY <1>1 DEF Near
<1>3. m.seq = LowBits(s)
  BY DEF Is
<1> QED BY <1>1, <1>2, <1>3, NumberWithHintInverts

-----------------------------------------------------------------------------
(* What is delivered.                                                       *)

LEMMA CountOn ==
  ASSUME NEW k \in Nat, NEW j \in Nat
  PROVE  Count(k) \o [i \in 1..j |-> k + i] = Count(k + j)
<1> DEFINE p == Count(k)
           q == [i \in 1..j |-> k + i]
<1>1. p \in Seq(Nat) /\ Len(p) = k /\ \A i \in 1..k : p[i] = i
  <2>1. p \in [1..k -> Nat] /\ \A i \in 1..k : p[i] = i
    BY DEF Count
  <2> QED BY <2>1, TableIsSequence
<1>2. q \in Seq(Nat) /\ Len(q) = j /\ \A i \in 1..j : q[i] = k + i
  <2>1. q \in [1..j -> Nat] /\ \A i \in 1..j : q[i] = k + i
    OBVIOUS
  <2> QED BY <2>1, TableIsSequence
<1> HIDE DEF p, q
<1>3. /\ p \o q \in Seq(Nat) /\ Len(p \o q) = k + j
      /\ \A i \in 1..k + j : (p \o q)[i] = IF i <= k THEN p[i] ELSE q[i - k]
  BY <1>1, <1>2, ConcatProperties
<1>4. ASSUME NEW i \in 1..k + j PROVE (IF i <= k THEN p[i] ELSE q[i - k]) = i
  <2>1. CASE i <= k
    <3>1. i \in 1..k
      BY <2>1
    <3> QED BY <1>1, <2>1, <3>1
  <2>2. CASE ~(i <= k)
    <3>1. i - k \in 1..j /\ k + (i - k) = i
      BY <2>2
    <3>2. q[i - k] = k + (i - k)
      BY <1>2, <3>1
    <3> QED BY <2>2, <3>1, <3>2
  <2> QED BY <2>1, <2>2
<1>5. /\ Count(k + j) \in Seq(Nat) /\ Len(Count(k + j)) = k + j
      /\ \A i \in 1..k + j : Count(k + j)[i] = i
  <2>1. Count(k + j) \in [1..k + j -> Nat] /\ \A i \in 1..k + j : Count(k + j)[i] = i
    BY DEF Count
  <2> QED BY <2>1, TableIsSequence
<1>6. p \o q = Count(k + j)
  BY <1>3, <1>4, <1>5, SeqEqual
<1> QED BY <1>6 DEF p, q

(* The parities of a run add up to that of its last packet.                 *)
LEMMA ParityOfRun ==
  ASSUME NEW y \in History, NEW f \in Nat, NEW n \in Nat, f <= n
  PROVE  XOR(y[f], Cardinality({s \in f + 1 .. n : Ps(y, s)}) % 2 = 1) = y[n]
<1> DEFINE status == [s \in Nat |-> "Received"]
           parity == [s \in Nat |-> Ps(y, s)]
           Odd(k) == OddUpTo(status, parity, f, k)
           Bad == {k \in f..n : XOR(y[f], Odd(k)) # y[k]}
<1>1. \A s \in Nat : y[s] \in BOOLEAN
  BY DEF History
<1>2. \A s \in Nat : status[s] # "NotReceived" /\ parity[s] = Ps(y, s)
  OBVIOUS
<1>3. ASSUME NEW k \in f..n
      PROVE  {s \in f + 1 .. k : status[s] # "NotReceived" /\ parity[s]}
               = {s \in f + 1 .. k : Ps(y, s)}
  BY <1>2
<1> HIDE DEF status, parity
<1>4. \A k \in f..n : Odd(k) \in BOOLEAN
  BY DEF OddUpTo
<1>5. ~Odd(f)
  BY OddUpToNext
<1>6. f \notin Bad
  <2>1. y[f] \in BOOLEAN /\ Odd(f) \in BOOLEAN
    BY <1>1, <1>4
  <2> HIDE DEF Odd
  <2>2. XOR(y[f], Odd(f)) = y[f]
    BY <1>5, <2>1 DEF XOR
  <2> QED BY <2>2
<1>7. ASSUME NEW k \in f + 1 .. n, k - 1 \notin Bad PROVE k \notin Bad
  <2>1. k - 1 \in f..n /\ k - 1 \in Nat /\ f <= k - 1 /\ (k - 1) + 1 = k /\ k \in Nat
    OBVIOUS
  <2>2. XOR(y[f], Odd(k - 1)) = y[k - 1]
    BY <1>7, <2>1
  <2>3. /\ Ps(y, k) => (Odd(k) <=> ~Odd(k - 1))
        /\ ~Ps(y, k) => (Odd(k) <=> Odd(k - 1))
    <3>1. /\ status[k - 1 + 1] # "NotReceived" /\ parity[k - 1 + 1]
               => (OddUpTo(status, parity, f, k - 1 + 1) <=> ~OddUpTo(status, parity, f, k - 1))
          /\ ~(status[k - 1 + 1] # "NotReceived" /\ parity[k - 1 + 1])
               => (OddUpTo(status, parity, f, k - 1 + 1) <=> OddUpTo(status, parity, f, k - 1))
      BY <2>1, OddUpToNext
    <3> HIDE DEF Bad
    <3> QED BY <1>2, <2>1, <3>1
  <2>4. y[f] \in BOOLEAN /\ y[k] \in BOOLEAN /\ y[k - 1] \in BOOLEAN
        /\ Odd(k) \in BOOLEAN /\ Odd(k - 1) \in BOOLEAN
    BY <1>1, <1>4, <2>1
  <2> HIDE DEF Odd
  <2>5. XOR(y[f], Odd(k)) = y[k]
    BY <2>2, <2>3, <2>4 DEF Ps, XOR
  <2> QED BY <2>5
<1>8. Bad = {}
  <2>1. Bad \in SUBSET (f..n)
    OBVIOUS
  <2> HIDE DEF Bad
  <2> QED BY <1>6, <1>7, <2>1, NoneBad
<1>9. XOR(y[f], Odd(n)) = y[n]
  BY <1>8
<1>10. Odd(n) = (Cardinality({s \in f + 1 .. n : Ps(y, s)}) % 2 = 1)
  <2>1. {s \in f + 1 .. n : status[s] # "NotReceived" /\ parity[s]}
          = {s \in f + 1 .. n : Ps(y, s)}
    BY <1>3
  <2> QED BY <2>1 DEF OddUpTo
<1> QED BY <1>9, <1>10

LEMMA AcceptedHonest ==
  ASSUME NEW x, NEW top, NEW y, Own(x, top, y),
         NEW m, NEW s \in FirstReceive..top - 1, Is(m, s, FirstReceive, y), rx.gsnfr < s
  PROVE  LET u == Accepted(m, s)
         IN  /\ RxHonest(u, ctl.delegate, top, y) /\ u.gsnfr = rx.gsnfr
             /\ \A v \in Nat : Got(rx, v) => Got(u, v)
<1> DEFINE u == Accepted(m, s)
           d == ctl.delegate
<1>1. /\ RxHonest(rx, d, top, y) /\ top \in Nat /\ s \in Nat
      /\ m.ps = Ps(y, s) /\ m.data = s - FirstReceive + 1
  BY OwnParts, StreamAssumption DEF Is
<1>2. /\ DOMAIN u = RxFields /\ u.gsnfr = rx.gsnfr /\ u.xorFull = rx.xorFull
      /\ u.gsnr = IF s > rx.gsnr THEN s ELSE rx.gsnr
      /\ u.gsnrParity = IF s > rx.gsnr THEN m.ps ELSE rx.gsnrParity
      /\ u.pending = [v \in (DOMAIN rx.pending) \cup {s} |->
                        IF v = s THEN [ps |-> m.ps, data |-> m.data] ELSE rx.pending[v]]
  BY <1>1 DEF Accepted, RxHonest, RxFields
<1> HIDE DEF u, d
<1>3. DOMAIN u.pending = (DOMAIN rx.pending) \cup {s}
  BY <1>2
<1>4. /\ rx.gsnr \in Nat /\ rx.gsnfr \in Nat /\ FirstReceive - 1 <= rx.gsnfr
      /\ rx.gsnfr <= rx.gsnr /\ rx.gsnr < top
  BY <1>1 DEF RxHonest
<1>5. /\ u.gsnr \in Nat /\ u.gsnfr \in Nat /\ FirstReceive - 1 <= u.gsnfr
      /\ u.gsnfr <= u.gsnr /\ u.gsnr < top /\ rx.gsnr <= u.gsnr /\ s <= u.gsnr
  BY <1>1, <1>2, <1>4
<1>6. ASSUME NEW v \in DOMAIN u.pending
      PROVE  /\ v \in Nat /\ u.gsnfr < v /\ v <= u.gsnr
             /\ u.pending[v] = [ps |-> Ps(y, v), data |-> v - FirstReceive + 1]
  <2>1. CASE v = s
    BY <1>1, <1>2, <1>3, <1>5, <2>1
  <2>2. CASE v # s
    <3>1. v \in DOMAIN rx.pending /\ u.pending[v] = rx.pending[v]
      BY <1>2, <1>3, <2>2
    <3>2. /\ v \in Nat /\ rx.gsnfr < v /\ v <= rx.gsnr
          /\ rx.pending[v] = [ps |-> Ps(y, v), data |-> v - FirstReceive + 1]
      BY <1>1, <3>1 DEF RxHonest
    <3> QED BY <1>2, <1>4, <1>5, <3>1, <3>2
  <2> QED BY <2>1, <2>2
<1>7. ASSUME d, u.gsnr # u.gsnfr PROVE u.gsnr \in DOMAIN u.pending
  <2>1. CASE s > rx.gsnr
    BY <1>2, <1>3, <2>1
  <2>2. CASE ~(s > rx.gsnr)
    <3>1. u.gsnr = rx.gsnr /\ rx.gsnr # rx.gsnfr
      BY <1>2, <1>7, <2>2
    <3>2. rx.gsnr \in DOMAIN rx.pending
      BY <1>1, <1>7, <3>1 DEF RxHonest
    <3> QED BY <1>3, <3>1, <3>2
  <2> QED BY <2>1, <2>2
<1>8. u.xorFull = y[u.gsnfr]
  BY <1>1, <1>2 DEF RxHonest
<1>9. ASSUME u.gsnr >= FirstReceive PROVE u.gsnrParity = Ps(y, u.gsnr)
  <2>1. CASE s > rx.gsnr
    BY <1>1, <1>2, <2>1
  <2>2. CASE ~(s > rx.gsnr)
    BY <1>1, <1>2, <1>9, <2>2 DEF RxHonest
  <2> QED BY <2>1, <2>2
<1>10. RxHonest(u, d, top, y)
  BY <1>2, <1>5, <1>6, <1>7, <1>8, <1>9 DEF RxHonest
<1>11. \A v \in Nat : Got(rx, v) => Got(u, v)
  BY <1>2, <1>3 DEF Got
<1> QED BY <1>2, <1>10, <1>11 DEF u, d

LEMMA DeliverHonest ==
  ASSUME NEW r, NEW d, NEW top, NEW y \in History, RxHonest(r, d, top, y)
  PROVE  LET n == DeliverableTo(r)
             u == Deliver(r)
         IN  /\ RxHonest(u, d, top, y) /\ u.gsnfr = n
             /\ n \in Nat /\ r.gsnfr <= n
             /\ \A v \in Nat : Got(r, v) => Got(u, v)
             /\ Delivered(r) = [i \in 1..n - r.gsnfr |-> r.gsnfr - FirstReceive + 1 + i]
<1> DEFINE n == DeliverableTo(r)
           u == Deliver(r)
<1>1. /\ DOMAIN r = RxFields
      /\ r.gsnr \in Nat /\ r.gsnfr \in Nat
      /\ FirstReceive - 1 <= r.gsnfr /\ r.gsnfr <= r.gsnr /\ r.gsnr < top
      /\ r.xorFull = y[r.gsnfr]
      /\ (d /\ r.gsnr # r.gsnfr) => r.gsnr \in DOMAIN r.pending
      /\ r.gsnr >= FirstReceive => r.gsnrParity = Ps(y, r.gsnr)
      /\ FirstReceive \in Nat \ {0}
  BY StreamAssumption DEF RxHonest
<1>2. \A s \in DOMAIN r.pending :
        /\ s \in Nat /\ r.gsnfr < s /\ s <= r.gsnr
        /\ r.pending[s] = [ps |-> Ps(y, s), data |-> s - FirstReceive + 1]
  BY DEF RxHonest
<1>3. RxBounds(r)
  BY <1>1, <1>2 DEF RxBounds
<1>4. n \in r.gsnfr..r.gsnr /\ (r.gsnfr + 1)..n \subseteq DOMAIN r.pending
  BY <1>3, DeliverableRun
<1>5. Delivered(r) = [i \in 1..n - r.gsnfr |-> r.pending[r.gsnfr + i].data]
  BY DEF Delivered
<1>6. /\ DOMAIN u = RxFields /\ u.gsnfr = n /\ u.gsnr = r.gsnr
      /\ u.gsnrParity = r.gsnrParity
      /\ u.xorFull = XOR(r.xorFull, Parity(r.pending, (r.gsnfr + 1)..n))
      /\ u.pending = [s \in {v \in DOMAIN r.pending : v > n} |-> r.pending[s]]
  BY <1>1 DEF Deliver, RxFields
<1> HIDE DEF n, u
<1>7. n \in Nat /\ r.gsnfr <= n /\ n <= r.gsnr
  BY <1>1, <1>4
<1>8. DOMAIN u.pending = {v \in DOMAIN r.pending : v > n}
  BY <1>6
<1>9. ASSUME NEW s \in DOMAIN u.pending
      PROVE  /\ s \in Nat /\ u.gsnfr < s /\ s <= u.gsnr
             /\ u.pending[s] = [ps |-> Ps(y, s), data |-> s - FirstReceive + 1]
  <2>1. s \in DOMAIN r.pending /\ s > n /\ u.pending[s] = r.pending[s]
    BY <1>6, <1>8
  <2> QED BY <1>2, <1>6, <1>7, <2>1
<1>10. ASSUME d, u.gsnr # u.gsnfr PROVE u.gsnr \in DOMAIN u.pending
  <2>1. r.gsnr # r.gsnfr /\ r.gsnr > n
    BY <1>1, <1>6, <1>7, <1>10
  <2> QED BY <1>1, <1>6, <1>8, <1>10, <2>1
<1>11. u.xorFull = y[u.gsnfr]
  <2>1. ASSUME NEW s \in (r.gsnfr + 1)..n PROVE r.pending[s].ps = Ps(y, s)
    <3>1. r.pending[s] = [ps |-> Ps(y, s), data |-> s - FirstReceive + 1]
      BY <1>2, <1>4
    <3> QED BY <3>1
  <2>2. {s \in (r.gsnfr + 1)..n : r.pending[s].ps} = {s \in r.gsnfr + 1 .. n : Ps(y, s)}
    BY <2>1
  <2>3. Parity(r.pending, (r.gsnfr + 1)..n)
          = (Cardinality({s \in r.gsnfr + 1 .. n : Ps(y, s)}) % 2 = 1)
    BY <2>2 DEF Parity
  <2>4. XOR(y[r.gsnfr], Cardinality({s \in r.gsnfr + 1 .. n : Ps(y, s)}) % 2 = 1) = y[n]
    BY <1>1, <1>7, ParityOfRun
  <2> QED BY <1>1, <1>6, <2>3, <2>4
<1>12. RxHonest(u, d, top, y)
  BY <1>1, <1>6, <1>7, <1>9, <1>10, <1>11 DEF RxHonest
<1>13. ASSUME NEW v \in Nat, Got(r, v) PROVE Got(u, v)
  BY <1>1, <1>6, <1>7, <1>8, <1>13 DEF Got
<1>14. Delivered(r) = [i \in 1..n - r.gsnfr |-> r.gsnfr - FirstReceive + 1 + i]
  <2>1. ASSUME NEW i \in 1..n - r.gsnfr
        PROVE  r.pending[r.gsnfr + i].data = r.gsnfr - FirstReceive + 1 + i
    <3>1. PICK s \in (r.gsnfr + 1)..n : s = r.gsnfr + i
      BY <1>1, <1>7
    <3>2. r.pending[s] = [ps |-> Ps(y, s), data |-> s - FirstReceive + 1]
      BY <1>2, <1>4
    <3>3. r.pending[s].data = s - FirstReceive + 1
      BY <3>2
    <3>4. s - FirstReceive + 1 = r.gsnfr - FirstReceive + 1 + i
      BY <1>1, <3>1
    <3> QED BY <3>1, <3>3, <3>4
  <2> QED BY <1>5, <2>1
<1> QED BY <1>6, <1>7, <1>12, <1>13, <1>14 DEF n, u

(* The units of the run are handed to the application, kept, or dropped.    *)
LEMMA IoTaken ==
  ASSUME NEW t, NEW r, IoHonest(ctl, t, r, io),
         r.gsnfr \in Nat, FirstReceive - 1 <= r.gsnfr,
         NEW n \in Nat, r.gsnfr <= n, NEW r1, r1.gsnfr = n, NEW u, u.next = t.next,
         NEW units, units = [i \in 1..n - r.gsnfr |-> r.gsnfr - FirstReceive + 1 + i],
         io' = IoAfter(units)
  PROVE  IoHonest(ctl, u, r1, io') /\ Handed(io, io')
<1> DEFINE k == r.gsnfr - FirstReceive + 1
           j == n - r.gsnfr
           k1 == r1.gsnfr - FirstReceive + 1
<1>1. k \in Nat /\ j \in Nat /\ k1 = k + j
  BY StreamAssumption
<1>2. Count(k) \o units = Count(k1)
  <2>1. units = [i \in 1..j |-> k + i]
    OBVIOUS
  <2> HIDE DEF k, j, k1
  <2> QED BY <1>1, <2>1, CountOn
<1>3. /\ DOMAIN io = IoFields
      /\ \E i \in 0..k : io.delivered = Count(i)
      /\ ~io.attached => io.delivered = << >>
      /\ io.attached => io.kept = << >>
      /\ "Receive" \notin ctl.dirs =>
           IF io.attached THEN io.delivered = Count(k) ELSE io.kept = Count(k)
  BY DEF IoHonest, HandedOver
<1> HIDE DEF k, j
<1>4. PICK i \in 0..k : io.delivered = Count(i)
  BY <1>3
<1>5. i \in Nat /\ i <= k1 /\ i \in 0..k1 /\ k1 \in 0..k1 /\ k1 \in Nat /\ 0 \in Nat /\ 0 <= k1
  BY <1>1, <1>4
<1> HIDE DEF k1
<1>6. /\ DOMAIN io' = IoFields /\ io'.written = io.written /\ io'.unread = io.unread
      /\ io'.attached = io.attached
  BY <1>3 DEF IoAfter, IoFields
<1>7. /\ io'.delivered = IF "Receive" \notin ctl.dirs /\ io.attached
                         THEN io.delivered \o units ELSE io.delivered
      /\ io'.kept = IF "Receive" \notin ctl.dirs /\ ~io.attached
                    THEN io.kept \o units ELSE io.kept
  BY <1>3 DEF IoAfter, IoFields
<1>8. i \in Nat /\ i <= i /\ io.delivered = Count(i)
  BY <1>4, <1>5
<1>9. /\ \E l \in 0..k1 : io'.delivered = Count(l)
      /\ Handed(io, io')
      /\ ~io'.attached => io'.delivered = << >>
      /\ io'.attached => io'.kept = << >>
      /\ "Receive" \notin ctl.dirs =>
           IF io'.attached THEN io'.delivered = Count(k1) ELSE io'.kept = Count(k1)
  <2>1. CASE "Receive" \notin ctl.dirs /\ io.attached
    <3>1. io'.delivered = Count(k1) /\ io'.kept = io.kept
      BY <1>2, <1>3, <1>7, <2>1
    <3>2. Handed(io, io')
      BY <1>4, <1>5, <1>6, <3>1 DEF Handed
    <3>3. \E l \in 0..k1 : io'.delivered = Count(l)
      BY <1>5, <3>1
    <3> QED BY <1>3, <1>6, <2>1, <3>1, <3>2, <3>3
  <2>2. CASE "Receive" \notin ctl.dirs /\ ~io.attached
    <3>1. io'.kept = Count(k1) /\ io'.delivered = io.delivered
      BY <1>2, <1>3, <1>7, <2>2
    <3>2. Handed(io, io')
      BY <1>6, <1>8, <3>1 DEF Handed
    <3>3. \E l \in 0..k1 : io'.delivered = Count(l)
      BY <1>4, <1>5, <3>1
    <3> QED BY <1>3, <1>6, <2>2, <3>1, <3>2, <3>3
  <2>3. CASE "Receive" \in ctl.dirs
    <3>1. io'.kept = io.kept /\ io'.delivered = io.delivered
      BY <1>7, <2>3
    <3>2. Handed(io, io')
      BY <1>6, <1>8, <3>1 DEF Handed
    <3>3. \E l \in 0..k1 : io'.delivered = Count(l)
      BY <1>4, <1>5, <3>1
    <3> QED BY <1>3, <1>6, <2>3, <3>1, <3>2, <3>3
  <2> QED BY <2>1, <2>2, <2>3
<1>10. HandedOver(ctl, r1, io')
  BY <1>9 DEF HandedOver, k1
<1>11. UnreadFollows(ctl, u, io')
  BY <1>6 DEF IoHonest, UnreadFollows
<1>12. IoHonest(ctl, u, r1, io')
  BY <1>6, <1>10, <1>11 DEF IoHonest
<1> QED BY <1>9, <1>12

(* A packet that is accepted.                                               *)
LEMMA AcceptTaken ==
  ASSUME NEW x, NEW top, NEW y, Own(x, top, y), SharedQueue,
         NEW m, NEW s \in FirstReceive..top - 1, Is(m, s, FirstReceive, y), rx.gsnfr < s,
         NEW a, NEW r, NEW e, Speaks(a, r, e, FirstSend, tx.next, x),
         Believes(tx, ctl.delegate, r, e), r.gsnfr \in Nat,
         Took(tx, tx', a), MayCallBack, NEW hold,
         rx' = Deliver(Accepted(m, s)), io' = IoAfter(Delivered(Accepted(m, s))),
         EnterSendNow(m.ar, hold), UNCHANGED <<ctl, wire>>
  PROVE  Taken(x, top, y, r, e)
<1> DEFINE d == ctl.delegate
           q == Accepted(m, s)
           n == DeliverableTo(q)
<1>1. /\ CtlHonest(ctl)
      /\ TxHonest(tx, rx, d, x, top, y) /\ RxHonest(rx, d, top, y)
      /\ IoHonest(ctl, tx, rx, io) /\ WireHonest(wire, tx, rx, d, x, top, y)
      /\ tx.next \in Nat /\ x \in History /\ y \in History
      /\ rx.gsnfr \in Nat /\ FirstReceive - 1 <= rx.gsnfr
      /\ Later(tx.next, x, tx.next, x) /\ Later(top, y, top, y)
  BY OwnParts DEF RxHonest
<1>2. /\ RxHonest(q, d, top, y) /\ q.gsnfr = rx.gsnfr
      /\ \A v \in Nat : Got(rx, v) => Got(q, v)
  BY AcceptedHonest
<1>3. /\ BurstHonest(burst', tx', rx', d, x, top, y)
  <2>1. burst.pc = "idle"
    BY DEF MayCallBack
  <2>2. burst'.first = NoPacket /\ burst'.pc # "picked" /\ DOMAIN burst' = DOMAIN IdleBurst
    BY <2>1, EnterSendNowHonest
  <2> QED BY <2>2 DEF BurstHonest
<1> HIDE DEF d, q
<1>4. /\ RxHonest(rx', d, top, y) /\ rx'.gsnfr = n
      /\ n \in Nat /\ rx.gsnfr <= n
      /\ \A v \in Nat : Got(q, v) => Got(rx', v)
      /\ Delivered(q) = [i \in 1..n - rx.gsnfr |-> rx.gsnfr - FirstReceive + 1 + i]
  <2>1. rx' = Deliver(q)
    BY DEF q
  <2> HIDE DEF n
  <2>2. /\ RxHonest(Deliver(q), d, top, y) /\ Deliver(q).gsnfr = n
        /\ n \in Nat /\ q.gsnfr <= n
        /\ \A v \in Nat : Got(q, v) => Got(Deliver(q), v)
        /\ Delivered(q) = [i \in 1..n - q.gsnfr |-> q.gsnfr - FirstReceive + 1 + i]
    BY <1>1, <1>2, DeliverHonest DEF n
  <2> QED BY <1>2, <2>1, <2>2
<1> HIDE DEF n
<1>5. tx'.next = tx.next
  BY DEF Took
<1>6. Grows(rx, d, rx', d)
  BY <1>1, <1>2, <1>4 DEF Grows
<1>7. TxHonest(tx', rx', d, x, top, y)
  <2>1. TxHonest(tx', rx, d, x, top, y)
    BY <1>1, TookTx
  <2>2. SameTx(tx', tx')
    BY DEF SameTx
  <2> QED BY <1>1, <1>6, <2>1, <2>2, TxLater
<1>8. IoHonest(ctl, tx', rx', io') /\ Handed(io, io')
  <2>1. io' = IoAfter(Delivered(q))
    BY DEF q
  <2> QED BY <1>1, <1>4, <1>5, <2>1, IoTaken
<1>9. WireHonest(wire, tx', rx', d, x, top, y)
  <2>1. Later(tx.next, x, tx'.next, x)
    BY <1>1, <1>5
  <2> QED BY <1>1, <1>6, <2>1, WireLater
<1>10. Believes(tx', d, r, e)
  <2>1. Knows(a, r, e) /\ a.gsnfr \in Nat
    BY DEF Speaks, Honest, Bounded
  <2> QED BY <2>1, TookBelieves DEF d
<1>11. EndInv(ctl, tx', rx', io', burst', wire, x, top, y)
  BY <1>1, <1>3, <1>4, <1>7, <1>8, <1>9 DEF EndInv, d
<1> QED BY <1>5, <1>6, <1>8, <1>10, <1>11 DEF Taken, d

LEMMA HandlePacketMove ==
  ASSUME NEW x, NEW top, NEW y, Own(x, top, y), SharedQueue,
         Near(FirstSend, tx.next), Near(FirstReceive, top),
         NEW m, Genuine(m, FirstReceive, top, y),
         NEW r, NEW e, Carries(m, r, e, FirstSend, tx.next, x),
         Believes(tx, ctl.delegate, r, e), r.gsnfr \in Nat,
         HandlePacket(m)
  PROVE  Taken(x, top, y, r, e) /\ BooksInv'
<1>1. PICK s \in FirstReceive..top - 1 : Is(m, s, FirstReceive, y)
  BY DEF Genuine
<1>2. NumberWithHint(m.seq, rx.gsnr) = s
  BY <1>1, NumberIs
<1> DEFINE a == AckOf(m, s)
<1>3. Speaks(a, r, e, FirstSend, tx.next, x)
  BY AckOfSpeaks
<1> HIDE DEF a
<1>4. /\ DOMAIN tx = TxFields /\ DOMAIN rx = RxFields /\ Sending(tx) \subseteq Nat
      /\ rx.gsnfr \in Nat /\ s \in Int
  BY <1>1, SenderFields, StreamAssumption
<1>5. /\ Honest(a, FirstSend, tx.next, x) /\ a.gsnfr \in Nat
      /\ a.gsnr # a.gsnfr => Heard(a) \in Seq(VectorStates)
  BY <1>3 DEF Speaks, Honest, Bounded, VectorHonest
<1>6. ~AckIllegal(tx, rx, a)
  <2>1. TxHonest(tx, rx, ctl.delegate, x, top, y) /\ x \in History
    BY OwnParts
  <2> QED BY <1>5, <2>1, HonestIsLegal
<1>7. ASSUME NEW hold, rx' = [rx EXCEPT !.hold = hold] PROVE SameRx(rx, rx')
  BY <1>4, <1>7 DEF SameRx, RxFields
<1>8. ASSUME NEW good \in BOOLEAN, tx' = HandleAck(tx, rx, a, good) PROVE Took(tx, tx', a)
  BY <1>4, <1>5, <1>8, HandleAckTakes
<1>9. BooksInv'
  BY HandlePacketStep DEF Own
<1>10. CASE IgnorePacket(m)
  <2>1. UNCHANGED <<ctl, tx, io, burst, wire>> /\ rx' = [rx EXCEPT !.hold = HoldAfter(s)]
    BY <1>2, <1>10 DEF IgnorePacket
  <2>2. Took(tx, tx', a)
    BY <1>4, <2>1, TookNone DEF Same, SameTx
  <2> QED BY <1>3, <1>7, <1>9, <2>1, <2>2, AckTaken
<1>11. CASE RejectPacket(m)
  BY <1>2, <1>6, <1>11 DEF RejectPacket, a
<1>12. CASE DropData(m)
  <2>1. PICK good \in BOOLEAN : tx' = HandleAck(tx, rx, a, good)
    BY <1>2, <1>12 DEF DropData, a
  <2>2. UNCHANGED <<ctl, io, burst, wire>> /\ rx' = [rx EXCEPT !.hold = HoldAfter(s)]
    BY <1>2, <1>12 DEF DropData
  <2>3. Took(tx, tx', a)
    BY <1>8, <2>1
  <2> QED BY <1>3, <1>7, <1>9, <2>2, <2>3, AckTaken
<1>13. CASE AcceptPacket(m)
  <2>1. PICK good \in BOOLEAN : tx' = HandleAck(tx, rx, a, good)
    BY <1>2, <1>13 DEF AcceptPacket, a
  <2>2. Took(tx, tx', a)
    BY <1>8, <2>1
  <2>3. /\ MayCallBack /\ rx.gsnfr < s
        /\ rx' = Deliver(Accepted(m, s)) /\ io' = IoAfter(Delivered(Accepted(m, s)))
        /\ EnterSendNow(m.ar, HoldAfter(s)) /\ UNCHANGED <<ctl, wire>>
    BY <1>2, <1>4, <1>13 DEF AcceptPacket, PacketIgnored
  <2> QED BY <1>1, <1>3, <1>9, <2>2, <2>3, AcceptTaken
<1> QED BY <1>10, <1>11, <1>12, <1>13 DEF HandlePacket

-----------------------------------------------------------------------------
(* As the stream is created.                                                *)

LEMMA EndInvInit ==
  ASSUME Init
  PROVE  LET x == [n \in Nat |-> FALSE]
         IN  /\ Own(x, FirstReceive, x) /\ tx.next = FirstSend
             /\ rx.gsnfr = FirstReceive - 1
<1> DEFINE x == [n \in Nat |-> FALSE]
<1>1. x \in History /\ (\A n \in Nat : x[n] = FALSE) /\ FirstReceive \in Nat \ {0}
      /\ FirstSend \in Nat \ {0} /\ FirstReceive - 1 \in Nat /\ FirstSend - 1 \in Nat
  BY StreamAssumption DEF History
<1> HIDE DEF x
<1>2. DOMAIN << >> = {}
  OBVIOUS
<1>3. CtlHonest(ctl) /\ ctl.delegate = TRUE /\ ctl.dirs = {}
  BY DEF Init, CtlHonest
<1>4. TxHonest(tx, rx, ctl.delegate, x, FirstReceive, x) /\ tx.next = FirstSend
  <2>1. tx.next = FirstSend /\ tx.xorNow = FALSE /\ Sending(tx) = {}
    BY <1>2 DEF Init, Sending
  <2>2. tx.xorNow = x[tx.next - 1]
    BY <1>1, <2>1
  <2>3. tx.next \in Nat /\ FirstSend <= tx.next
    BY <1>1, <2>1
  <2>4. UpToNext(tx)
    BY <2>1 DEF UpToNext
  <2> QED BY <2>1, <2>2, <2>3, <2>4 DEF TxHonest
<1>5. RxHonest(rx, ctl.delegate, FirstReceive, x) /\ rx.gsnfr = FirstReceive - 1
  <2>1. /\ DOMAIN rx = RxFields /\ rx.gsnr = FirstReceive - 1 /\ rx.gsnfr = FirstReceive - 1
        /\ DOMAIN rx.pending = {} /\ rx.xorFull = FALSE
    BY <1>2 DEF Init, RxFields
  <2>2. rx.xorFull = x[rx.gsnfr]
    BY <1>1, <2>1
  <2>3. /\ rx.gsnr \in Nat /\ rx.gsnfr \in Nat /\ FirstReceive - 1 <= rx.gsnfr
        /\ rx.gsnfr <= rx.gsnr /\ rx.gsnr < FirstReceive /\ ~(rx.gsnr >= FirstReceive)
        /\ rx.gsnr = rx.gsnfr
    BY <1>1, <2>1
  <2> QED BY <2>1, <2>2, <2>3 DEF RxHonest
<1>6. IoHonest(ctl, tx, rx, io)
  <2>1. /\ DOMAIN io = IoFields /\ io.unread = << >> /\ io.delivered = << >>
        /\ io.kept = << >> /\ io.attached = StreamsGiven /\ io.written = 0
    BY DEF Init, IoFields
  <2>2. rx.gsnfr - FirstReceive + 1 = 0 /\ tx.next - FirstSend = 0 /\ 0 - 0 = 0
    BY <1>1, <1>4, <1>5
  <2>3. HandedOver(ctl, rx, io)
    <3>1. 0 \in 0..0
      OBVIOUS
    <3> QED BY <2>1, <2>2, <3>1, CountNone DEF HandedOver
  <2>4. UnreadFollows(ctl, tx, io)
    <3>1. io.written - (tx.next - FirstSend) = 0
      BY <2>1, <2>2
    <3>2. [i \in 1..0 |-> tx.next - FirstSend + i] = << >>
      OBVIOUS
    <3> QED BY <2>1, <3>1, <3>2 DEF UnreadFollows
  <2> QED BY <2>1, <2>2, <2>3, <2>4, StreamAssumption DEF IoHonest
<1>7. BurstHonest(burst, tx, rx, ctl.delegate, x, FirstReceive, x)
  BY DEF Init, BurstHonest, IdleBurst, NoPacket
<1>8. WireHonest(wire, tx, rx, ctl.delegate, x, FirstReceive, x)
  BY DEF Init, WireHonest
<1>9. Own(x, FirstReceive, x)
  BY <1>1, <1>3, <1>4, <1>5, <1>6, <1>7, <1>8, BooksInvInit DEF Own, EndInv
<1> QED BY <1>4, <1>5, <1>9 DEF x
-----------------------------------------------------------------------------
(* A forced ACK that is remembered stays asked for until its answer is      *)
(* taken, at an end whose peer is the other end of a channel.               *)

ForceDue == ctl.delegate /\ tx.forceID # 0 => tx.forceID \in due

LEMMA ForceKept ==
  ASSUME ForceDue, ctl'.delegate => ctl.delegate,
         tx'.forceID \in {0, tx.forceID}, due \ {Indication} \subseteq due'
  PROVE  ForceDue'
BY DEF ForceDue, Indication

LEMMA CancelForceDue ==
  ASSUME BooksInv, ForceDue, NEW reason, Cancel(reason), due \subseteq due'
  PROVE  ForceDue'
<1>1. CASE IsShutdown
  BY <1>1, ForceKept DEF Cancel
<1>2. CASE ~IsShutdown
  <2>1. ~ctl'.delegate
    BY <1>2 DEF Cancel, BooksInv
  <2> QED BY <2>1 DEF ForceDue
<1> QED BY <1>1, <1>2

LEMMA ExternalForceDue ==
  ASSUME BooksInv, CtlHonest(ctl), ForceDue, NEW id, NEW a, HandleExternalAck(id, a)
  PROVE  ForceDue'
<1> DEFINE t == ForgetForce(tx)
<1>1. ctl.delegate /\ DOMAIN tx = TxFields
  BY DEF BooksInv, Shape, HandleExternalAck
<1>2. CASE AckIllegal(t, rx, a)
  <2>1. Cancel("IllegalStreamState") /\ ~IsShutdown
    BY <1>1, <1>2 DEF HandleExternalAck, CtlHonest, IsShutdown
  <2> QED BY <2>1 DEF Cancel, BooksInv, ForceDue
<1>3. CASE ~AckIllegal(t, rx, a)
  <2>1. (due' = IF id = Indication THEN due ELSE due \ {id}) /\ ctl' = ctl
    BY <1>3 DEF HandleExternalAck
  <2>2. PICK good \in BOOLEAN :
          tx' = [HandleForcedAck(HandleAck(t, rx, a, good), id) EXCEPT
                   !.timers = @ \ {"ensure"}]
    BY <1>3 DEF HandleExternalAck
  <2> DEFINE h == HandleAck(t, rx, a, good)
             f == HandleForcedAck(h, id)
  <2>3. Pursues(tx, t)
    BY <1>1, ForgetForcePursues
  <2> HIDE DEF t
  <2>4. Pursues(t, h) /\ (Sending(h) = {} => h.forceID = 0)
    <3>1. DOMAIN t = TxFields
      BY <2>3 DEF Pursues
    <3> QED BY <3>1, HandleAckPursues
  <2> HIDE DEF h
  <2>5. /\ DOMAIN f = TxFields
        /\ f.forceID = 0 \/ f.forceID = h.forceID
        /\ f.forceID = 0 \/ f.forceID # id \/ id = Indication
    <3>1. DOMAIN h = TxFields
      BY <2>4 DEF Pursues
    <3> QED BY <2>4, <3>1, HandleForcedAckForgets
  <2> HIDE DEF f
  <2>6. tx'.forceID = f.forceID
    BY <2>2, <2>5 DEF TxFields, h, f
  <2> QED BY <1>1, <2>1, <2>3, <2>4, <2>5, <2>6 DEF Pursues, ForceDue
<1> QED BY <1>2, <1>3

LEMMA PacketForceDue ==
  ASSUME BooksInv, ForceDue, NEW m, HandlePacket(m)
  PROVE  ForceDue'
<1> DEFINE seq == NumberWithHint(m.seq, rx.gsnr)
<1>1. DOMAIN tx = TxFields
  BY DEF BooksInv, Shape
<1>2. CASE IgnorePacket(m)
  BY <1>2, ForceKept DEF IgnorePacket
<1>3. CASE RejectPacket(m)
  <2>1. Cancel("IllegalStreamState") /\ due' = due
    BY <1>3 DEF RejectPacket
  <2> QED BY <2>1, CancelForceDue
<1>4. CASE DropData(m) \/ AcceptPacket(m)
  <2>1. /\ \E good \in BOOLEAN : tx' = HandleAck(tx, rx, AckOf(m, seq), good)
        /\ ctl' = ctl /\ due \subseteq due'
    BY <1>4 DEF DropData, AcceptPacket, EnterSendNow
  <2>2. PICK good \in BOOLEAN : tx' = HandleAck(tx, rx, AckOf(m, seq), good)
    BY <2>1
  <2>3. Pursues(tx, tx')
    <3>1. Pursues(tx, HandleAck(tx, rx, AckOf(m, seq), good))
      BY <1>1, HandleAckPursues
    <3> QED BY <2>2, <3>1
  <2> QED BY <2>1, <2>3, ForceKept DEF Pursues
<1> QED BY <1>2, <1>3, <1>4 DEF HandlePacket

LEMMA FinishForceDue ==
  ASSUME BooksInv, ForceDue, FinishBurst
  PROVE  ForceDue'
<1> DEFINE b == AfterBurst
<1>1. DOMAIN tx = TxFields
  BY DEF BooksInv, Shape
<1>2. DOMAIN b = TxFields /\ b.forceID = tx.forceID
  BY <1>1 DEF AfterBurst, ConsumeBaton, TxFields
<1>3. CASE Cancel("None") \/ Cancel("DelegateGone")
  <2>1. due \subseteq due'
    BY DEF FinishBurst
  <2> QED BY <1>3, <2>1, CancelForceDue
<1>4. CASE tx' = Cleanup(b, 0) /\ ~ForceRequired(b) /\ UNCHANGED <<ctl, due>>
  <2> HIDE DEF b
  <2>1. tx'.forceID \in {0, b.forceID}
    BY <1>2, <1>4, CleanupFields
  <2> QED BY <1>2, <1>4, <2>1, ForceKept
<1>5. CASE ctl' = [ctl EXCEPT !.state = "Crashed"] /\ UNCHANGED <<tx, due>>
  BY <1>5, ForceKept DEF BooksInv
<1>6. CASE ForceRequired(b) /\ \E id \in AckIds : tx' = Cleanup(b, id) /\ due' = due \cup {id}
  <2> HIDE DEF b
  <2>1. PICK id \in AckIds : tx' = Cleanup(b, id) /\ due' = due \cup {id}
    BY <1>6
  <2>2. tx'.forceID = id
    BY <1>2, <1>6, <2>1, CleanupFields
  <2> QED BY <2>1, <2>2 DEF ForceDue
<1> QED BY <1>3, <1>4, <1>5, <1>6 DEF FinishBurst

LEMMA ByItselfForceDue ==
  ASSUME BooksInv, ForceDue, ByItself
  PROVE  ForceDue'
<1>1. DOMAIN tx = TxFields
  BY DEF BooksInv, Shape
<1>2. CASE BeginBurst \/ PickResend \/ NothingToSend \/ SendPacket \/ SendFails
  BY <1>2, ForceKept DEF BeginBurst, PickResend, NothingToSend, SendPacket, SendFails
<1>3. CASE CreatePacket
  <2>1. tx'.forceID = tx.forceID /\ UNCHANGED <<ctl, due>>
    BY <1>1, <1>3 DEF CreatePacket, TxFields
  <2> QED BY <2>1, ForceKept
<1>4. CASE AfterSend
  <2> DEFINE d == DoNotResend(tx, {burst.picked})
  <2>1. DOMAIN d = TxFields /\ d.forceID = tx.forceID
    BY <1>1 DEF DoNotResend, TxFields
  <2>2. (tx' = [d EXCEPT !.forceNext = TRUE] \/ tx' = tx) /\ UNCHANGED <<ctl, due>>
    BY <1>4 DEF AfterSend
  <2> HIDE DEF d
  <2>3. tx'.forceID = tx.forceID
    BY <2>1, <2>2 DEF TxFields
  <2> QED BY <2>2, <2>3, ForceKept
<1>5. CASE UnwindBurst
  <2>1. due \subseteq due' /\ (UNCHANGED <<ctl, tx>> \/ Cancel("DelegateGone"))
    BY <1>5 DEF UnwindBurst
  <2> QED BY <2>1, CancelForceDue, ForceKept
<1>6. CASE OnBurstTimer \/ OnEnsureTimer \/ OnAddTimer \/ OnSendNow
  <2>1. tx'.forceID = tx.forceID /\ ctl' = ctl /\ due \subseteq due'
    BY <1>1, <1>6 DEF OnBurstTimer, OnEnsureTimer, OnAddTimer, OnSendNow, EnterSendNow, TxFields
  <2> QED BY <2>1, ForceKept
<1>7. CASE Write \/ SetStreams \/ CheckShutdown \/ SendIndication
  <2>1. UNCHANGED <<ctl, tx>> /\ due \ {Indication} \subseteq due'
    BY <1>7 DEF Write, SetStreams, CheckShutdown, SendIndication
  <2> QED BY <2>1, ForceKept
<1>8. CASE ShutdownNow
  <2>1. Cancel("None") /\ due' = due
    BY <1>8 DEF ShutdownNow
  <2> QED BY <2>1, CancelForceDue
<1>9. CASE BeginShutdown
  <2>1. due' = due /\ (ctl'.delegate => ctl.delegate /\ tx' = tx)
    BY <1>9 DEF BeginShutdown, BooksInv
  <2> QED BY <2>1 DEF ForceDue
<1> QED
  BY <1>2, <1>3, <1>4, <1>5, <1>6, <1>7, <1>8, <1>9, FinishForceDue DEF ByItself

=============================================================================
