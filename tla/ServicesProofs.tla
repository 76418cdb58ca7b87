---------------------------- MODULE ServicesProofs ----------------------------
(***************************************************************************)
(* What is proved of the transport stream, of the STUN requesters and of   *)
(* the messages over TCP.                                                  *)
(*                                                                         *)
(* A TransportStream forgets nobody and loses nothing, for any readers,    *)
(* writers, sizes and bounds: a reader has a call posted while there is    *)
(* something to read (ReadersTold), and the read that empties the stream   *)
(* posts a call to every writer (WritersTold), but for reads of zero       *)
(* bytes; every byte is handed over once and in its order (BytesKept). The *)
(* flags of notifySubscribers make the first two so: the invariant says    *)
(* what each of them stands for. For the third it says where the bytes     *)
(* that were written are cut at the ends of the buffers.                   *)
(*                                                                         *)
(* For any requests, servers, lookups and answers: the manager's map is    *)
(* exact, no server is asked twice, and a discovery has one outcome.       *)
(*                                                                         *)
(* For any messages: TCPMessaging hands them on whole, once and in order,  *)
(* leaves none behind, and does not linger without the timer that ends it. *)
(***************************************************************************)
EXTENDS TransportStream, STUNDiscovery, TCPMessaging, FiniteSetTheorems,
        SequenceTheorems, WellFoundedInduction, TLAPS

(* The members that matter here have their types; the buffers are a         *)
(* sequence of anything.                                                    *)
Shape(s) ==
  /\ s = [buffers |-> s.buffers, blocking |-> s.blocking, blocked |-> s.blocked,
          blockHeader |-> s.blockHeader, shutdown |-> s.shutdown,
          readerReady |-> s.readerReady, readNotified |-> s.readNotified,
          writeNotified |-> s.writeNotified, readers |-> s.readers,
          writers |-> s.writers, readerCalls |-> s.readerCalls,
          writerCalls |-> s.writerCalls]
  /\ \E T : s.buffers \in Seq(T)
  /\ s.shutdown \in BOOLEAN /\ s.blocking \in BOOLEAN /\ s.readerReady \in BOOLEAN
  /\ s.readNotified \in BOOLEAN /\ s.writeNotified \in BOOLEAN
  /\ s.readers \subseteq Readers /\ s.writers \subseteq Writers
  /\ s.readerCalls \in [Readers -> Nat] /\ s.writerCalls \in [Writers -> Nat]

(* What the flags stand for that a read of zero bytes leaves alone, and     *)
(* that a stream that was cancelled is empty.                               *)
Flags(s) ==
  /\ s.shutdown => s.buffers = << >>
  /\ s.readNotified => s.readerReady
  /\ s.readerReady /\ s.buffers # << >> => s.readNotified
  /\ s.buffers # << >> => ~s.writeNotified

Sound(s) == Shape(s) /\ Flags(s)

(* What mReadReadyNotified stands for beyond that. *)
Told(s) ==
  s.readNotified /\ s.buffers # << >> => \A r \in s.readers : s.readerCalls[r] > 0

(* A step from s to t that takes nothing out of the stream: other buffers   *)
(* are there only if the readers were told again.                           *)
Keeps(s, t) ==
  /\ Sound(t)
  /\ Told(s) \/ t.buffers # s.buffers => Told(t)
  /\ s.buffers # << >> => t.buffers # << >>

(* A step that takes something: who takes the last tells the writers. *)
Takes(s, t) ==
  /\ Sound(t) /\ Told(t)
  /\ s.buffers # << >> /\ t.buffers = << >> =>
       \A w \in t.writers : t.writerCalls[w] > 0

-----------------------------------------------------------------------------
(* The helpers. *)

(* Calls are posted to those who are meant, and none is lost. *)
LEMMA PostedLemma ==
  ASSUME NEW D, NEW calls \in [D -> Nat], NEW to
  PROVE  /\ Posted(calls, to) \in [D -> Nat]
         /\ \A x \in D : x \in to => Posted(calls, to)[x] > 0
         /\ \A x \in D : calls[x] > 0 => Posted(calls, to)[x] > 0
BY DEF Posted

(* Nothing can be taken from an empty stream, and what is left of one is a  *)
(* sequence of buffers.                                                     *)
LEMMA AfterTakingNothing == \A n : AfterTaking(<< >>, n) = << >>
<1> TAKE n
<1>1. UsedUp(<< >>, n) = 0
  <2>1. DOMAIN << >> = {}
    OBVIOUS
  <2>2. {i \in DOMAIN << >> : Before(<< >>, i) < n /\ Before(<< >>, i + 1) <= n} = {}
    BY <2>1, Zenon
  <2> QED BY <2>2, FS_EmptySet DEF UsedUp
<1>2. SubSeq(<< >>, 0 + 1, Len(<< >>)) = << >>
  OBVIOUS
<1> QED BY <1>1, <1>2 DEF AfterTaking

LEMMA AfterTakingSeq ==
  ASSUME NEW T, NEW bs \in Seq(T), NEW n
  PROVE  \E U : AfterTaking(bs, n) \in Seq(U)
<1> DEFINE k    == UsedUp(bs, n)
           rest == SubSeq(bs, k + 1, Len(bs))
           e    == ReadOf(rest[1], n - Before(bs, k + 1))
<1>1. k \in Nat
  <2> DEFINE K == {i \in DOMAIN bs : Before(bs, i) < n /\ Before(bs, i + 1) <= n}
  <2>1. Len(bs) \in Nat /\ DOMAIN bs = 1..Len(bs)
    OBVIOUS
  <2>2. IsFiniteSet(1..Len(bs))
    BY <2>1, FS_Interval
  <2>3. K \in SUBSET (1..Len(bs))
    BY <2>1
  <2> QED BY <2>2, <2>3, FS_Subset, FS_CardinalityType DEF UsedUp
<1>2. rest \in Seq(T)
  BY <1>1
<1>3. CASE rest = << >>
  BY <1>2, <1>3 DEF AfterTaking
<1>4. CASE rest # << >>
  <2>1. AfterTaking(bs, n) = [rest EXCEPT ![1] = e]
    BY <1>4 DEF AfterTaking
  <2> HIDE DEF e, rest
  <2>2. rest \in Seq(T \cup {e}) /\ 1 \in 1..Len(rest)
    BY <1>2, <1>4, SeqMonotonic
  <2>3. [rest EXCEPT ![1] = e] \in Seq(T \cup {e})
    BY <2>2, ExceptSeq
  <2> QED BY <2>1, <2>3
<1> QED BY <1>3, <1>4

-----------------------------------------------------------------------------
(* The flags. *)

(* What notifySubscribers makes of each member. *)
Notified(s, afterRead, afterWrite, t) ==
  /\ Shape(t)
  /\ t.buffers = s.buffers /\ (t.shutdown <=> s.shutdown)
  /\ t.readers = s.readers /\ t.writers = s.writers
  /\ t.readerReady <=> (s.readerReady \/ afterRead)
  /\ t.readNotified <=> ((s.readNotified /\ ~afterRead /\ ~afterWrite)
                          \/ (s.buffers # << >> /\ t.readerReady))
  /\ t.writeNotified <=> ((s.writeNotified /\ ~afterWrite) \/ s.buffers = << >>)
  /\ t.readNotified /\ (~s.readNotified \/ afterRead \/ afterWrite) =>
       \A r \in t.readers : t.readerCalls[r] > 0
  /\ \A r \in Readers : s.readerCalls[r] > 0 => t.readerCalls[r] > 0
  /\ s.buffers = << >> /\ (~s.writeNotified \/ afterWrite) =>
       \A w \in t.writers : t.writerCalls[w] > 0

(* notifySubscribers does that. *)
LEMMA NotifyFields ==
  ASSUME NEW s, Shape(s), NEW afterRead \in BOOLEAN, NEW afterWrite \in BOOLEAN
  PROVE  Notified(s, afterRead, afterWrite, NotifySubscribers(s, afterRead, afterWrite))
<1> DEFINE t           == NotifySubscribers(s, afterRead, afterWrite)
           ready       == s.readerReady \/ afterRead
           readTold    == s.readNotified /\ ~afterRead /\ ~afterWrite
           writeTold   == s.writeNotified /\ ~afterWrite
           tellReaders == s.buffers # << >> /\ ready /\ ~readTold
           tellWriters == s.buffers = << >> /\ ~writeTold
           rn == readTold \/ tellReaders
           wn == writeTold \/ tellWriters
           rc == IF tellReaders THEN Posted(s.readerCalls, s.readers) ELSE s.readerCalls
           wc == IF tellWriters THEN Posted(s.writerCalls, s.writers) ELSE s.writerCalls
<1>1. t = [s EXCEPT !.readerReady = ready, !.readNotified = rn, !.writeNotified = wn,
                    !.readerCalls = rc, !.writerCalls = wc]
  BY Zenon DEF NotifySubscribers
<1>2. /\ ready \in BOOLEAN /\ rn \in BOOLEAN /\ wn \in BOOLEAN
      /\ rc \in [Readers -> Nat] /\ wc \in [Writers -> Nat]
  BY PostedLemma DEF Shape
<1>3. /\ tellReaders => \A r \in s.readers : rc[r] > 0
      /\ tellWriters => \A w \in s.writers : wc[w] > 0
      /\ \A r \in Readers : s.readerCalls[r] > 0 => rc[r] > 0
  <2> HIDE DEF tellReaders, tellWriters
  <2> QED BY PostedLemma DEF Shape
<1>4. /\ rn <=> ((s.readNotified /\ ~afterRead /\ ~afterWrite)
                  \/ (s.buffers # << >> /\ ready))
      /\ wn <=> ((s.writeNotified /\ ~afterWrite) \/ s.buffers = << >>)
      /\ ready <=> (s.readerReady \/ afterRead)
  OBVIOUS
<1>5. rn /\ (~s.readNotified \/ afterRead \/ afterWrite) => tellReaders
  OBVIOUS
<1>6. s.buffers = << >> /\ (~s.writeNotified \/ afterWrite) => tellWriters
  OBVIOUS
<1> HIDE DEF tellReaders, tellWriters
<1> HIDE DEF ready, rn, wn, rc, wc
<1>7. t = [buffers |-> s.buffers, blocking |-> s.blocking, blocked |-> s.blocked,
           blockHeader |-> s.blockHeader, shutdown |-> s.shutdown,
           readerReady |-> ready, readNotified |-> rn, writeNotified |-> wn,
           readers |-> s.readers, writers |-> s.writers,
           readerCalls |-> rc, writerCalls |-> wc]
  BY <1>1 DEF Shape
<1> HIDE DEF t
<1>8. /\ Shape(t)
      /\ t.buffers = s.buffers /\ (t.shutdown <=> s.shutdown)
      /\ t.readers = s.readers /\ t.writers = s.writers
      /\ t.readerReady = ready /\ t.readNotified = rn /\ t.writeNotified = wn
      /\ t.readerCalls = rc /\ t.writerCalls = wc
  BY <1>2, <1>7 DEF Shape
<1>9. Notified(s, afterRead, afterWrite, t)
  BY <1>3, <1>4, <1>5, <1>6, <1>8 DEF Notified, Shape
<1> QED BY <1>9 DEF t

-----------------------------------------------------------------------------
(* Each operation leaves the stream consistent.                             *)

(* Other buffers leave the other members alone. *)
LEMMA OtherBuffers ==
  ASSUME NEW s, Shape(s), NEW b, NEW T, b \in Seq(T),
         NEW t, t = [s EXCEPT !.buffers = b]
  PROVE  /\ Shape(t) /\ t.buffers = b
         /\ (t.shutdown <=> s.shutdown) /\ t.readerReady = s.readerReady
         /\ t.readNotified = s.readNotified /\ t.writeNotified = s.writeNotified
<1>1. t = [buffers |-> b, blocking |-> s.blocking, blocked |-> s.blocked,
           blockHeader |-> s.blockHeader, shutdown |-> s.shutdown,
           readerReady |-> s.readerReady, readNotified |-> s.readNotified,
           writeNotified |-> s.writeNotified, readers |-> s.readers,
           writers |-> s.writers, readerCalls |-> s.readerCalls,
           writerCalls |-> s.writerCalls]
  BY DEF Shape
<1> QED BY <1>1 DEF Shape

(* After a write every flag is as it should be, whatever it was before.     *)
LEMMA PushConsistent ==
  ASSUME NEW s, NEW data, NEW header,
         Shape(s), ~s.shutdown, s.readNotified => s.readerReady
  PROVE  Keeps(s, Push(s, data, header)) /\ Told(Push(s, data, header))
<1> DEFINE e == [left |-> data, header |-> header]
           b == Append(s.buffers, e)
           t == [s EXCEPT !.buffers = b]
           u == NotifySubscribers(t, FALSE, TRUE)
<1>1. Push(s, data, header) = u
  BY DEF Push
<1>2. b # << >> /\ \E U : b \in Seq(U)
  <2> HIDE DEF e
  <2>1. PICK T : s.buffers \in Seq(T)
    BY DEF Shape
  <2>2. s.buffers \in Seq(T \cup {e})
    BY <2>1, SeqMonotonic
  <2>3. b \in Seq(T \cup {e}) /\ b # << >>
    BY <2>2
  <2> QED BY <2>3
<1> HIDE DEF b
<1>3. Shape(t) /\ t.buffers = b /\ ~t.shutdown /\ (t.readNotified => t.readerReady)
  BY <1>2, OtherBuffers
<1> HIDE DEF t
<1>4. Notified(t, FALSE, TRUE, u)
  BY <1>3, NotifyFields
<1> HIDE DEF u
<1>5. Shape(u) /\ Flags(u) /\ Told(u) /\ u.buffers # << >>
  BY <1>2, <1>3, <1>4 DEF Flags, Told, Notified
<1> QED BY <1>1, <1>5 DEF Sound, Keeps

(* After a read too, if it is known that no call to the writers is due; the *)
(* read that empties the stream posts it.                                   *)
LEMMA ReadConsistent ==
  ASSUME NEW s, Sound(s), ~s.shutdown,
         NEW b, NEW T, b \in Seq(T), s.buffers = << >> => b = << >>,
         NEW u, u = NotifySubscribers([s EXCEPT !.buffers = b], TRUE, FALSE)
  PROVE  Takes(s, u)
<1> DEFINE t == [s EXCEPT !.buffers = b]
<1>1. /\ Shape(t) /\ t.buffers = b /\ ~t.shutdown
      /\ t.writeNotified = s.writeNotified
  <2>1. Shape(s)
    BY DEF Sound
  <2> QED BY <2>1, OtherBuffers
<1>2. u = NotifySubscribers(t, TRUE, FALSE)
  OBVIOUS
<1> HIDE DEF t
<1>3. Notified(t, TRUE, FALSE, u)
  BY <1>1, <1>2, NotifyFields
<1>4. Shape(u) /\ Flags(u) /\ Told(u)
  <2>1. b # << >> => ~t.writeNotified
    BY <1>1 DEF Sound, Flags
  <2> QED BY <1>1, <1>3, <2>1 DEF Flags, Told, Notified
<1>5. s.buffers # << >> /\ u.buffers = << >> => \A w \in u.writers : u.writerCalls[w] > 0
  BY <1>1, <1>3 DEF Sound, Flags, Notified
<1> QED BY <1>4, <1>5 DEF Sound, Takes

(* What every way of reading but that of zero bytes does with a stream.     *)
LEMMA TakingConsistent ==
  ASSUME NEW s, Sound(s),
         NEW u, u = AfterReadNext(s) \/ \E n : u = AfterRead(s, n)
  PROVE  Takes(s, u)
<1>0. s.shutdown \/ s.buffers = << >> => Takes(s, s)
  BY DEF Sound, Flags, Told, Takes
<1>1. PICK T : s.buffers \in Seq(T)
  BY DEF Sound, Shape
<1>2. CASE s.shutdown
  BY <1>0, <1>2 DEF AfterReadNext, AfterRead
<1>3. CASE ~s.shutdown /\ u = AfterReadNext(s)
  <2>1. CASE s.buffers = << >>
    BY <1>0, <1>3, <2>1 DEF AfterReadNext
  <2>2. CASE s.buffers # << >>
    <3>1. Tail(s.buffers) \in Seq(T)
      BY <1>1, <2>2
    <3>2. u = NotifySubscribers([s EXCEPT !.buffers = Tail(s.buffers)], TRUE, FALSE)
      BY <1>3, <2>2 DEF AfterReadNext
    <3> QED BY <1>3, <2>2, <3>1, <3>2, ReadConsistent
  <2> QED BY <2>1, <2>2
<1>4. CASE ~s.shutdown /\ \E n : u = AfterRead(s, n)
  <2>1. PICK n : u = AfterRead(s, n)
    BY <1>4
  <2> DEFINE b == AfterTaking(s.buffers, n)
  <2>2. PICK U : b \in Seq(U)
    BY <1>1, AfterTakingSeq
  <2>3. s.buffers = << >> => b = << >>
    BY AfterTakingNothing
  <2>4. u = NotifySubscribers([s EXCEPT !.buffers = b], TRUE, FALSE)
    BY <1>4, <2>1 DEF AfterRead
  <2> HIDE DEF b
  <2> QED BY <1>4, <2>2, <2>3, <2>4, ReadConsistent
<1> QED BY <1>2, <1>3, <1>4

(* A block holds back what is written, nothing else. *)
WithBlock(s, bl, bd, bh) ==
  [s EXCEPT !.blocking = bl, !.blocked = bd, !.blockHeader = bh]

(* It leaves the flags as they are. *)
LEMMA BlockConsistent ==
  ASSUME NEW s, Sound(s), NEW bl \in BOOLEAN, NEW bd, NEW bh,
         NEW t, t = WithBlock(s, bl, bd, bh)
  PROVE  Keeps(s, t) /\ (~s.shutdown => ~t.shutdown) /\ t.buffers = s.buffers
<1>1. t = [buffers |-> s.buffers, blocking |-> bl, blocked |-> bd,
           blockHeader |-> bh, shutdown |-> s.shutdown,
           readerReady |-> s.readerReady, readNotified |-> s.readNotified,
           writeNotified |-> s.writeNotified, readers |-> s.readers,
           writers |-> s.writers, readerCalls |-> s.readerCalls,
           writerCalls |-> s.writerCalls]
  BY DEF Sound, Shape, WithBlock
<1>2. Sound(t) /\ (Told(s) => Told(t)) /\ (t.shutdown <=> s.shutdown) /\ t.buffers = s.buffers
  BY <1>1 DEF Sound, Shape, Flags, Told
<1> QED BY <1>2 DEF Keeps

(* What a writer does takes nothing out. *)
LEMMA WriterConsistent ==
  ASSUME NEW s, Sound(s)
  PROVE  /\ \A data, header : Keeps(s, Written(s, data, header))
         /\ Keeps(s, BlockedFrom(s)) /\ Keeps(s, Unblocked(s))
<1>1. ASSUME NEW data, NEW header PROVE Keeps(s, Written(s, data, header))
  <2>1. CASE s.shutdown
    BY <2>1 DEF Written, Keeps
  <2>2. CASE ~s.shutdown /\ s.blocking
    <3> DEFINE bd == s.blocked \o data
               bh == IF s.blockHeader = NoHeader THEN header ELSE s.blockHeader
               t  == [s EXCEPT !.blocked = bd, !.blockHeader = bh]
    <3>1. Written(s, data, header) = t
      BY <2>2 DEF Written
    <3> HIDE DEF bd, bh
    <3>2. t = WithBlock(s, s.blocking, bd, bh)
      BY DEF Sound, Shape, WithBlock
    <3>3. s.blocking \in BOOLEAN
      BY DEF Sound, Shape
    <3> HIDE DEF t
    <3>4. Keeps(s, t)
      BY <3>2, <3>3, BlockConsistent
    <3> QED BY <3>1, <3>4
  <2>3. CASE ~s.shutdown /\ ~s.blocking
    BY <2>3, PushConsistent DEF Written, Sound, Flags
  <2> QED BY <2>1, <2>2, <2>3
<1>2. Keeps(s, BlockedFrom(s))
  <2>1. Keeps(s, WithBlock(s, TRUE, << >>, NoHeader))
    BY BlockConsistent
  <2> QED BY <2>1, Zenon DEF BlockedFrom, WithBlock, Keeps
<1>3. Keeps(s, Unblocked(s))
  <2> DEFINE no   == FALSE
             none == << >>
             off  == WithBlock(s, no, none, NoHeader)
  <2> HIDE DEF no, none
  <2>0. no \in BOOLEAN
    BY DEF no
  <2>1. Keeps(s, off) /\ (~s.shutdown => ~off.shutdown) /\ off.buffers = s.buffers
    BY <2>0, BlockConsistent
  <2> HIDE DEF off
  <2>2. ~s.shutdown => Keeps(s, Push(off, s.blocked, s.blockHeader))
    BY <2>1, PushConsistent DEF Sound, Flags, Keeps
  <2> QED BY <2>1, <2>2, Zenon DEF Unblocked, off, no, none, WithBlock, Keeps
<1> QED BY <1>1, <1>2, <1>3

(* A reader that says it is ready is told of what waits already. *)
LEMMA ReaderReadyConsistent ==
  ASSUME NEW s, Sound(s)
  PROVE  Keeps(s, ReaderReady(s))
<1> DEFINE yes == TRUE
           t   == [s EXCEPT !.readerReady = yes]
           u   == NotifySubscribers(t, FALSE, FALSE)
<1> HIDE DEF yes
<1>1. t = [buffers |-> s.buffers, blocking |-> s.blocking, blocked |-> s.blocked,
           blockHeader |-> s.blockHeader, shutdown |-> s.shutdown,
           readerReady |-> yes, readNotified |-> s.readNotified,
           writeNotified |-> s.writeNotified, readers |-> s.readers,
           writers |-> s.writers, readerCalls |-> s.readerCalls,
           writerCalls |-> s.writerCalls]
  BY SMTT(20) DEF Sound, Shape
<1> HIDE DEF t
<1>2. /\ Shape(t) /\ t.buffers = s.buffers /\ (t.shutdown <=> s.shutdown)
      /\ t.readNotified = s.readNotified /\ t.writeNotified = s.writeNotified
      /\ t.readers = s.readers /\ t.readerCalls = s.readerCalls
      /\ t.readerReady = TRUE
  BY <1>1 DEF Sound, Shape, yes
<1>3. Notified(t, FALSE, FALSE, u)
  BY <1>2, NotifyFields
<1> HIDE DEF u
<1>4. ~s.shutdown => Shape(u) /\ Flags(u) /\ (Told(s) => Told(u)) /\ u.buffers = s.buffers
  BY <1>2, <1>3 DEF Sound, Flags, Told, Notified, Shape
<1> QED BY <1>4 DEF ReaderReady, Sound, Keeps, u, t, yes

(* Other subscribers, and other calls posted to them. *)
WithSubscribers(s, rs, ws, rc, wc) ==
  [s EXCEPT !.readers = rs, !.writers = ws, !.readerCalls = rc, !.writerCalls = wc]

(* They leave the flags as they are. *)
LEMMA OtherSubscribers ==
  ASSUME NEW s, Sound(s),
         NEW rs \in SUBSET Readers, NEW ws \in SUBSET Writers,
         NEW rc \in [Readers -> Nat], NEW wc \in [Writers -> Nat],
         NEW t, t = WithSubscribers(s, rs, ws, rc, wc)
  PROVE  /\ Sound(t)
         /\ t.buffers = s.buffers /\ (t.shutdown <=> s.shutdown)
         /\ (s.readerReady /\ s.buffers # << >> => \A r \in rs : rc[r] > 0) => Told(t)
<1>1. t = [buffers |-> s.buffers, blocking |-> s.blocking, blocked |-> s.blocked,
           blockHeader |-> s.blockHeader, shutdown |-> s.shutdown,
           readerReady |-> s.readerReady, readNotified |-> s.readNotified,
           writeNotified |-> s.writeNotified, readers |-> rs,
           writers |-> ws, readerCalls |-> rc, writerCalls |-> wc]
  BY DEF Sound, Shape, WithSubscribers
<1>2. /\ Shape(t) /\ Flags(t)
      /\ t.buffers = s.buffers /\ (t.shutdown <=> s.shutdown)
      /\ t.writers = ws /\ t.readers = rs /\ t.readerCalls = rc
      /\ t.readerReady = s.readerReady /\ t.readNotified = s.readNotified
  BY <1>1 DEF Sound, Shape, Flags
<1> QED BY <1>2 DEF Sound, Flags, Told

(* A notification that is called is no longer posted. *)
LEMMA CalledConsistent ==
  ASSUME NEW s, Sound(s), NEW r \in Readers, s.readerCalls[r] > 0,
         NEW t, t = Called(s, r)
  PROVE  Sound(t) /\ t.buffers = s.buffers
<1> DEFINE c == [s.readerCalls EXCEPT ![r] = @ - 1]
<1>1. c \in [Readers -> Nat]
  BY DEF Sound, Shape
<1>2. t = [s EXCEPT !.readerCalls = c]
  BY DEF Called
<1> HIDE DEF c
<1>3. t = WithSubscribers(s, s.readers, s.writers, c, s.writerCalls)
  BY <1>2 DEF Sound, Shape, WithSubscribers
<1>4. /\ s.readers \in SUBSET Readers /\ s.writers \in SUBSET Writers
      /\ s.writerCalls \in [Writers -> Nat]
  BY DEF Sound, Shape
<1> QED BY <1>1, <1>3, <1>4, OtherSubscribers

(* So do subscribing, which posts a call if one is due, and unsubscribing.  *)
LEMMA SubscribersConsistent ==
  ASSUME NEW s, Sound(s)
  PROVE  /\ \A r \in Readers : Keeps(s, WithReader(s, r))
         /\ \A w \in Writers : Keeps(s, WithWriter(s, w))
         /\ \A r : Keeps(s, [s EXCEPT !.readers = @ \ {r}])
         /\ \A w : Keeps(s, [s EXCEPT !.writers = @ \ {w}])
         /\ \A w \in Writers : s.writerCalls[w] > 0 =>
              Keeps(s, [s EXCEPT !.writerCalls[w] = @ - 1])
<1>0. /\ s.readers \in SUBSET Readers /\ s.writers \in SUBSET Writers
      /\ s.readerCalls \in [Readers -> Nat] /\ s.writerCalls \in [Writers -> Nat]
  BY DEF Sound, Shape
<1>00. Told(s) /\ s.readerReady /\ s.buffers # << >> =>
         \A r \in s.readers : s.readerCalls[r] > 0
  BY DEF Sound, Flags, Told
<1>1. ASSUME NEW r \in Readers PROVE Keeps(s, WithReader(s, r))
  <2> DEFINE rs == s.readers \cup {r}
             rc == IF s.buffers # << >> /\ s.readerReady
                     THEN Posted(s.readerCalls, {r}) ELSE s.readerCalls
             t  == WithSubscribers(s, rs, s.writers, rc, s.writerCalls)
  <2>1. rs \in SUBSET Readers /\ rc \in [Readers -> Nat]
    BY <1>0, <1>1, PostedLemma
  <2>2. Told(s) /\ s.readerReady /\ s.buffers # << >> => \A x \in rs : rc[x] > 0
    BY <1>0, <1>00, <1>1, PostedLemma
  <2>3. [s EXCEPT !.readers = rs, !.readerCalls = rc] = t
    <3> HIDE DEF rs, rc
    <3> QED BY DEF Sound, Shape, WithSubscribers
  <2>4. WithReader(s, r) = IF s.shutdown THEN s ELSE t
    BY <2>3, Zenon DEF WithReader
  <2>5. Keeps(s, t)
    <3> HIDE DEF rs, rc
    <3> QED BY <1>0, <2>1, <2>2, <1>00, OtherSubscribers DEF Keeps
  <2> HIDE DEF t
  <2> QED BY <2>4, <2>5 DEF Keeps
<1>2. ASSUME NEW w \in Writers PROVE Keeps(s, WithWriter(s, w))
  <2> DEFINE ws == s.writers \cup {w}
             wc == IF s.buffers = << >> /\ s.readerReady
                     THEN Posted(s.writerCalls, {w}) ELSE s.writerCalls
             t  == WithSubscribers(s, s.readers, ws, s.readerCalls, wc)
  <2>1. ws \in SUBSET Writers /\ wc \in [Writers -> Nat]
    BY <1>0, <1>2, PostedLemma
  <2>2. [s EXCEPT !.writers = ws, !.writerCalls = wc] = t
    <3> HIDE DEF ws, wc
    <3> QED BY DEF Sound, Shape, WithSubscribers
  <2>3. WithWriter(s, w) = IF s.shutdown THEN s ELSE t
    BY <2>2, Zenon DEF WithWriter
  <2>4. Keeps(s, t)
    <3> HIDE DEF ws, wc
    <3> QED BY <1>0, <2>1, <1>00, OtherSubscribers DEF Keeps
  <2> HIDE DEF t
  <2> QED BY <2>3, <2>4 DEF Keeps
<1>3. ASSUME NEW r PROVE Keeps(s, [s EXCEPT !.readers = @ \ {r}])
  <2> DEFINE rs == s.readers \ {r}
  <2>1. rs \in SUBSET Readers /\ rs \subseteq s.readers
    BY <1>0
  <2> HIDE DEF rs
  <2>2. [s EXCEPT !.readers = rs] =
          WithSubscribers(s, rs, s.writers, s.readerCalls, s.writerCalls)
    BY DEF Sound, Shape, WithSubscribers
  <2>3. Keeps(s, [s EXCEPT !.readers = rs])
    BY <1>0, <2>1, <2>2, <1>00, OtherSubscribers DEF Keeps
  <2> QED BY <2>3 DEF rs
<1>4. ASSUME NEW w PROVE Keeps(s, [s EXCEPT !.writers = @ \ {w}])
  <2> DEFINE ws == s.writers \ {w}
  <2>1. ws \in SUBSET Writers
    BY <1>0
  <2> HIDE DEF ws
  <2>2. [s EXCEPT !.writers = ws] =
          WithSubscribers(s, s.readers, ws, s.readerCalls, s.writerCalls)
    BY DEF Sound, Shape, WithSubscribers
  <2>3. Keeps(s, [s EXCEPT !.writers = ws])
    BY <1>0, <2>1, <2>2, <1>00, OtherSubscribers DEF Keeps
  <2> QED BY <2>3 DEF ws
<1>5. ASSUME NEW w \in Writers, s.writerCalls[w] > 0
      PROVE  Keeps(s, [s EXCEPT !.writerCalls[w] = @ - 1])
  <2> DEFINE wc == [s.writerCalls EXCEPT ![w] = @ - 1]
  <2>1. wc \in [Writers -> Nat]
    BY <1>0, <1>5
  <2> HIDE DEF wc
  <2>2. [s EXCEPT !.writerCalls = wc] =
          WithSubscribers(s, s.readers, s.writers, s.readerCalls, wc)
    BY DEF Sound, Shape, WithSubscribers
  <2>3. Keeps(s, [s EXCEPT !.writerCalls = wc])
    BY <1>0, <2>1, <2>2, <1>00, OtherSubscribers DEF Keeps
  <2> QED BY <2>3 DEF wc
<1> QED BY <1>1, <1>2, <1>3, <1>4, <1>5

(* A stream that is cancelled is empty, and has no subscribers. *)
LEMMA CancelConsistent ==
  ASSUME NEW s, Sound(s)
  PROVE  Sound(CancelledStream(s)) /\ Told(CancelledStream(s)) /\ CancelledStream(s).shutdown
<1> DEFINE yes == TRUE
           u   == WithSubscribers(s, {}, {}, s.readerCalls, s.writerCalls)
           v   == [u EXCEPT !.buffers = << >>]
           t   == [v EXCEPT !.shutdown = yes]
<1>1. CancelledStream(s) = t
  BY DEF CancelledStream, WithSubscribers, Sound, Shape
<1>2. Sound(u)
  <2>1. s.readerCalls \in [Readers -> Nat] /\ s.writerCalls \in [Writers -> Nat]
    BY DEF Sound, Shape
  <2>2. {} \in SUBSET Readers /\ {} \in SUBSET Writers
    OBVIOUS
  <2> QED BY <2>1, <2>2, OtherSubscribers
<1> HIDE DEF u, yes
<1>3. Shape(v) /\ v.buffers = << >> /\ (v.readNotified => v.readerReady)
  <2> DEFINE none == << >>
  <2>1. none \in Seq({})
    OBVIOUS
  <2>2. Shape(u) /\ (u.readNotified => u.readerReady)
    BY <1>2 DEF Sound, Flags
  <2>3. v = [u EXCEPT !.buffers = none]
    OBVIOUS
  <2> HIDE DEF none, v
  <2>4. Shape(v) /\ v.buffers = none /\ (v.readNotified => v.readerReady)
    BY <2>1, <2>2, <2>3, OtherBuffers
  <2> QED BY <2>4 DEF none
<1> HIDE DEF v
<1>4. t = [buffers |-> v.buffers, blocking |-> v.blocking, blocked |-> v.blocked,
           blockHeader |-> v.blockHeader, shutdown |-> yes,
           readerReady |-> v.readerReady, readNotified |-> v.readNotified,
           writeNotified |-> v.writeNotified, readers |-> v.readers,
           writers |-> v.writers, readerCalls |-> v.readerCalls,
           writerCalls |-> v.writerCalls]
  BY <1>3 DEF Shape
<1> HIDE DEF t
<1>5. yes /\ yes \in BOOLEAN
  BY DEF yes
<1>6. Sound(t) /\ Told(t) /\ t.shutdown
  BY <1>3, <1>4, <1>5 DEF Sound, Shape, Flags, Told
<1> QED BY <1>1, <1>6

-----------------------------------------------------------------------------
(* The theorems. *)

(* A stream starts consistent. *)
LEMMA InitConsistent == Init => Sound(stream) /\ Told(stream)
<1> SUFFICES ASSUME Init PROVE Sound(stream) /\ Told(stream)
  OBVIOUS
<1>1. PICK rs \in SUBSET Readers, ws \in SUBSET Writers :
        stream = [NewStream EXCEPT !.readers = rs, !.writers = ws]
  BY DEF Init
<1> DEFINE no == FALSE
           rc == [r \in Readers |-> 0]
           wc == [w \in Writers |-> 0]
<1>2. stream = [buffers |-> << >>, blocking |-> no, blocked |-> << >>,
                blockHeader |-> NoHeader, shutdown |-> no, readerReady |-> no,
                readNotified |-> no, writeNotified |-> no, readers |-> rs,
                writers |-> ws, readerCalls |-> rc, writerCalls |-> wc]
  BY <1>1 DEF NewStream
<1>3. /\ no \in BOOLEAN /\ ~no /\ << >> \in Seq({})
      /\ rc \in [Readers -> Nat] /\ wc \in [Writers -> Nat]
  OBVIOUS
<1> HIDE DEF no, rc, wc
<1> QED BY <1>2, <1>3 DEF Sound, Shape, Flags, Told

(* The invariant. *)
NobodyForgotten == Sound(stream) /\ (~missed => Told(stream))

(* A read of zero bytes leaves the flags as they are; if it takes nothing    *)
(* it leaves all as it is.                                                  *)
LEMMA ReadZeroConsistent ==
  ASSUME NEW s, Sound(s), NEW u, u = AfterReadZero(s)
  PROVE  /\ Sound(u)
         /\ \/ u = s
            \/ u.buffers # s.buffers
<1>1. CASE u = s
  BY <1>1
<1>2. CASE ~s.shutdown /\ s.buffers # << >> /\ u = [s EXCEPT !.buffers = Tail(s.buffers)]
  <2> DEFINE b == Tail(s.buffers)
  <2>1. PICK T : s.buffers \in Seq(T)
    BY DEF Sound, Shape
  <2>2. b \in Seq(T) /\ Len(b) = Len(s.buffers) - 1 /\ Len(s.buffers) \in Nat
    BY <1>2, <2>1
  <2>3. b # s.buffers
    <3>1. Len(b) # Len(s.buffers)
      <4> HIDE DEF b
      <4> QED BY <2>2
    <3> QED BY <3>1
  <2>4. Shape(s) /\ u = [s EXCEPT !.buffers = b]
    BY <1>2 DEF Sound
  <2> HIDE DEF b
  <2>5. /\ Shape(u) /\ u.buffers = b
        /\ (u.shutdown <=> s.shutdown) /\ u.readerReady = s.readerReady
        /\ u.readNotified = s.readNotified /\ u.writeNotified = s.writeNotified
    BY <2>2, <2>4, OtherBuffers
  <2>6. Flags(u)
    BY <1>2, <2>5 DEF Sound, Flags
  <2> QED BY <2>3, <2>5, <2>6 DEF Sound
<1> QED BY <1>1, <1>2 DEF AfterReadZero

(* What a step that takes something comes to: the readers were told, or     *)
(* they have missed something.                                              *)
StepTells ==
  /\ NobodyForgotten'
  /\ ~missed' /\ stream.buffers # << >> /\ stream'.buffers = << >> =>
       \A w \in stream'.writers : stream'.writerCalls[w] > 0

(* Reads by whoever comes take something or miss it. *)
LEMMA ReadStep ==
  ASSUME NobodyForgotten, Read
  PROVE  StepTells
<1>1. CASE stream' = AfterReadNext(stream) \/ \E n : stream' = AfterRead(stream, n)
  BY <1>1, TakingConsistent DEF NobodyForgotten, Takes, StepTells
<1>2. CASE ReadZero(stream)
  <2>1. Sound(stream') /\ (stream' = stream \/ stream'.buffers # stream.buffers)
    BY <1>2, ReadZeroConsistent DEF ReadZero, NobodyForgotten
  <2>2. missed' = (missed \/ stream'.buffers # stream.buffers)
    BY <1>2 DEF ReadZero
  <2> QED BY <2>1, <2>2 DEF StepTells, NobodyForgotten
<1> QED BY <1>1, <1>2 DEF Read, ReadBytes, ReadNext

(* So do the reads of a reader that is told. *)
LEMMA OnReaderReadyStep ==
  ASSUME NobodyForgotten, NEW r \in Readers, OnReaderReady(r)
  PROVE  StepTells
<1> DEFINE t == Called(stream, r)
<1>1. stream.readerCalls[r] > 0
  BY DEF OnReaderReady
<1>2. \/ stream' = AfterReadNext(t) \/ \E n : stream' = AfterRead(t, n)
      \/ NothingNext(t) /\ ReadZero(t)
  BY DEF OnReaderReady, ReadNext, ReadBytes
<1> HIDE DEF t
<1>3. Sound(t) /\ t.buffers = stream.buffers
  BY <1>1, CalledConsistent DEF t, NobodyForgotten
<1>4. CASE stream' = AfterReadNext(t) \/ \E n : stream' = AfterRead(t, n)
  BY <1>3, <1>4, TakingConsistent DEF NobodyForgotten, Takes, StepTells
<1>5. CASE NothingNext(t) /\ ReadZero(t)
  <2>1. stream' = AfterReadZero(t) /\ missed' = (missed \/ stream'.buffers # stream.buffers)
    BY <1>5 DEF ReadZero
  <2>2. Sound(stream') /\ (stream' = t \/ stream'.buffers # t.buffers)
    BY <1>3, <2>1, ReadZeroConsistent
  <2>3. CASE t.buffers = << >>
    <3>1. stream' = t
      BY <2>1, <2>3 DEF AfterReadZero
    <3> QED BY <1>3, <2>3, <3>1 DEF StepTells, NobodyForgotten, Told
  <2>4. CASE t.buffers # << >>
    <3>1. stream' = [t EXCEPT !.buffers = Tail(t.buffers)]
      BY <1>3, <1>5, <2>1, <2>4 DEF AfterReadZero, NothingNext, Sound, Flags
    <3>2. PICK T : t.buffers \in Seq(T)
      BY <1>3 DEF Sound, Shape
    <3>3. stream'.buffers = Tail(t.buffers)
      BY <1>3, <3>1 DEF Sound, Shape
    <3>4. Len(Tail(t.buffers)) = Len(t.buffers) - 1 /\ Len(t.buffers) \in Nat
      BY <2>4, <3>2
    <3> DEFINE b == Tail(t.buffers)
    <3> HIDE DEF b
    <3>5. stream'.buffers # t.buffers
      <4>1. Len(b) # Len(t.buffers)
        BY <3>4 DEF b
      <4> QED BY <3>3, <4>1 DEF b
    <3>6. missed'
      BY <1>3, <2>1, <3>5
    <3> QED BY <2>2, <3>6 DEF StepTells, NobodyForgotten
  <2> QED BY <2>3, <2>4
<1> QED BY <1>2, <1>4, <1>5

(* The read that takes the last buffer is the only step that leaves a       *)
(* stream empty that was not, unless it is cancelled.                       *)
LEMMA NextConsistent ==
  ASSUME NobodyForgotten, [Next]_vars
  PROVE  NobodyForgotten' /\ (~stream'.shutdown => StepTells)
<1>0. Sound(stream)
  BY DEF NobodyForgotten
<1>1. ASSUME Keeps(stream, stream'), ToldAgain \/ UNCHANGED missed
      PROVE  NobodyForgotten' /\ (~stream'.shutdown => StepTells)
  <2>1. stream'.buffers = stream.buffers /\ missed => missed'
    BY <1>1 DEF ToldAgain
  <2> QED BY <1>1, <2>1 DEF Keeps, StepTells, NobodyForgotten
<1>2. ASSUME StepTells
      PROVE  NobodyForgotten' /\ (~stream'.shutdown => StepTells)
  BY <1>2 DEF StepTells
<1>3. CASE Write
  <2>1. PICK data, header : stream' = Written(stream, data, header)
    BY <1>3 DEF Write
  <2>2. ToldAgain
    BY <1>3 DEF Write
  <2> QED BY <1>0, <1>1, <2>1, <2>2, WriterConsistent
<1>4. CASE Block
  BY <1>0, <1>1, <1>4, WriterConsistent DEF Block
<1>5. CASE Unblock
  BY <1>0, <1>1, <1>5, WriterConsistent DEF Unblock
<1>6. CASE NotifyReaderReadyToRead
  BY <1>0, <1>1, <1>6, ReaderReadyConsistent DEF NotifyReaderReadyToRead
<1>7. CASE Read
  BY <1>2, <1>7, ReadStep
<1>8. CASE \E r \in Readers : OnReaderReady(r)
  BY <1>2, <1>8, OnReaderReadyStep
<1>9. CASE \E w \in Writers : OnWriterReady(w)
  BY <1>0, <1>1, <1>9, SubscribersConsistent DEF OnWriterReady
<1>10. CASE Subscribe
  BY <1>0, <1>1, <1>10, SubscribersConsistent DEF Subscribe
<1>11. CASE Unsubscribe
  <2>0. UNCHANGED missed
    BY <1>11 DEF Unsubscribe
  <2>1. CASE \E r \in stream.readers : stream' = [stream EXCEPT !.readers = @ \ {r}]
    <3>1. PICK r : stream' = [stream EXCEPT !.readers = @ \ {r}]
      BY <2>1
    <3>2. Keeps(stream, [stream EXCEPT !.readers = @ \ {r}])
      BY <1>0, SubscribersConsistent, Zenon
    <3>3. Keeps(stream, stream')
      BY <3>1, <3>2, Zenon
    <3> QED BY <1>1, <2>0, <3>3
  <2>2. CASE \E w \in stream.writers : stream' = [stream EXCEPT !.writers = @ \ {w}]
    <3>1. PICK w : stream' = [stream EXCEPT !.writers = @ \ {w}]
      BY <2>2
    <3>2. Keeps(stream, [stream EXCEPT !.writers = @ \ {w}])
      BY <1>0, SubscribersConsistent, Zenon
    <3>3. Keeps(stream, stream')
      BY <3>1, <3>2, Zenon
    <3> QED BY <1>1, <2>0, <3>3
  <2> QED BY <1>11, <2>1, <2>2 DEF Unsubscribe
<1>12. CASE Cancel
  <2>1. Sound(stream') /\ Told(stream') /\ stream'.shutdown
    BY <1>0, <1>12, CancelConsistent DEF Cancel
  <2> QED BY <2>1 DEF NobodyForgotten
<1>13. CASE UNCHANGED vars
  BY <1>0, <1>1, <1>13 DEF vars, Keeps
<1> QED BY <1>3, <1>4, <1>5, <1>6, <1>7, <1>8, <1>9, <1>10, <1>11, <1>12, <1>13 DEF Next

(* A reader that waits is told: while there is something to read a call is  *)
(* posted to every subscribed reader, late ones included, whoever read      *)
(* before, unless the last read was one of zero bytes.                      *)
THEOREM SpecReadersTold == Spec => []ReadersTold
<1>1. Init => NobodyForgotten
  BY InitConsistent DEF NobodyForgotten, Init
<1>2. NobodyForgotten /\ [Next]_vars => NobodyForgotten'
  BY NextConsistent
<1>3. NobodyForgotten => ReadersTold
  BY DEF NobodyForgotten, Sound, Flags, Told, ReadersTold
<1> QED BY <1>1, <1>2, <1>3, PTL DEF Spec

(* The read that empties the stream posts a call to every writer, unless it *)
(* is one of zero bytes.                                                    *)
THEOREM SpecWritersTold == Spec => WritersTold
<1> DEFINE Emptied == /\ stream.buffers # << >>
                      /\ stream'.buffers = << >>
                      /\ ~stream'.shutdown
                      /\ ~missed'
                      => \A w \in stream'.writers : stream'.writerCalls[w] > 0
<1>1. Init => NobodyForgotten
  BY InitConsistent DEF NobodyForgotten, Init
<1>2. NobodyForgotten /\ [Next]_vars => NobodyForgotten' /\ [Emptied]_vars
  BY NextConsistent DEF StepTells
<1>3. Spec => [][Emptied]_vars
  BY <1>1, <1>2, PTL DEF Spec
<1> QED BY <1>3 DEF WritersTold

-----------------------------------------------------------------------------
(* The bytes. *)

(* The bytes after the a-th, up to the b-th. *)
Run(a, b) == [j \in 1..(b - a) |-> a + j]

(* A buffer holds such a run. *)
Filled(e, a, b) == e = [left |-> Run(a, b), header |-> e.header]

(* c cuts a run of bytes at the ends of the buffers: buffer i holds what is *)
(* between c[i - 1] and c[i].                                               *)
Cut(bs, c) ==
  /\ \E T : bs \in Seq(T)
  /\ c \in [0..Len(bs) -> Nat]
  /\ \A i, j \in 0..Len(bs) : i <= j => c[i] <= c[j]
  /\ \A i \in 1..Len(bs) : Filled(bs[i], c[i - 1], c[i])

-----------------------------------------------------------------------------
(* Runs of bytes. *)

(* A run is a sequence. *)
LEMMA RunSeq ==
  ASSUME NEW a \in Nat, NEW b \in Nat, a <= b
  PROVE  /\ Run(a, b) \in Seq(Nat) /\ Len(Run(a, b)) = b - a
         /\ \A j \in 1..(b - a) : Run(a, b)[j] = a + j
<1>1. b - a \in Nat /\ \A j \in 1..(b - a) : a + j \in Nat
  OBVIOUS
<1> QED BY <1>1 DEF Run

(* Runs that meet make up one. *)
LEMMA RunsMeet ==
  ASSUME NEW a \in Nat, NEW b \in Nat, NEW d \in Nat, a <= b, b <= d
  PROVE  Run(a, b) \o Run(b, d) = Run(a, d)
<1> DEFINE s == Run(a, b)
           t == Run(b, d)
           u == Run(a, d)
<1>1. /\ s \in Seq(Nat) /\ Len(s) = b - a /\ \A j \in 1..(b - a) : s[j] = a + j
      /\ t \in Seq(Nat) /\ Len(t) = d - b /\ \A j \in 1..(d - b) : t[j] = b + j
      /\ u \in Seq(Nat) /\ Len(u) = d - a /\ \A j \in 1..(d - a) : u[j] = a + j
  <2>1. a <= d
    OBVIOUS
  <2> QED BY <2>1, RunSeq
<1> HIDE DEF s, t, u
<1>2. /\ s \o t \in Seq(Nat) /\ Len(s \o t) = Len(s) + Len(t)
      /\ \A i \in 1 .. Len(s) + Len(t) :
           (s \o t)[i] = IF i <= Len(s) THEN s[i] ELSE t[i - Len(s)]
  BY <1>1, ConcatProperties
<1>3. Len(s \o t) = Len(u)
  BY <1>1, <1>2
<1>4. ASSUME NEW i \in 1..Len(s \o t) PROVE (s \o t)[i] = u[i]
  <2>1. i \in 1..(d - a) /\ i \in 1..Len(s) + Len(t)
    BY <1>1, <1>2
  <2>2. CASE i <= Len(s)
    <3>1. i \in 1..(b - a)
      BY <1>1, <2>1, <2>2
    <3> QED BY <1>1, <1>2, <2>1, <2>2, <3>1
  <2>3. CASE ~(i <= Len(s))
    <3>1. i - Len(s) \in 1..(d - b) /\ b + (i - Len(s)) = a + i
      BY <1>1, <2>1, <2>3
    <3> QED BY <1>1, <1>2, <2>1, <2>3, <3>1
  <2> QED BY <2>2, <2>3
<1>5. s \o t = u
  BY <1>1, <1>2, <1>3, <1>4, SeqEqual
<1> QED BY <1>5 DEF s, t, u

(* The first bytes of a run and those after them are runs. *)
LEMMA RunParts ==
  ASSUME NEW a \in Nat, NEW b \in Nat, NEW m \in Nat, a + m <= b
  PROVE  /\ SubSeq(Run(a, b), 1, m) = Run(a, a + m)
         /\ SubSeq(Run(a, b), m + 1, b - a) = Run(a + m, b)
<1> DEFINE s == Run(a, b)
<1>1. /\ s \in Seq(Nat) /\ Len(s) = b - a /\ \A j \in 1..(b - a) : s[j] = a + j
  BY RunSeq
<1> HIDE DEF s
<1>2. SubSeq(s, 1, m) = Run(a, a + m)
  <2> DEFINE t == SubSeq(s, 1, m)
             u == Run(a, a + m)
  <2>1. /\ u \in Seq(Nat) /\ Len(u) = m /\ \A j \in 1..m : u[j] = a + j
    <3>1. a + m \in Nat /\ a <= a + m /\ (a + m) - a = m
      OBVIOUS
    <3> QED BY <3>1, RunSeq
  <2>2. \A i \in 1..m : s[i] \in Nat /\ s[i] = a + i
    BY <1>1
  <2>3. /\ t \in Seq(Nat) /\ Len(t) = IF 1 <= m THEN m - 1 + 1 ELSE 0
        /\ \A i \in 1..m - 1 + 1 : t[i] = s[1 + i - 1]
    BY <2>2, SubSeqProperties
  <2> HIDE DEF t, u
  <2>4. Len(t) = Len(u) /\ \A i \in 1..Len(t) : t[i] = u[i]
    BY <2>1, <2>2, <2>3
  <2>5. t = u
    BY <2>1, <2>3, <2>4, SeqEqual
  <2> QED BY <2>5 DEF t, u
<1>3. SubSeq(s, m + 1, b - a) = Run(a + m, b)
  <2> DEFINE t == SubSeq(s, m + 1, b - a)
             u == Run(a + m, b)
             n == b - (a + m)
  <2>1. /\ u \in Seq(Nat) /\ Len(u) = n /\ \A j \in 1..n : u[j] = (a + m) + j
    <3>1. a + m \in Nat /\ a + m <= b
      OBVIOUS
    <3> QED BY <3>1, RunSeq
  <2>2. \A i \in m + 1..b - a : s[i] \in Nat /\ s[i] = a + i
    BY <1>1
  <2>3. /\ t \in Seq(Nat) /\ Len(t) = IF m + 1 <= b - a THEN (b - a) - (m + 1) + 1 ELSE 0
        /\ \A i \in 1..(b - a) - (m + 1) + 1 : t[i] = s[m + 1 + i - 1]
    <3>1. m + 1 \in Int /\ b - a \in Int
      OBVIOUS
    <3> QED BY <2>2, <3>1, SubSeqProperties
  <2> HIDE DEF t, u
  <2>4. Len(t) = Len(u)
    BY <2>1, <2>3
  <2>5. ASSUME NEW i \in 1..Len(t) PROVE t[i] = u[i]
    <3>1. i \in 1..n /\ i \in 1..(b - a) - (m + 1) + 1 /\ m + 1 + i - 1 \in m + 1..b - a
      BY <2>1, <2>4
    <3>2. t[i] = s[m + i]
      BY <2>3, <3>1
    <3>3. s[m + i] = a + (m + i) /\ u[i] = (a + m) + i
      BY <2>1, <2>2, <3>1
    <3> QED BY <3>2, <3>3
  <2>6. t = u
    BY <2>1, <2>3, <2>4, <2>5, SeqEqual
  <2> QED BY <2>6 DEF t, u
<1> QED BY <1>2, <1>3 DEF s

LEMMA RunHead ==
  ASSUME NEW a \in Nat, NEW b \in Nat, NEW m \in Nat, a + m <= b
  PROVE  SubSeq(Run(a, b), 1, m) = Run(a, a + m)
BY RunParts, Zenon

LEMMA RunTail ==
  ASSUME NEW a \in Nat, NEW b \in Nat, NEW m \in Nat, a + m <= b
  PROVE  SubSeq(Run(a, b), m + 1, b - a) = Run(a + m, b)
BY RunParts, Zenon

-----------------------------------------------------------------------------
(* Cuts. *)

(* What is left in buffers that are cut from a run, end to end, is the run. *)
LEMMA CutBytes ==
  ASSUME NEW bs, NEW c, Cut(bs, c)
  PROVE  Bytes(bs) = Run(c[0], c[Len(bs)])
<1> DEFINE n == Len(bs)
           q == [i \in DOMAIN bs |-> bs[i].left]
<1>1. n \in Nat /\ q = [i \in 1..n |-> bs[i].left] /\ Len(q) = n
      /\ \A i \in 1..n : q[i] = Run(c[i - 1], c[i])
  <2>0. PICK T : bs \in Seq(T)
    BY DEF Cut
  <2>1. n \in Nat /\ DOMAIN bs = 1..n
    BY <2>0
  <2>2. ASSUME NEW i \in 1..n PROVE bs[i].left = Run(c[i - 1], c[i])
    <3>1. Filled(bs[i], c[i - 1], c[i])
      BY DEF Cut
    <3> QED BY <3>1 DEF Filled
  <2>3. q = [i \in 1..n |-> bs[i].left]
    BY <2>1
  <2>4. Len([i \in 1..n |-> bs[i].left]) = n
    BY <2>1
  <2> HIDE DEF n
  <2> QED BY <2>1, <2>2, <2>3, <2>4
<1>2. /\ \A i \in 0..n : c[i] \in Nat
      /\ \A i, j \in 0..n : i <= j => c[i] <= c[j]
  BY DEF Cut
<1>3. Bytes(bs) = FlattenSeq(q)
  BY DEF Bytes
<1> HIDE DEF n, q
<1>4. CASE n = 0
  <2>1. q = << >>
    BY <1>1, <1>4
  <2>2. FlattenSeq(q) = q
    BY <1>1, <1>4 DEF FlattenSeq
  <2>3. Run(c[0], c[n]) = << >>
    <3>1. c[0] - c[0] = 0
      BY <1>1, <1>2
    <3>2. 1..0 = {}
      OBVIOUS
    <3> QED BY <1>4, <3>1, <3>2 DEF Run
  <2> QED BY <1>3, <2>1, <2>2, <2>3 DEF n
<1>5. CASE n > 0
  <2> DEFINE P(f) == f = [i \in 1..n |-> IF i = 1 THEN q[i] ELSE f[i - 1] \o q[i]]
             g    == [i \in 1..n |-> Run(c[0], c[i])]
             f0   == CHOOSE f : P(f)
  <2>1. FlattenSeq(q) = f0[n]
    BY <1>1, <1>5 DEF FlattenSeq
  <2>2. P(g)
    <3>1. ASSUME NEW i \in 1..n
          PROVE  Run(c[0], c[i]) = IF i = 1 THEN q[i] ELSE g[i - 1] \o q[i]
      <4>1. i \in 0..n /\ i - 1 \in 0..n /\ 0 \in 0..n /\ i # 1 => i - 1 \in 1..n
        BY <1>1
      <4>2. c[0] \in Nat /\ c[i - 1] \in Nat /\ c[i] \in Nat
            /\ c[0] <= c[i - 1] /\ c[i - 1] <= c[i]
        BY <1>1, <1>2
      <4>3. CASE i = 1
        BY <1>1, <4>3
      <4>4. CASE i # 1
        <5>1. g[i - 1] = Run(c[0], c[i - 1])
          BY <1>1, <4>4
        <5>2. Run(c[0], c[i - 1]) \o Run(c[i - 1], c[i]) = Run(c[0], c[i])
          BY <4>2, RunsMeet
        <5>3. q[i] = Run(c[i - 1], c[i])
          BY <1>1
        <5> HIDE DEF g
        <5>4. g[i - 1] \o q[i] = Run(c[0], c[i])
          BY <5>1, <5>2, <5>3, Zenon
        <5> QED BY <4>4, <5>4
      <4> QED BY <4>3, <4>4
    <3> QED BY <3>1
  <2>3. P(f0)
    BY <2>2
  <2> HIDE DEF g, f0
  <2>4. \A i \in 1..n : f0[i] = g[i]
    <3> DEFINE W == {i \in 1..n : f0[i] # g[i]}
    <3>1. SUFFICES ASSUME W # {} PROVE FALSE
      OBVIOUS
    <3>2. W \subseteq Nat
      OBVIOUS
    <3>3. PICK i \in W : \A j \in W : ~(<<j, i>> \in OpToRel(<, Nat))
      BY <3>1, <3>2, NatLessThanWellFounded, WFMin
    <3>4. i \in 1..n /\ f0[i] # g[i]
      OBVIOUS
    <3>5. i # 1 => i - 1 \in 1..n /\ i - 1 \notin W
      <4>1. i # 1 => i - 1 \in 1..n /\ i - 1 < i /\ <<i - 1, i>> \in Nat \X Nat
        BY <1>1, <3>4
      <4>2. i # 1 => <<i - 1, i>> \in OpToRel(<, Nat)
        BY <4>1 DEF OpToRel
      <4> HIDE DEF W
      <4> QED BY <3>3, <4>1, <4>2
    <3>6. i # 1 => f0[i - 1] = g[i - 1]
      BY <3>5
    <3>7. /\ f0[i] = IF i = 1 THEN q[i] ELSE f0[i - 1] \o q[i]
          /\ g[i] = IF i = 1 THEN q[i] ELSE g[i - 1] \o q[i]
      <4> HIDE DEF W
      <4>1. ASSUME NEW f, P(f) PROVE f[i] = IF i = 1 THEN q[i] ELSE f[i - 1] \o q[i]
        <5>1. [k \in 1..n |-> IF k = 1 THEN q[k] ELSE f[k - 1] \o q[k]][i] =
                IF i = 1 THEN q[i] ELSE f[i - 1] \o q[i]
          BY <3>4
        <5> QED BY <4>1, <5>1
      <4> HIDE DEF P
      <4> QED BY <2>2, <2>3, <4>1
    <3> QED BY <3>4, <3>6, <3>7
  <2>5. n \in 1..n
    BY <1>1, <1>5
  <2>6. g[n] = Run(c[0], c[n])
    BY <2>5 DEF g
  <2> QED BY <1>3, <2>1, <2>4, <2>5, <2>6 DEF n
<1> QED BY <1>1, <1>4, <1>5

(* The buffers before the i-th hold what is between c[0] and c[i - 1]. *)
LEMMA CutBefore ==
  ASSUME NEW bs, NEW c, Cut(bs, c), NEW i \in 1..Len(bs) + 1
  PROVE  Before(bs, i) = c[i - 1] - c[0]
<1> DEFINE m == i - 1
           b == SubSeq(bs, 1, m)
           d == [j \in 0..m |-> c[j]]
<1>1. PICK T : bs \in Seq(T)
  BY DEF Cut
<1>2. m \in Nat /\ m <= Len(bs) /\ Len(bs) \in Nat
  BY <1>1
<1>3. /\ b \in Seq(T) /\ Len(b) = m
      /\ \A j \in 1..m : b[j] = bs[j]
  BY <1>1, <1>2
<1>4. \A j \in 0..m : d[j] = c[j] /\ j \in 0..Len(bs)
  BY <1>2
<1>5. d \in [0..m -> Nat]
  BY <1>2 DEF Cut
<1> HIDE DEF m, b, d
<1>6. Cut(b, d)
  <2>1. \A j, l \in 0..m : j <= l => d[j] <= d[l]
    BY <1>4 DEF Cut
  <2>2. ASSUME NEW j \in 1..m
        PROVE  Filled(b[j], d[j - 1], d[j])
    <3>1. j \in 1..Len(bs) /\ j \in 0..m /\ j - 1 \in 0..m
      BY <1>2
    <3>2. Filled(bs[j], c[j - 1], c[j])
      BY <3>1 DEF Cut
    <3> QED BY <1>3, <1>4, <3>1, <3>2
  <2> QED BY <1>3, <1>5, <2>1, <2>2 DEF Cut
<1>7. Bytes(b) = Run(c[0], c[m])
  <2>1. d[0] = c[0] /\ d[m] = c[m]
    BY <1>2, <1>4
  <2> QED BY <1>3, <1>6, <2>1, CutBytes
<1>8. c[0] \in Nat /\ c[m] \in Nat /\ c[0] <= c[m]
  <2>1. 0 \in 0..Len(bs) /\ m \in 0..Len(bs) /\ 0 <= m
    BY <1>2
  <2> QED BY <2>1 DEF Cut
<1>9. Len(Bytes(b)) = c[m] - c[0]
  BY <1>7, <1>8, RunSeq
<1> QED BY <1>9 DEF Before, b, m

(* A read of n bytes uses up the buffers that end before the n-th byte or   *)
(* at it, and no other buffer before it.                                    *)
LEMMA CutUsedUp ==
  ASSUME NEW bs, NEW c, Cut(bs, c), NEW n \in Nat
  PROVE  /\ UsedUp(bs, n) \in 0..Len(bs)
         /\ c[UsedUp(bs, n)] - c[0] <= n
         /\ UsedUp(bs, n) < Len(bs) => n <= c[UsedUp(bs, n) + 1] - c[0]
<1> DEFINE L == Len(bs)
           K == {i \in DOMAIN bs : Before(bs, i) < n /\ Before(bs, i + 1) <= n}
<1>1. L \in Nat /\ DOMAIN bs = 1..L
  <2>1. PICK T : bs \in Seq(T)
    BY DEF Cut
  <2> QED BY <2>1
<1>2. /\ \A i \in 0..L : c[i] \in Nat
      /\ \A i, j \in 0..L : i <= j => c[i] <= c[j]
  BY DEF Cut
<1>3. K = {i \in 1..L : c[i - 1] - c[0] < n /\ c[i] - c[0] <= n}
  <2>1. ASSUME NEW i \in 1..L
        PROVE  Before(bs, i) = c[i - 1] - c[0] /\ Before(bs, i + 1) = c[i] - c[0]
    <3>1. i \in 1..Len(bs) + 1 /\ i + 1 \in 1..Len(bs) + 1 /\ (i + 1) - 1 = i
      BY <1>1
    <3> QED BY <3>1, CutBefore
  <2> QED BY <1>1, <2>1
<1>4. UsedUp(bs, n) = Cardinality(K)
  BY DEF UsedUp
<1> HIDE DEF L, K
<1>5. PICK k \in 0..L : K = 1..k
  <2> DEFINE W == {i \in 1..L + 1 : i \notin K}
  <2>1. W \subseteq Nat /\ L + 1 \in W
    BY <1>1, <1>3
  <2>2. PICK i \in W : \A j \in W : ~(<<j, i>> \in OpToRel(<, Nat))
    BY <2>1, NatLessThanWellFounded, WFMin
  <2>3. i \in 1..L + 1 /\ i \notin K
    OBVIOUS
  <2>4. ASSUME NEW j \in 1..i - 1 PROVE j \in K
    <3>1. j \in 1..L + 1 /\ j < i /\ <<j, i>> \in Nat \X Nat
      BY <1>1, <2>3
    <3>2. <<j, i>> \in OpToRel(<, Nat)
      BY <3>1 DEF OpToRel
    <3>3. j \notin W
      <4> HIDE DEF W
      <4> QED BY <2>2, <3>2
    <3> QED BY <3>1, <3>3
  <2>5. ASSUME NEW j \in K PROVE j \in 1..i - 1
    <3>1. j \in 1..L /\ c[j - 1] - c[0] < n /\ c[j] - c[0] <= n
      BY <1>3, <2>5
    <3>2. CASE j < i
      BY <1>1, <2>3, <3>1, <3>2
    <3>3. CASE i < j
      <4>1. i \in 1..L /\ i \in 0..L /\ i - 1 \in 0..L /\ j - 1 \in 0..L /\ 0 \in 0..L
            /\ i <= j - 1 /\ i - 1 <= j - 1
        BY <1>1, <2>3, <3>1, <3>3
      <4>2. /\ c[i] <= c[j - 1] /\ c[i - 1] <= c[j - 1]
            /\ c[0] \in Nat /\ c[i] \in Nat /\ c[i - 1] \in Nat /\ c[j - 1] \in Nat
        BY <1>2, <4>1
      <4>3. c[i - 1] - c[0] < n /\ c[i] - c[0] <= n
        BY <3>1, <4>2
      <4>4. i \in K
        BY <1>3, <4>1, <4>3
      <4> QED BY <2>3, <4>4
    <3>4. CASE j = i
      BY <2>3, <3>4
    <3> QED BY <1>1, <2>3, <3>1, <3>2, <3>3, <3>4
  <2>6. i - 1 \in 0..L
    BY <1>1, <2>3
  <2>7. K = 1..i - 1
    BY <2>4, <2>5
  <2> QED BY <2>6, <2>7
<1>6. UsedUp(bs, n) = k
  <2>1. Cardinality(1..k) = k
    <3>1. k \in Nat /\ 1 \in Int /\ k \in Int
      BY <1>1
    <3>2. Cardinality(1..k) = IF 1 > k THEN 0 ELSE k - 1 + 1
      BY <3>1, FS_Interval
    <3> QED BY <3>1, <3>2
  <2> QED BY <1>4, <1>5, <2>1
<1>7. c[k] - c[0] <= n
  <2>1. CASE k = 0
    <3>1. c[0] \in Nat
      BY <1>1, <1>2
    <3> QED BY <2>1, <3>1
  <2>2. CASE k # 0
    <3>1. k \in K
      BY <1>1, <1>5, <2>2
    <3> QED BY <1>3, <3>1
  <2> QED BY <2>1, <2>2
<1>8. k < L => n <= c[k + 1] - c[0]
  <2> SUFFICES ASSUME k < L PROVE n <= c[k + 1] - c[0]
    OBVIOUS
  <2>1. k + 1 \in 1..L /\ k + 1 \notin K /\ (k + 1) - 1 = k
        /\ k \in 0..L /\ k + 1 \in 0..L /\ 0 \in 0..L /\ k <= k + 1
    BY <1>1, <1>5
  <2>2. c[k] \in Nat /\ c[k + 1] \in Nat /\ c[0] \in Nat /\ c[k] <= c[k + 1]
    BY <1>2, <2>1
  <2>3. ~(c[k] - c[0] < n /\ c[k + 1] - c[0] <= n)
    BY <1>3, <2>1
  <2> QED BY <2>2, <2>3
<1> QED BY <1>6, <1>7, <1>8 DEF L

(* A read of n bytes takes the run up to the n-th, or to the last there is, *)
(* and leaves buffers that are cut from what follows it.                    *)
LEMMA CutAfterTaking ==
  ASSUME NEW bs, NEW c, Cut(bs, c), NEW n \in Nat
  PROVE  \E d : /\ Cut(AfterTaking(bs, n), d)
                /\ c[0] <= d[0]
                /\ Taking(bs, n) = Run(c[0], d[0])
                /\ d[Len(AfterTaking(bs, n))] = c[Len(bs)]
<1> DEFINE L    == Len(bs)
           k    == UsedUp(bs, n)
           rest == SubSeq(bs, k + 1, L)
           m    == n - (c[k] - c[0])
<1>1. PICK T : bs \in Seq(T)
  BY DEF Cut
<1>2. /\ L \in Nat /\ k \in 0..L /\ c[k] - c[0] <= n
      /\ k < L => n <= c[k + 1] - c[0]
  BY <1>1, CutUsedUp
<1>3. /\ \A i \in 0..L : c[i] \in Nat
      /\ \A i, j \in 0..L : i <= j => c[i] <= c[j]
      /\ \A i \in 1..L : Filled(bs[i], c[i - 1], c[i])
  BY DEF Cut
<1>4. Before(bs, k + 1) = c[k] - c[0]
  <2>1. k + 1 \in 1..Len(bs) + 1 /\ (k + 1) - 1 = k
    <3> HIDE DEF k
    <3> QED BY <1>2
  <2> QED BY <2>1, CutBefore
<1>5. /\ rest \in Seq(T) /\ Len(rest) = L - k
      /\ \A i \in 1..L - k : rest[i] = bs[k + i]
  <2> HIDE DEF k
  <2> QED BY <1>1, <1>2
<1>6. Bytes(bs) = Run(c[0], c[L])
  BY CutBytes
<1>7. 0 \in 0..L /\ L \in 0..L /\ c[0] \in Nat /\ c[L] \in Nat /\ c[0] <= c[L]
      /\ c[k] \in Nat /\ c[0] <= c[k]
  BY <1>2, <1>3
<1>8. Len(Run(c[0], c[L])) = c[L] - c[0]
  BY <1>7, RunSeq
<1>9. AfterTaking(bs, n) =
        IF rest = << >> THEN rest ELSE [rest EXCEPT ![1] = ReadOf(rest[1], m)]
  BY <1>4 DEF AfterTaking
<1>10. Taking(bs, n) = SubSeq(Run(c[0], c[L]), 1, IF n < c[L] - c[0] THEN n ELSE c[L] - c[0])
  BY <1>6, <1>8 DEF Taking
<1> HIDE DEF L, k, rest
<1>11. CASE k = L
  <2> DEFINE d == [j \in 0..0 |-> c[L]]
  <2>1. rest = << >> /\ Len(rest) = 0
    BY <1>2, <1>5, <1>11, EmptySeq
  <2>2. AfterTaking(bs, n) = << >>
    BY <1>9, <2>1
  <2>3. Cut(<< >>, d)
    <3>1. << >> \in Seq(T) /\ Len(<< >>) = 0
      OBVIOUS
    <3>2. d \in [0..0 -> Nat] /\ 0 \in 0..0
      BY <1>7
    <3> QED BY <1>7, <3>1, <3>2 DEF Cut
  <2>4. d[0] = c[L]
    OBVIOUS
  <2>5. Taking(bs, n) = Run(c[0], c[L])
    <3>1. (IF n < c[L] - c[0] THEN n ELSE c[L] - c[0]) = c[L] - c[0]
      BY <1>2, <1>7, <1>11
    <3> DEFINE w == c[L] - c[0]
    <3>2. w \in Nat /\ c[0] + w = c[L] /\ c[0] + w <= c[L]
      BY <1>7
    <3> HIDE DEF w
    <3>3. SubSeq(Run(c[0], c[L]), 1, w) = Run(c[0], c[0] + w)
      <4> DEFINE lo == c[0]
                 hi == c[L]
      <4>1. lo \in Nat /\ hi \in Nat /\ w \in Nat /\ lo + w <= hi
        BY <1>7, <3>2
      <4> HIDE DEF lo, hi
      <4>2. SubSeq(Run(lo, hi), 1, w) = Run(lo, lo + w)
        BY ONLY <4>1, RunHead, Zenon
      <4> QED BY <4>2 DEF lo, hi
    <3> QED BY <1>10, <3>1, <3>2, <3>3 DEF w
  <2> HIDE DEF d
  <2> QED BY <1>7, <2>2, <2>3, <2>4, <2>5 DEF L
<1>12. CASE k < L
  <2> DEFINE a == c[0] + n
             e == ReadOf(rest[1], m)
             b == [rest EXCEPT ![1] = e]
             d == [j \in 0..L - k |-> IF j = 0 THEN a ELSE c[k + j]]
  <2>1. k + 1 \in 1..L /\ k + 1 \in 0..L /\ (k + 1) - 1 = k /\ L - k \in Nat
        /\ 1 \in 1..L - k /\ 0 \in 0..L - k /\ L - k \in 0..L - k /\ L - k # 0
        /\ k + (L - k) = L
    BY <1>2, <1>12
  <2>2. /\ c[k + 1] \in Nat /\ a \in Nat /\ m \in Nat /\ c[k] + m = a /\ a <= c[k + 1]
        /\ c[k] <= c[k + 1] /\ c[k + 1] <= c[L] /\ c[0] <= a
    <3>1. c[k] <= c[k + 1] /\ c[k + 1] <= c[L] /\ c[k + 1] \in Nat
      BY <1>2, <1>3, <1>7, <2>1
    <3> QED BY <1>2, <1>7, <1>12, <3>1
  <2>3. rest # << >>
    BY <1>5, <2>1
  <2>4. AfterTaking(bs, n) = b
    BY <1>9, <2>3
  <2>5. Filled(e, a, c[k + 1])
    <3> DEFINE x == Run(c[k], c[k + 1])
               h == bs[k + 1].header
    <3>1. rest[1] = bs[k + 1]
      BY <1>5, <2>1
    <3>2. bs[k + 1] = [left |-> x, header |-> h]
      BY <1>3, <2>1 DEF Filled
    <3>3. Len(x) = c[k + 1] - c[k]
      BY <1>7, <2>2, RunSeq
    <3>4. SubSeq(x, m + 1, c[k + 1] - c[k]) = Run(c[k] + m, c[k + 1])
      <4> DEFINE lo == c[k]
                 hi == c[k + 1]
      <4>1. lo \in Nat /\ hi \in Nat /\ m \in Nat /\ lo + m <= hi
        BY <1>7, <2>2
      <4> HIDE DEF lo, hi, m
      <4>2. SubSeq(Run(lo, hi), m + 1, hi - lo) = Run(lo + m, hi)
        BY ONLY <4>1, RunTail, Zenon
      <4> QED BY <4>2 DEF lo, hi
    <3> HIDE DEF x, h, m, a
    <3>5. ReadOf([left |-> x, header |-> h], m) =
            [left |-> SubSeq(x, m + 1, Len(x)), header |-> h]
      <4> DEFINE y == SubSeq(x, m + 1, Len(x))
                 f == [left |-> x, header |-> h]
      <4>1. ReadOf(f, m) = [f EXCEPT !.left = y]
        BY DEF ReadOf
      <4> HIDE DEF y
      <4>2. [f EXCEPT !.left = y] = [left |-> y, header |-> h]
        OBVIOUS
      <4> QED BY <4>1, <4>2 DEF y
    <3>6. e = ReadOf([left |-> x, header |-> h], m)
      BY <3>1, <3>2
    <3> HIDE DEF e
    <3>7. e = [left |-> Run(a, c[k + 1]), header |-> h]
      BY <2>2, <3>3, <3>4, <3>5, <3>6
    <3> QED BY <3>7 DEF Filled
  <2> HIDE DEF e, a, m
  <2>6. /\ b \in Seq(T \cup {e}) /\ Len(b) = L - k
        /\ b[1] = e /\ \A i \in 2..L - k : b[i] = bs[k + i]
    <3>1. rest \in Seq(T \cup {e})
      BY <1>5, SeqMonotonic
    <3>2. 1 \in 1..Len(rest) /\ e \in T \cup {e}
      BY <1>5, <2>1
    <3>3. /\ b \in Seq(T \cup {e}) /\ Len(b) = Len(rest)
          /\ \A j \in 1..Len(rest) : b[j] = IF j = 1 THEN e ELSE rest[j]
      BY <3>1, <3>2, ExceptSeq
    <3> HIDE DEF b
    <3> QED BY <1>5, <2>1, <3>3
  <2>7. d[0] = a /\ \A j \in 1..L - k : d[j] = c[k + j] /\ k + j \in 0..L
    BY <1>2, <2>1
  <2>8. d \in [0..L - k -> Nat]
    <3>1. \A j \in 1..L - k : c[k + j] \in Nat
      BY <1>3, <2>7
    <3>2. \A j \in 0..L - k : j = 0 \/ j \in 1..L - k
      BY <2>1
    <3> QED BY <2>2, <3>1, <3>2
  <2> HIDE DEF b, d
  <2>9. ASSUME NEW i \in 0..L - k, NEW j \in 0..L - k, i <= j PROVE d[i] <= d[j]
    <3>1. CASE i = 0 /\ j = 0
      BY <2>2, <2>7, <3>1
    <3>2. CASE i = 0 /\ j # 0
      <4>1. j \in 1..L - k /\ k + 1 <= k + j
        BY <1>2, <2>1, <3>2
      <4>2. c[k + 1] <= c[k + j] /\ c[k + j] \in Nat
        BY <1>3, <2>1, <2>7, <4>1
      <4> QED BY <2>2, <2>7, <3>2, <4>1, <4>2
    <3>3. CASE i # 0
      <4>1. i \in 1..L - k /\ j \in 1..L - k /\ k + i <= k + j
        BY <1>2, <2>1, <2>9, <3>3
      <4> QED BY <1>3, <2>7, <4>1
    <3> QED BY <3>1, <3>2, <3>3
  <2>10. ASSUME NEW i \in 1..L - k
         PROVE  Filled(b[i], d[i - 1], d[i])
    <3>1. CASE i = 1
      BY <2>1, <2>5, <2>6, <2>7, <3>1
    <3>2. CASE i # 1
      <4>1. i \in 2..L - k /\ i - 1 \in 1..L - k /\ k + i \in 1..L /\ (k + i) - 1 = k + (i - 1)
        BY <1>2, <2>1, <3>2
      <4>2. d[i] = c[k + i] /\ d[i - 1] = c[(k + i) - 1] /\ b[i] = bs[k + i]
        BY <2>6, <2>7, <4>1
      <4> QED BY <1>3, <4>1, <4>2
    <3> QED BY <3>1, <3>2
  <2>11. Cut(b, d)
    BY <2>6, <2>8, <2>9, <2>10 DEF Cut
  <2>12. d[Len(b)] = c[L]
    <3>1. L - k \in 1..L - k
      BY <2>1
    <3> QED BY <2>1, <2>6, <2>7, <3>1
  <2>13. Taking(bs, n) = Run(c[0], a)
    <3>1. c[0] + n <= c[L]
      BY <2>2, <1>7 DEF a
    <3>2. (IF n < c[L] - c[0] THEN n ELSE c[L] - c[0]) = n
      BY <1>7, <3>1
    <3>3. SubSeq(Run(c[0], c[L]), 1, n) = Run(c[0], c[0] + n)
      <4> DEFINE lo == c[0]
                 hi == c[L]
      <4>1. lo \in Nat /\ hi \in Nat /\ n \in Nat /\ lo + n <= hi
        BY <1>7, <3>1
      <4> HIDE DEF lo, hi
      <4>2. SubSeq(Run(lo, hi), 1, n) = Run(lo, lo + n)
        BY ONLY <4>1, RunHead, Zenon
      <4> QED BY <4>2 DEF lo, hi
    <3> QED BY <1>10, <3>2, <3>3 DEF a
  <2> QED BY <2>2, <2>4, <2>7, <2>11, <2>12, <2>13 DEF L
<1> QED BY <1>2, <1>11, <1>12

(* The next buffer is what is between the first two cuts; the others are    *)
(* cut as they were.                                                        *)
LEMMA CutTail ==
  ASSUME NEW bs, NEW c, Cut(bs, c), bs # << >>
  PROVE  /\ 1 \in 0..Len(bs) /\ c[0] <= c[1]
         /\ Head(bs).left = Run(c[0], c[1])
         /\ \E d : Cut(Tail(bs), d) /\ d[0] = c[1] /\ d[Len(Tail(bs))] = c[Len(bs)]
<1> DEFINE L == Len(bs)
           b == Tail(bs)
           d == [j \in 0..L - 1 |-> c[j + 1]]
<1>1. PICK T : bs \in Seq(T)
  BY DEF Cut
<1>2. /\ L \in Nat /\ L # 0 /\ Head(bs) = bs[1]
      /\ b \in Seq(T) /\ Len(b) = L - 1
      /\ \A i \in 1..L - 1 : b[i] = bs[i + 1]
  BY <1>1
<1>3. /\ \A i \in 0..L : c[i] \in Nat
      /\ \A i, j \in 0..L : i <= j => c[i] <= c[j]
      /\ \A i \in 1..L : Filled(bs[i], c[i - 1], c[i])
  BY DEF Cut
<1> HIDE DEF L, b
<1>4. /\ 1 \in 0..L /\ 0 \in 0..L /\ 1 \in 1..L /\ L - 1 \in Nat
      /\ 0 \in 0..L - 1 /\ L - 1 \in 0..L - 1 /\ (L - 1) + 1 = L /\ 1 - 1 = 0
  BY <1>2
<1>5. c[0] <= c[1] /\ Head(bs).left = Run(c[0], c[1])
  <2>1. Filled(bs[1], c[1 - 1], c[1])
    BY <1>3, <1>4
  <2>2. bs[1].left = Run(c[0], c[1])
    BY <1>4, <2>1 DEF Filled
  <2> QED BY <1>2, <1>3, <1>4, <2>2
<1>6. \A j \in 0..L - 1 : d[j] = c[j + 1] /\ j + 1 \in 0..L
  BY <1>2
<1>7. d \in [0..L - 1 -> Nat]
  BY <1>3, <1>6
<1> HIDE DEF d
<1>8. \A i, j \in 0..L - 1 : i <= j => d[i] <= d[j]
  <2> SUFFICES ASSUME NEW i \in 0..L - 1, NEW j \in 0..L - 1, i <= j PROVE d[i] <= d[j]
    OBVIOUS
  <2>1. i + 1 <= j + 1
    BY <1>4
  <2> QED BY <1>3, <1>6, <2>1
<1>9. ASSUME NEW i \in 1..L - 1
      PROVE  Filled(b[i], d[i - 1], d[i])
  <2>1. i + 1 \in 1..L /\ i \in 0..L - 1 /\ i - 1 \in 0..L - 1 /\ (i - 1) + 1 = (i + 1) - 1
    BY <1>4
  <2>2. d[i - 1] = c[(i + 1) - 1] /\ d[i] = c[i + 1] /\ b[i] = bs[i + 1]
    BY <1>2, <1>6, <2>1
  <2> QED BY <1>3, <2>1, <2>2
<1>10. Cut(b, d)
  BY <1>2, <1>7, <1>8, <1>9 DEF Cut
<1>11. d[0] = c[1] /\ d[Len(b)] = c[L]
  <2>1. d[0] = c[0 + 1] /\ d[L - 1] = c[(L - 1) + 1] /\ 0 + 1 = 1
    BY <1>4, <1>6
  <2> QED BY <1>2, <1>4, <2>1
<1> QED BY <1>4, <1>5, <1>10, <1>11 DEF L, b

(* A buffer more is cut where it ends. *)
LEMMA CutAppend ==
  ASSUME NEW bs, NEW c, Cut(bs, c), NEW w \in Nat, w = c[Len(bs)], NEW v \in Nat, w <= v,
         NEW e, Filled(e, w, v)
  PROVE  \E d : Cut(Append(bs, e), d) /\ d[0] = c[0] /\ d[Len(Append(bs, e))] = v
<1> DEFINE L == Len(bs)
           b == Append(bs, e)
           d == [j \in 0..L + 1 |-> IF j = L + 1 THEN v ELSE c[j]]
<1>1. PICK T : bs \in Seq(T)
  BY DEF Cut
<1>2. L \in Nat
  BY <1>1
<1>3. /\ \A i \in 0..L : c[i] \in Nat
      /\ \A i, j \in 0..L : i <= j => c[i] <= c[j]
      /\ \A i \in 1..L : Filled(bs[i], c[i - 1], c[i])
  BY DEF Cut
<1>4. /\ b \in Seq(T \cup {e}) /\ Len(b) = L + 1
      /\ b[L + 1] = e /\ \A i \in 1..L : b[i] = bs[i]
  <2>1. bs \in Seq(T \cup {e}) /\ e \in T \cup {e} /\ b = Append(bs, e)
    BY <1>1, SeqMonotonic
  <2> QED BY <2>1, AppendProperties
<1>5. d[L + 1] = v /\ \A j \in 0..L : d[j] = c[j]
  BY <1>2
<1>6. c[L] <= v
  OBVIOUS
<1>7. \A j \in 0..L + 1 : j = L + 1 \/ j \in 0..L
  BY <1>2
<1>8. d \in [0..L + 1 -> Nat]
  BY <1>3, <1>7
<1>9. Filled(e, c[L], v)
  OBVIOUS
<1> HIDE DEF L, b, d
<1>10. ASSUME NEW i \in 0..L + 1, NEW j \in 0..L + 1, i <= j PROVE d[i] <= d[j]
  <2>1. CASE j \in 0..L
    <3>1. i \in 0..L
      BY <1>2, <1>10, <2>1
    <3> QED BY <1>3, <1>5, <1>10, <2>1, <3>1
  <2>2. CASE j = L + 1 /\ i = L + 1
    BY <1>5, <2>2
  <2>3. CASE j = L + 1 /\ i \in 0..L
    <3>1. L \in 0..L /\ i <= L
      BY <1>2, <2>3
    <3>2. c[i] <= c[L] /\ c[i] \in Nat /\ c[L] \in Nat
      BY <1>3, <2>3, <3>1
    <3> QED BY <1>5, <1>6, <2>3, <3>2
  <2> QED BY <1>7, <2>1, <2>2, <2>3
<1>11. ASSUME NEW i \in 1..L + 1
       PROVE  Filled(b[i], d[i - 1], d[i])
  <2>1. CASE i = L + 1
    <3>1. i - 1 = L /\ L \in 0..L
      BY <1>2, <2>1
    <3>2. d[i - 1] = c[L] /\ d[i] = v /\ b[i] = e
      BY <1>4, <1>5, <2>1, <3>1
    <3> QED BY <1>9, <3>2
  <2>2. CASE i # L + 1
    <3>1. i \in 1..L /\ i \in 0..L /\ i - 1 \in 0..L
      BY <1>2, <2>2
    <3> QED BY <1>3, <1>4, <1>5, <3>1
  <2> QED BY <2>1, <2>2
<1>12. Cut(b, d)
  BY <1>4, <1>8, <1>10, <1>11 DEF Cut
<1>13. d[0] = c[0] /\ d[Len(b)] = v
  <2>1. 0 \in 0..L
    BY <1>2
  <2> QED BY <1>4, <1>5, <2>1
<1> QED BY <1>12, <1>13 DEF b

-----------------------------------------------------------------------------
(* What a stream holds. *)

(* The bytes after the a-th and up to the w-th, the last of them blocked.   *)
Holds(s, a, w) ==
  \E c : /\ Cut(s.buffers, c)
         /\ c[0] = a
         /\ c[Len(s.buffers)] <= w
         /\ s.blocked = Run(c[Len(s.buffers)], w)
         /\ ~s.blocking => c[Len(s.buffers)] = w

(* Two streams that differ in their subscribers and flags. *)
SameBytes(s, t) ==
  /\ t.buffers = s.buffers
  /\ t.blocked = s.blocked
  /\ t.blocking <=> s.blocking
  /\ t.shutdown <=> s.shutdown

(* They hold the same. *)
LEMMA SameHolds ==
  ASSUME NEW s, NEW t, SameBytes(s, t), NEW a, NEW w, Holds(s, a, w)
  PROVE  Holds(t, a, w)
BY DEF SameBytes, Holds

(* The flags and subscribers have nothing to do with the bytes. *)
LEMMA SubscribersSame ==
  ASSUME NEW s, Shape(s)
  PROVE  /\ \A rs, ws, rc, wc : SameBytes(s, WithSubscribers(s, rs, ws, rc, wc))
         /\ \A rr : SameBytes(s, [s EXCEPT !.readerReady = rr])
         /\ \A afterRead, afterWrite \in BOOLEAN :
              SameBytes(s, NotifySubscribers(s, afterRead, afterWrite))
<1>1. ASSUME NEW rs, NEW ws, NEW rc, NEW wc
      PROVE  SameBytes(s, WithSubscribers(s, rs, ws, rc, wc))
  BY DEF Shape, WithSubscribers, SameBytes
<1>2. ASSUME NEW rr PROVE SameBytes(s, [s EXCEPT !.readerReady = rr])
  BY DEF Shape, SameBytes
<1>3. ASSUME NEW afterRead \in BOOLEAN, NEW afterWrite \in BOOLEAN
      PROVE  SameBytes(s, NotifySubscribers(s, afterRead, afterWrite))
  <2>1. PICK rr, rn, wn, rc, wc :
          NotifySubscribers(s, afterRead, afterWrite) =
            [s EXCEPT !.readerReady = rr, !.readNotified = rn, !.writeNotified = wn,
                      !.readerCalls = rc, !.writerCalls = wc]
    BY Zenon DEF NotifySubscribers
  <2>2. SameBytes(s, [s EXCEPT !.readerReady = rr, !.readNotified = rn, !.writeNotified = wn,
                      !.readerCalls = rc, !.writerCalls = wc])
    BY DEF Shape, SameBytes
  <2> QED BY <2>1, <2>2, Zenon
<1> QED BY <1>1, <1>2, <1>3, Zenon

(* After other buffers were put in and the subscribers were told. *)
LEMMA RefilledBytes ==
  ASSUME NEW s, Shape(s), NEW b, NEW T, b \in Seq(T),
         NEW afterRead \in BOOLEAN, NEW afterWrite \in BOOLEAN,
         NEW u, u = NotifySubscribers([s EXCEPT !.buffers = b], afterRead, afterWrite)
  PROVE  /\ u.buffers = b /\ u.blocked = s.blocked
         /\ u.blocking <=> s.blocking
         /\ u.shutdown <=> s.shutdown
<1> DEFINE t == [s EXCEPT !.buffers = b]
<1>1. Shape(t) /\ t.buffers = b /\ (t.shutdown <=> s.shutdown)
  BY OtherBuffers
<1>2. t.blocked = s.blocked /\ (t.blocking <=> s.blocking)
  BY DEF Shape
<1>3. u = NotifySubscribers(t, afterRead, afterWrite)
  OBVIOUS
<1> HIDE DEF t
<1>4. SameBytes(t, u)
  BY <1>1, <1>3, SubscribersSame
<1> QED BY <1>1, <1>2, <1>4 DEF SameBytes

(* So it is after a read that leaves the buffers b. *)
ReadDownTo(s, b) == NotifySubscribers([s EXCEPT !.buffers = b], TRUE, FALSE)

(* What is blocked stays, and no stream is cancelled by it.                 *)
LEMMA ReadDownToBytes ==
  ASSUME NEW s, Shape(s), NEW b, NEW T, b \in Seq(T), NEW u, u = ReadDownTo(s, b)
  PROVE  /\ u.buffers = b /\ u.blocked = s.blocked
         /\ u.blocking <=> s.blocking
         /\ u.shutdown <=> s.shutdown
<1> DEFINE yes == TRUE
           no  == FALSE
<1>1. yes \in BOOLEAN /\ no \in BOOLEAN
  OBVIOUS
<1>2. u = NotifySubscribers([s EXCEPT !.buffers = b], yes, no)
  BY DEF ReadDownTo
<1> HIDE DEF yes, no
<1> QED BY <1>1, <1>2, RefilledBytes

(* A buffer that is pushed holds the bytes that follow. *)
LEMMA PushHolds ==
  ASSUME NEW s, Shape(s), ~s.blocking, NEW a, NEW w \in Nat, NEW v \in Nat, w <= v,
         Holds(s, a, w), NEW h, NEW t, t = Push(s, Run(w, v), h)
  PROVE  Holds(t, a, v) /\ (t.shutdown <=> s.shutdown)
<1> DEFINE e == [left |-> Run(w, v), header |-> h]
           b == Append(s.buffers, e)
<1>1. PICK c : /\ Cut(s.buffers, c) /\ c[0] = a
               /\ c[Len(s.buffers)] = w /\ s.blocked = Run(w, w)
  BY DEF Holds
<1>2. PICK d : Cut(b, d) /\ d[0] = a /\ d[Len(b)] = v
  <2>1. Filled(e, w, v)
    BY DEF Filled
  <2>2. Cut(s.buffers, c) /\ w = c[Len(s.buffers)] /\ b = Append(s.buffers, e)
    BY <1>1
  <2> HIDE DEF b, e
  <2>3. \E d : Cut(b, d) /\ d[0] = c[0] /\ d[Len(b)] = v
    BY <2>1, <2>2, CutAppend
  <2> QED BY <1>1, <2>3
<1>3. t = NotifySubscribers([s EXCEPT !.buffers = b], FALSE, TRUE)
  BY DEF Push
<1> HIDE DEF e, b
<1>4. PICK T : b \in Seq(T)
  BY <1>2 DEF Cut
<1>5. /\ t.buffers = b /\ t.blocked = s.blocked
      /\ t.blocking <=> s.blocking
      /\ t.shutdown <=> s.shutdown
  BY <1>3, <1>4, RefilledBytes
<1>6. Run(w, w) = Run(v, v)
  <2>1. w - w = 0 /\ v - v = 0 /\ 1..0 = {}
    OBVIOUS
  <2>2. Run(w, w) = << >> /\ Run(v, v) = << >>
    BY <2>1 DEF Run
  <2> QED BY <2>2
<1>7. v <= v
  OBVIOUS
<1> QED BY <1>1, <1>2, <1>5, <1>6, <1>7 DEF Holds

(* A block changes what is held back. *)
LEMMA BlockBytes ==
  ASSUME NEW s, Shape(s), NEW bl \in BOOLEAN, NEW bd, NEW bh,
         NEW t, t = WithBlock(s, bl, bd, bh)
  PROVE  /\ Shape(t)
         /\ t.buffers = s.buffers /\ t.blocked = bd
         /\ t.blocking <=> bl
         /\ t.shutdown <=> s.shutdown
<1>1. t = [buffers |-> s.buffers, blocking |-> bl, blocked |-> bd,
           blockHeader |-> bh, shutdown |-> s.shutdown,
           readerReady |-> s.readerReady, readNotified |-> s.readNotified,
           writeNotified |-> s.writeNotified, readers |-> s.readers,
           writers |-> s.writers, readerCalls |-> s.readerCalls,
           writerCalls |-> s.writerCalls]
  BY DEF Shape, WithBlock
<1> QED BY <1>1 DEF Shape

(* The bytes of a write are held after all others, or held back. *)
LEMMA WriteHolds ==
  ASSUME NEW s, Shape(s), ~s.shutdown, NEW a, NEW w \in Nat, NEW v \in Nat, w <= v,
         Holds(s, a, w), NEW h, NEW t, t = Written(s, Run(w, v), h)
  PROVE  Holds(t, a, v)
<1>1. CASE s.blocking
  <2> DEFINE bd == s.blocked \o Run(w, v)
             bh == IF s.blockHeader = NoHeader THEN h ELSE s.blockHeader
  <2>1. t = [s EXCEPT !.blocked = bd, !.blockHeader = bh]
    BY <1>1 DEF Written
  <2>2. PICK c : /\ Cut(s.buffers, c) /\ c[0] = a
                 /\ c[Len(s.buffers)] <= w
                 /\ s.blocked = Run(c[Len(s.buffers)], w)
    BY DEF Holds
  <2> DEFINE m == c[Len(s.buffers)]
  <2>3. m \in Nat
    <3>1. Len(s.buffers) \in 0..Len(s.buffers)
      <4>1. PICK T : s.buffers \in Seq(T)
        BY DEF Shape
      <4> QED BY <4>1
    <3> QED BY <2>2, <3>1 DEF Cut
  <2>4. m <= w /\ s.blocked = Run(m, w)
    BY <2>2
  <2> HIDE DEF m
  <2>5. bd = Run(m, v) /\ m <= v
    <3>1. Run(m, w) \o Run(w, v) = Run(m, v)
      BY <2>3, <2>4, RunsMeet
    <3>2. bd = Run(m, w) \o Run(w, v)
      BY <2>4
    <3> QED BY <2>3, <2>4, <3>1, <3>2
  <2> HIDE DEF bd, bh
  <2>6. t = WithBlock(s, s.blocking, bd, bh)
    BY <2>1 DEF Shape, WithBlock
  <2>7. s.blocking \in BOOLEAN
    BY DEF Shape
  <2>8. t.buffers = s.buffers /\ t.blocked = bd /\ (t.blocking <=> s.blocking)
    BY <2>6, <2>7, BlockBytes
  <2> QED BY <1>1, <2>2, <2>5, <2>8 DEF Holds, m
<1>2. CASE ~s.blocking
  <2>1. t = Push(s, Run(w, v), h)
    BY <1>2 DEF Written
  <2> QED BY <1>2, <2>1, PushHolds
<1> QED BY <1>1, <1>2

(* A block takes nothing, and its end puts what was held back with the rest. *)
LEMMA BlockHolds ==
  ASSUME NEW s, Shape(s), ~s.shutdown, NEW a, NEW w \in Nat, Holds(s, a, w)
  PROVE  Holds(BlockedFrom(s), a, w) /\ Holds(Unblocked(s), a, w)
<1>1. PICK c : /\ Cut(s.buffers, c) /\ c[0] = a
               /\ c[Len(s.buffers)] <= w
               /\ s.blocked = Run(c[Len(s.buffers)], w)
               /\ ~s.blocking => c[Len(s.buffers)] = w
  BY DEF Holds
<1> DEFINE m    == c[Len(s.buffers)]
           none == << >>
           yes  == TRUE
           no   == FALSE
<1>2. m \in Nat
  <2>1. Len(s.buffers) \in 0..Len(s.buffers)
    <3>1. PICK T : s.buffers \in Seq(T)
      BY DEF Shape
    <3> QED BY <3>1
  <2> QED BY <1>1, <2>1 DEF Cut
<1>3. m <= w /\ s.blocked = Run(m, w) /\ (~s.blocking => m = w)
  BY <1>1
<1>4. \A x \in Nat : Run(x, x) = none
  <2>1. \A x \in Nat : x - x = 0
    OBVIOUS
  <2>2. 1..0 = {}
    OBVIOUS
  <2> QED BY <2>1, <2>2 DEF Run
<1>5. Cut(s.buffers, c) /\ c[0] = a /\ c[Len(s.buffers)] = m
  BY <1>1
<1>6. yes \in BOOLEAN /\ yes /\ no \in BOOLEAN /\ ~no
  OBVIOUS
<1> HIDE DEF m, none, yes, no
<1>7. Holds(BlockedFrom(s), a, w)
  <2> DEFINE t == WithBlock(s, yes, none, NoHeader)
  <2>1. BlockedFrom(s) = IF s.shutdown \/ s.blocking THEN s ELSE t
    BY Zenon DEF BlockedFrom, WithBlock, yes, none
  <2>2. CASE s.blocking
    BY <2>1, <2>2
  <2>3. CASE ~s.blocking
    <3>1. /\ t.buffers = s.buffers /\ t.blocked = none
          /\ t.blocking <=> yes
      BY DEF Shape, WithBlock
    <3>2. m = w /\ w <= w /\ none = Run(w, w)
      BY <1>3, <1>4, <2>3
    <3> HIDE DEF t
    <3>3. Holds(t, a, w)
      BY <1>5, <1>6, <3>1, <3>2 DEF Holds
    <3> QED BY <2>1, <2>3, <3>3
  <2> QED BY <2>2, <2>3
<1>8. Holds(Unblocked(s), a, w)
  <2> DEFINE off == WithBlock(s, no, none, NoHeader)
  <2>1. Unblocked(s) = IF s.shutdown \/ ~s.blocking THEN s
                       ELSE IF s.blocked = none /\ s.blockHeader = NoHeader THEN off
                       ELSE Push(off, s.blocked, s.blockHeader)
    BY Zenon DEF Unblocked, WithBlock, no, none
  <2>2. /\ Shape(off) /\ off.buffers = s.buffers /\ off.blocked = none
        /\ ~off.blocking
    BY <1>6, BlockBytes
  <2> HIDE DEF off
  <2>3. Holds(off, a, m)
    <3>1. m <= m /\ none = Run(m, m)
      BY <1>2, <1>4
    <3> QED BY <1>5, <2>2, <3>1 DEF Holds
  <2>4. CASE ~s.blocking
    BY <2>1, <2>4
  <2>5. CASE s.blocking /\ s.blocked = none /\ s.blockHeader = NoHeader
    <3>1. Len(Run(m, w)) = w - m
      BY <1>2, <1>3, RunSeq
    <3>2. Len(none) = 0
      BY DEF none
    <3>3. m = w
      BY <1>2, <1>3, <2>5, <3>1, <3>2
    <3> QED BY <2>1, <2>3, <2>5, <3>3
  <2>6. CASE s.blocking /\ ~(s.blocked = none /\ s.blockHeader = NoHeader)
    <3>1. Unblocked(s) = Push(off, Run(m, w), s.blockHeader)
      BY <1>3, <2>1, <2>6
    <3> QED BY <1>2, <1>3, <2>2, <2>3, <3>1, PushHolds
  <2> QED BY <2>4, <2>5, <2>6
<1> QED BY <1>7, <1>8

(* What is left of a stream when its buffers are cut at d. *)
LEMMA CutHolds ==
  ASSUME NEW s, NEW c, Cut(s.buffers, c), NEW w,
         c[Len(s.buffers)] <= w, s.blocked = Run(c[Len(s.buffers)], w),
         ~s.blocking => c[Len(s.buffers)] = w,
         NEW u, u.blocked = s.blocked, u.blocking <=> s.blocking,
         NEW d, Cut(u.buffers, d), d[Len(u.buffers)] = c[Len(s.buffers)]
  PROVE  Holds(u, d[0], w)
BY DEF Holds

(* A read takes the first of the bytes that a stream holds. *)
TakesRun(t, a, w, got) ==
  \E z \in Nat : /\ a <= z
                 /\ got = Run(a, z)
                 /\ Holds(t, z, w)

(* So it is with every way of reading; that of zero bytes takes none.       *)
LEMMA ReadHolds ==
  ASSUME NEW s, Shape(s), ~s.shutdown, NEW a \in Nat, NEW w \in Nat, Holds(s, a, w)
  PROVE  /\ \A n \in Nat : TakesRun(AfterRead(s, n), a, w, Taking(s.buffers, n))
         /\ s.buffers # << >> =>
              TakesRun(AfterReadNext(s), a, w, Head(s.buffers).left)
         /\ Holds(AfterReadZero(s), a, w)
<1>1. PICK c : /\ Cut(s.buffers, c) /\ c[0] = a
               /\ c[Len(s.buffers)] <= w
               /\ s.blocked = Run(c[Len(s.buffers)], w)
               /\ ~s.blocking => c[Len(s.buffers)] = w
  BY DEF Holds
<1>2. ASSUME NEW n \in Nat
      PROVE  TakesRun(AfterRead(s, n), a, w, Taking(s.buffers, n))
  <2> DEFINE b == AfterTaking(s.buffers, n)
             u == AfterRead(s, n)
  <2>1. PICK d : /\ Cut(b, d) /\ c[0] <= d[0]
                 /\ Taking(s.buffers, n) = Run(c[0], d[0])
                 /\ d[Len(b)] = c[Len(s.buffers)]
    BY <1>1, CutAfterTaking
  <2>2. u = ReadDownTo(s, b)
    BY DEF AfterRead, ReadDownTo
  <2> HIDE DEF b, u
  <2>3. PICK T : b \in Seq(T)
    BY <2>1 DEF Cut
  <2>4. /\ u.buffers = b /\ u.blocked = s.blocked
        /\ u.blocking <=> s.blocking
        /\ u.shutdown <=> s.shutdown
    BY <2>2, <2>3, ReadDownToBytes
  <2>5. Holds(u, d[0], w)
    BY <1>1, <2>1, <2>4, CutHolds
  <2>6. d[0] \in Nat
    <3>1. 0 \in 0..Len(b)
      BY <2>3
    <3> QED BY <2>1, <3>1 DEF Cut
  <2> QED BY <1>1, <2>1, <2>5, <2>6 DEF TakesRun, u
<1>3. ASSUME s.buffers # << >>
      PROVE  /\ TakesRun(AfterReadNext(s), a, w, Head(s.buffers).left)
             /\ Holds(AfterReadZero(s), a, w)
  <2> DEFINE b == Tail(s.buffers)
  <2>1. /\ 1 \in 0..Len(s.buffers) /\ c[0] <= c[1]
        /\ Head(s.buffers).left = Run(c[0], c[1])
        /\ \E d : Cut(b, d) /\ d[0] = c[1] /\ d[Len(b)] = c[Len(s.buffers)]
    BY <1>1, <1>3, CutTail
  <2>2. PICK d : Cut(b, d) /\ d[0] = c[1] /\ d[Len(b)] = c[Len(s.buffers)]
    BY <2>1
  <2>3. c[1] \in Nat
    BY <1>1, <2>1 DEF Cut
  <2>4. PICK T : b \in Seq(T)
    BY <2>2 DEF Cut
  <2>5. TakesRun(AfterReadNext(s), a, w, Head(s.buffers).left)
    <3> DEFINE u == AfterReadNext(s)
    <3>1. u = ReadDownTo(s, b)
      BY <1>3 DEF AfterReadNext, ReadDownTo
    <3> HIDE DEF b, u
    <3>2. /\ u.buffers = b /\ u.blocked = s.blocked
          /\ u.blocking <=> s.blocking
          /\ u.shutdown <=> s.shutdown
      BY <2>4, <3>1, ReadDownToBytes
    <3>3. Holds(u, d[0], w)
      BY <1>1, <2>2, <3>2, CutHolds
    <3> QED BY <1>1, <2>1, <2>2, <2>3, <3>3 DEF TakesRun, u
  <2>6. Holds(AfterReadZero(s), a, w)
    <3>1. CASE Head(s.buffers).left # << >>
      BY <3>1 DEF AfterReadZero
    <3>2. CASE Head(s.buffers).left = << >>
      <4> DEFINE u == AfterReadZero(s)
      <4>1. u = [s EXCEPT !.buffers = b]
        BY <1>3, <3>2 DEF AfterReadZero
      <4>2. Len(Run(c[0], c[1])) = c[1] - c[0]
        BY <1>1, <2>1, <2>3, RunSeq
      <4>3. c[1] = a
        BY <1>1, <2>1, <2>3, <3>2, <4>2
      <4> HIDE DEF b, u
      <4>4. u.buffers = b /\ u.blocked = s.blocked /\ (u.blocking <=> s.blocking)
        BY <4>1 DEF Shape
      <4>5. Holds(u, d[0], w)
        BY <1>1, <2>2, <4>4, CutHolds
      <4> QED BY <2>2, <4>3, <4>5 DEF u
    <3> QED BY <3>1, <3>2
  <2> QED BY <2>5, <2>6
<1>4. s.buffers = << >> => Holds(AfterReadZero(s), a, w)
  BY DEF AfterReadZero
<1> QED BY <1>2, <1>3, <1>4

-----------------------------------------------------------------------------
(* Every byte is accounted for: taken, waiting or held back. *)
Accounted(s, w, got) ==
  /\ w \in Nat
  /\ ~s.shutdown => \E a \in Nat : got = Run(0, a) /\ Holds(s, a, w)

(* It is as the stream starts. *)
LEMMA InitAccounted == Init => Accounted(stream, written, taken)
<1> SUFFICES ASSUME Init PROVE Accounted(stream, written, taken)
  OBVIOUS
<1> DEFINE c    == [j \in 0..0 |-> 0]
           none == << >>
<1>1. stream.buffers = none /\ stream.blocked = none /\ written = 0 /\ taken = none
  BY DEF Init, NewStream
<1>2. Len(none) = 0 /\ none \in Seq({})
  OBVIOUS
<1>3. Run(0, 0) = none
  <2>1. 0 - 0 = 0 /\ 1..0 = {}
    OBVIOUS
  <2> QED BY <2>1 DEF Run
<1> HIDE DEF none
<1>4. Cut(none, c) /\ c[0] = 0
  <2>1. c \in [0..0 -> Nat] /\ 0 \in 0..0
    OBVIOUS
  <2> QED BY <1>2, <2>1 DEF Cut
<1> HIDE DEF c
<1>5. Holds(stream, 0, 0)
  BY <1>1, <1>2, <1>3, <1>4 DEF Holds
<1> QED BY <1>1, <1>3, <1>5 DEF Accounted

(* Nothing that leaves the bytes alone disturbs it. *)
LEMMA SameAccounted ==
  ASSUME NEW s, NEW t, SameBytes(s, t), NEW w, NEW got, Accounted(s, w, got)
  PROVE  Accounted(t, w, got)
<1>1. t.shutdown <=> s.shutdown
  BY DEF SameBytes
<1> QED BY <1>1, SameHolds DEF Accounted

(* What a read hands over follows what was taken. *)
LEMMA ReadAccounted ==
  ASSUME NEW s, Shape(s), NEW w, NEW got, Accounted(s, w, got)
  PROVE  /\ \A n \in Nat :
              Accounted(AfterRead(s, n), w,
                        IF s.shutdown THEN got ELSE got \o Taking(s.buffers, n))
         /\ Accounted(AfterReadNext(s), w,
                      IF s.shutdown \/ s.buffers = << >> THEN got
                      ELSE got \o Head(s.buffers).left)
         /\ Accounted(AfterReadZero(s), w, got)
<1>0. w \in Nat
  BY DEF Accounted
<1>1. CASE s.shutdown
  BY <1>1 DEF AfterRead, AfterReadNext, AfterReadZero
<1>2. CASE ~s.shutdown
  <2>1. PICK a \in Nat : got = Run(0, a) /\ Holds(s, a, w)
    BY <1>2 DEF Accounted
  <2>2. ASSUME NEW t, NEW more, TakesRun(t, a, w, more)
        PROVE  Accounted(t, w, got \o more)
    <3>1. PICK z \in Nat : a <= z /\ more = Run(a, z) /\ Holds(t, z, w)
      BY <2>2 DEF TakesRun
    <3>2. Run(0, a) \o Run(a, z) = Run(0, z)
      <4>1. 0 \in Nat /\ 0 <= a
        OBVIOUS
      <4> QED BY <3>1, <4>1, RunsMeet
    <3>3. got \o more = Run(0, z)
      BY <2>1, <3>1, <3>2
    <3> QED BY <1>0, <3>1, <3>3 DEF Accounted
  <2>3. /\ \A n \in Nat : TakesRun(AfterRead(s, n), a, w, Taking(s.buffers, n))
        /\ s.buffers # << >> =>
             TakesRun(AfterReadNext(s), a, w, Head(s.buffers).left)
        /\ Holds(AfterReadZero(s), a, w)
    BY <1>0, <1>2, <2>1, ReadHolds
  <2>4. ASSUME NEW n \in Nat
        PROVE  Accounted(AfterRead(s, n), w, got \o Taking(s.buffers, n))
    BY <2>2, <2>3
  <2>5. s.buffers # << >> =>
          Accounted(AfterReadNext(s), w, got \o Head(s.buffers).left)
    BY <2>2, <2>3
  <2>6. s.buffers = << >> => Accounted(AfterReadNext(s), w, got)
    BY DEF AfterReadNext
  <2>7. Accounted(AfterReadZero(s), w, got)
    BY <1>0, <2>1, <2>3 DEF Accounted
  <2> QED BY <1>2, <2>4, <2>5, <2>6, <2>7
<1> QED BY <1>1, <1>2

(* So do the reads of the model. *)
LEMMA ReadStepAccounted ==
  ASSUME NEW s, Shape(s), Accounted(s, written, taken), written' = written,
         \/ \E n \in Nat : ReadBytes(s, n)
         \/ ReadNext(s)
         \/ ReadZero(s)
  PROVE  Accounted(stream', written', taken')
<1>1. CASE \E n \in Nat : ReadBytes(s, n)
  BY <1>1, ReadAccounted DEF ReadBytes
<1>2. CASE ReadNext(s)
  BY <1>2, ReadAccounted DEF ReadNext
<1>3. CASE ReadZero(s)
  BY <1>3, ReadAccounted DEF ReadZero
<1> QED BY <1>1, <1>2, <1>3

(* A reader that says it is ready takes nothing yet. *)
LEMMA ReaderReadySame ==
  ASSUME NEW s, Shape(s)
  PROVE  SameBytes(s, ReaderReady(s))
<1> DEFINE yes == TRUE
           no  == FALSE
           t   == [s EXCEPT !.readerReady = yes]
           u   == NotifySubscribers(t, no, no)
<1>1. yes \in BOOLEAN /\ no \in BOOLEAN
  OBVIOUS
<1>2. ReaderReady(s) = IF s.shutdown THEN s ELSE u
  BY DEF ReaderReady
<1> HIDE DEF yes, no
<1>3. t = [buffers |-> s.buffers, blocking |-> s.blocking, blocked |-> s.blocked,
           blockHeader |-> s.blockHeader, shutdown |-> s.shutdown,
           readerReady |-> yes, readNotified |-> s.readNotified,
           writeNotified |-> s.writeNotified, readers |-> s.readers,
           writers |-> s.writers, readerCalls |-> s.readerCalls,
           writerCalls |-> s.writerCalls]
  BY SMTT(20) DEF Shape
<1> HIDE DEF t
<1>4. Shape(t) /\ SameBytes(s, t)
  BY <1>1, <1>3 DEF Shape, SameBytes
<1>5. SameBytes(t, u)
  BY <1>1, <1>4, SubscribersSame
<1> HIDE DEF u
<1>6. SameBytes(s, u) /\ SameBytes(s, s)
  BY <1>4, <1>5 DEF SameBytes
<1> QED BY <1>2, <1>6

(* Neither does who subscribes or leaves. *)
LEMMA SubscribingSame ==
  ASSUME NEW s, Shape(s)
  PROVE  /\ \A r : SameBytes(s, WithReader(s, r))
         /\ \A w : SameBytes(s, WithWriter(s, w))
         /\ \A r : SameBytes(s, [s EXCEPT !.readers = @ \ {r}])
         /\ \A w : SameBytes(s, [s EXCEPT !.writers = @ \ {w}])
<1>1. SameBytes(s, s)
  BY DEF SameBytes
<1>2. ASSUME NEW rs, NEW rc
      PROVE  /\ SameBytes(s, [s EXCEPT !.readers = rs, !.readerCalls = rc])
             /\ SameBytes(s, [s EXCEPT !.readers = rs])
  BY DEF Shape, SameBytes
<1>3. ASSUME NEW ws, NEW wc
      PROVE  /\ SameBytes(s, [s EXCEPT !.writers = ws, !.writerCalls = wc])
             /\ SameBytes(s, [s EXCEPT !.writers = ws])
  BY DEF Shape, SameBytes
<1>4. ASSUME NEW r PROVE SameBytes(s, WithReader(s, r))
  BY <1>1, <1>2, Zenon DEF WithReader
<1>5. ASSUME NEW w PROVE SameBytes(s, WithWriter(s, w))
  BY <1>1, <1>3, Zenon DEF WithWriter
<1>6. /\ \A r : SameBytes(s, [s EXCEPT !.readers = @ \ {r}])
      /\ \A w : SameBytes(s, [s EXCEPT !.writers = @ \ {w}])
  BY <1>2, <1>3, Zenon
<1> QED BY <1>4, <1>5, <1>6, Zenon

(* No step loses a byte, repeats one or moves one. *)
LEMMA NextAccounted ==
  ASSUME Sound(stream), Accounted(stream, written, taken), [Next]_vars
  PROVE  Accounted(stream', written', taken')
<1>0. Shape(stream) /\ written \in Nat
  BY DEF Sound, Accounted
<1>1. ASSUME SameBytes(stream, stream'), UNCHANGED <<written, taken>>
      PROVE  Accounted(stream', written', taken')
  BY <1>1, SameAccounted
<1>2. ASSUME stream' = stream, UNCHANGED <<written, taken>>
      PROVE  Accounted(stream', written', taken')
  BY <1>2
<1>3. CASE Write
  <2>1. PICK n \in Sizes, h \in Headers \cup {NoHeader} :
          /\ stream' = Written(stream, [i \in 1..n |-> written + i], h)
          /\ written' = IF stream.shutdown THEN written ELSE written + n
    BY <1>3 DEF Write
  <2>2. taken' = taken
    BY <1>3 DEF Write
  <2>3. CASE stream.shutdown
    BY <2>1, <2>2, <2>3 DEF Written
  <2>4. CASE ~stream.shutdown
    <3> DEFINE v == written + n
    <3>1. n \in Nat /\ v \in Nat /\ written <= v /\ v - written = n
      BY <1>0, TransportStreamAssumption
    <3>2. stream' = Written(stream, Run(written, v), h)
      BY <2>1, <3>1 DEF Run
    <3>3. written' = v
      BY <2>1, <2>4
    <3> HIDE DEF v
    <3>4. PICK a \in Nat : taken = Run(0, a) /\ Holds(stream, a, written)
      BY <2>4 DEF Accounted
    <3>5. Holds(stream', a, v)
      BY <1>0, <2>4, <3>1, <3>2, <3>4, WriteHolds
    <3> QED BY <2>2, <3>1, <3>3, <3>4, <3>5 DEF Accounted
  <2> QED BY <2>3, <2>4
<1>4. CASE Block \/ Unblock
  <2>1. /\ stream' = BlockedFrom(stream) \/ stream' = Unblocked(stream)
        /\ UNCHANGED <<written, taken>>
    BY <1>4 DEF Block, Unblock
  <2>2. CASE stream.shutdown
    BY <1>2, <2>1, <2>2 DEF BlockedFrom, Unblocked
  <2>3. CASE ~stream.shutdown
    <3>1. PICK a \in Nat : taken = Run(0, a) /\ Holds(stream, a, written)
      BY <2>3 DEF Accounted
    <3>2. Holds(stream', a, written)
      BY <1>0, <2>1, <2>3, <3>1, BlockHolds
    <3> QED BY <1>0, <2>1, <3>1, <3>2 DEF Accounted
  <2> QED BY <2>2, <2>3
<1>5. CASE NotifyReaderReadyToRead
  <2>1. UNCHANGED <<written, taken>> /\ stream' = ReaderReady(stream)
    BY <1>5 DEF NotifyReaderReadyToRead
  <2> QED BY <1>0, <1>1, <2>1, ReaderReadySame
<1>6. CASE Read
  <2>1. \/ \E n \in Nat : ReadBytes(stream, n)
        \/ ReadNext(stream)
        \/ ReadZero(stream)
    BY <1>6, TransportStreamAssumption DEF Read
  <2>2. written' = written
    BY <1>6 DEF Read
  <2> QED BY <1>0, <2>1, <2>2, ReadStepAccounted
<1>7. CASE \E r \in Readers : OnReaderReady(r)
  <2>1. PICK r \in Readers : OnReaderReady(r)
    BY <1>7
  <2> DEFINE t == Called(stream, r)
  <2>2. /\ stream.readerCalls[r] > 0 /\ written' = written
        /\ \/ ReadNext(t)
           \/ ~NothingNext(t) /\ ReadBytes(t, Len(Head(t.buffers).left))
           \/ NothingNext(t) /\ ReadZero(t)
    BY <2>1 DEF OnReaderReady
  <2>3. Shape(t)
    BY <2>2, CalledConsistent DEF Sound
  <2>4. SameBytes(stream, t)
    <3> DEFINE rc == [stream.readerCalls EXCEPT ![r] = @ - 1]
    <3>1. t = [stream EXCEPT !.readerCalls = rc]
      BY DEF Called
    <3> HIDE DEF rc
    <3>2. t = WithSubscribers(stream, stream.readers, stream.writers, rc, stream.writerCalls)
      BY <1>0, <3>1 DEF Shape, WithSubscribers
    <3> QED BY <1>0, <3>2, SubscribersSame
  <2> HIDE DEF t
  <2>5. Accounted(t, written, taken)
    BY <2>4, SameAccounted
  <2>6. CASE ~NothingNext(t) /\ ReadBytes(t, Len(Head(t.buffers).left))
    <3>1. CASE t.shutdown
      <4>1. stream' = t /\ taken' = taken
        BY <2>6, <3>1 DEF ReadBytes, AfterRead
      <4> QED BY <2>2, <2>5, <4>1
    <3>2. CASE ~t.shutdown
      <4>1. t.buffers # << >>
        BY <2>6 DEF NothingNext
      <4>2. PICK a \in Nat : Holds(t, a, written)
        BY <2>5, <3>2 DEF Accounted
      <4>3. TakesRun(AfterReadNext(t), a, written, Head(t.buffers).left)
        BY <1>0, <2>3, <3>2, <4>1, <4>2, ReadHolds
      <4>4. PICK z \in Nat : a <= z /\ Head(t.buffers).left = Run(a, z)
        BY <4>3 DEF TakesRun
      <4>5. Len(Head(t.buffers).left) = z - a
        BY <4>4, RunSeq
      <4>6. Len(Head(t.buffers).left) \in Nat
        BY <4>4, <4>5
      <4> QED BY <2>2, <2>3, <2>5, <2>6, <4>6, ReadStepAccounted
    <3> QED BY <3>1, <3>2
  <2>7. CASE ReadNext(t) \/ ReadZero(t)
    BY <2>2, <2>3, <2>5, <2>7, ReadStepAccounted
  <2> QED BY <2>2, <2>6, <2>7
<1>8. CASE \E w \in Writers : OnWriterReady(w)
  <2>1. PICK w \in Writers : OnWriterReady(w)
    BY <1>8
  <2> DEFINE wc == [stream.writerCalls EXCEPT ![w] = @ - 1]
  <2>2. stream' = [stream EXCEPT !.writerCalls = wc] /\ UNCHANGED <<written, taken>>
    BY <2>1 DEF OnWriterReady
  <2> HIDE DEF wc
  <2>3. stream' = WithSubscribers(stream, stream.readers, stream.writers,
                                  stream.readerCalls, wc)
    BY <1>0, <2>2 DEF Shape, WithSubscribers
  <2> QED BY <1>0, <1>1, <2>2, <2>3, SubscribersSame
<1>9. CASE Subscribe \/ Unsubscribe
  <2>0. UNCHANGED <<written, taken>>
    BY <1>9 DEF Subscribe, Unsubscribe
  <2>1. SameBytes(stream, stream')
    <3>1. CASE \E r : stream' = WithReader(stream, r)
      BY <1>0, <3>1, SubscribingSame
    <3>2. CASE \E w : stream' = WithWriter(stream, w)
      BY <1>0, <3>2, SubscribingSame
    <3>3. CASE \E r : stream' = [stream EXCEPT !.readers = @ \ {r}]
      <4>1. PICK r : stream' = [stream EXCEPT !.readers = @ \ {r}]
        BY <3>3
      <4>2. SameBytes(stream, [stream EXCEPT !.readers = @ \ {r}])
        BY <1>0, SubscribingSame, Zenon
      <4> QED BY <4>1, <4>2, Zenon
    <3>4. CASE \E w : stream' = [stream EXCEPT !.writers = @ \ {w}]
      <4>1. PICK w : stream' = [stream EXCEPT !.writers = @ \ {w}]
        BY <3>4
      <4>2. SameBytes(stream, [stream EXCEPT !.writers = @ \ {w}])
        BY <1>0, SubscribingSame, Zenon
      <4> QED BY <4>1, <4>2, Zenon
    <3> QED BY <1>9, <3>1, <3>2, <3>3, <3>4, Zenon DEF Subscribe, Unsubscribe
  <2> QED BY <1>1, <2>0, <2>1
<1>10. CASE Cancel
  <2>1. stream'.shutdown /\ written' = written
    BY <1>10, CancelConsistent DEF Cancel
  <2> QED BY <1>0, <2>1 DEF Accounted
<1>11. CASE UNCHANGED vars
  BY <1>2, <1>11 DEF vars
<1> QED BY <1>3, <1>4, <1>5, <1>6, <1>7, <1>8, <1>9, <1>10, <1>11 DEF Next

(* Reads hand over the bytes that were written, each once and in order,     *)
(* however they cut across the buffers and whatever a block held back.      *)
THEOREM SpecBytesKept == Spec => []BytesKept
<1>1. Init => NobodyForgotten /\ Accounted(stream, written, taken)
  BY InitConsistent, InitAccounted DEF NobodyForgotten, Init
<1>2. /\ NobodyForgotten /\ Accounted(stream, written, taken)
      /\ [Next]_vars
      => NobodyForgotten' /\ Accounted(stream, written, taken)'
  BY NextConsistent, NextAccounted DEF NobodyForgotten
<1>3. Accounted(stream, written, taken) => BytesKept
  <2> SUFFICES ASSUME Accounted(stream, written, taken), ~stream.shutdown
               PROVE  taken \o Bytes(stream.buffers) \o stream.blocked =
                        [i \in 1..written |-> i]
    BY DEF BytesKept
  <2>1. written \in Nat
    BY DEF Accounted
  <2>2. PICK a \in Nat : taken = Run(0, a) /\ Holds(stream, a, written)
    BY DEF Accounted
  <2>3. PICK c : /\ Cut(stream.buffers, c) /\ c[0] = a
                 /\ c[Len(stream.buffers)] <= written
                 /\ stream.blocked = Run(c[Len(stream.buffers)], written)
    BY <2>2 DEF Holds
  <2> DEFINE L == Len(stream.buffers)
             m == c[L]
  <2>4. m \in Nat /\ a <= m
    <3>1. 0 \in 0..L /\ L \in 0..L /\ 0 <= L
      <4>1. PICK T : stream.buffers \in Seq(T)
        BY <2>3 DEF Cut
      <4> QED BY <4>1
    <3> QED BY <2>3, <3>1 DEF Cut
  <2>5. Bytes(stream.buffers) = Run(a, m)
    BY <2>3, CutBytes
  <2>6. stream.blocked = Run(m, written) /\ m <= written
    BY <2>3
  <2> HIDE DEF m
  <2>7. 0 \in Nat /\ 0 <= a /\ 0 <= m
    BY <2>4
  <2>8. Run(0, a) \o Run(a, m) = Run(0, m)
    BY <2>4, <2>7, RunsMeet
  <2>9. Run(0, m) \o Run(m, written) = Run(0, written)
    BY <2>1, <2>4, <2>6, <2>7, RunsMeet
  <2>10. Run(0, written) = [i \in 1..written |-> i]
    <3>1. written - 0 = written /\ \A i \in 1..written : 0 + i = i
      BY <2>1
    <3> QED BY <3>1 DEF Run
  <2> QED BY <2>2, <2>5, <2>6, <2>8, <2>9, <2>10
<1> QED BY <1>1, <1>2, <1>3, PTL DEF Spec

-----------------------------------------------------------------------------
(* STUN *)

-----------------------------------------------------------------------------
(* The requesters and the manager's map *)

Fields == {"created", "delegate", "try", "timer", "maxTimer", "sends", "restarts"}

StunShape(s) ==
  /\ DOMAIN s = {"requester", "registered", "sendPosted", "timeoutPosted", "givingUp"}
  /\ DOMAIN s.requester = Requesters
  /\ \A r \in Requesters : DOMAIN s.requester[r] = Fields
  /\ s.givingUp \subseteq Requesters

(* ManagerKnowsWaiting, of the state a method leaves. *)
Exact(s) ==
  /\ StunShape(s)
  /\ s.registered = {r \in Requesters : s.requester[r].delegate}

(* No method but create() makes a requester. *)
SameCreated(s, t) ==
  \A r \in Requesters : t.requester[r].created = s.requester[r].created

LEMMA RequesterFields ==
  ASSUME NEW q, DOMAIN q = Fields
  PROVE  /\ DOMAIN Timed(q) = Fields /\ Timed(q).delegate = q.delegate /\ Timed(q).created = q.created
         /\ DOMAIN Ended(q) = Fields /\ Ended(q).delegate = FALSE /\ Ended(q).created = q.created
         /\ DOMAIN Restarted(q) = Fields /\ Restarted(q).delegate = q.delegate
         /\ Restarted(q).created = q.created
         /\ DOMAIN Tried(q) = Fields /\ Tried(q).delegate = q.delegate /\ Tried(q).created = q.created
BY DEF Fields, Timed, Ended, Restarted, Tried

(* step() touches the timers and what is sent. *)
LEMMA StepExact ==
  ASSUME NEW s, Exact(s), NEW r \in Requesters
  PROVE  Exact(Step(s, r)) /\ SameCreated(s, Step(s, r))
<1> DEFINE new == Timed(s.requester[r])
           posts == IF s.requester[r].timer THEN s.sendPosted ELSE s.sendPosted \cup {r}
           t == [s EXCEPT !.requester[r] = new, !.sendPosted = posts]
<1>1. Step(s, r) = s \/ Step(s, r) = t
  BY DEF Step
<1>2. /\ DOMAIN new = Fields /\ new.delegate = s.requester[r].delegate
      /\ new.created = s.requester[r].created
  BY RequesterFields DEF Exact, StunShape
<1> HIDE DEF new, posts
<1>3. /\ StunShape(t) /\ t.registered = s.registered
      /\ \A q \in Requesters : t.requester[q] = IF q = r THEN new ELSE s.requester[q]
  BY <1>2 DEF Exact, StunShape
<1> HIDE DEF t
<1>4. \A q \in Requesters : /\ t.requester[q].delegate = s.requester[q].delegate
                            /\ t.requester[q].created = s.requester[q].created
  BY <1>2, <1>3
<1>5. Exact(t) /\ SameCreated(s, t)
  BY <1>3, <1>4 DEF Exact, SameCreated
<1> QED BY <1>1, <1>5 DEF SameCreated

(* A requester rewritten without a change of its delegate. *)
LEMMA SameDelegates ==
  ASSUME NEW s, Exact(s), NEW t, StunShape(t), t.registered = s.registered,
         \A q \in Requesters : /\ t.requester[q].delegate = s.requester[q].delegate
                               /\ t.requester[q].created = s.requester[q].created
  PROVE  Exact(t) /\ SameCreated(s, t)
BY DEF Exact, SameCreated

LEMMA CreateExact ==
  ASSUME NEW s, Exact(s), NEW r \in Requesters
  PROVE  /\ Exact(Create(s, r))
         /\ \A q \in Requesters : Create(s, r).requester[q].created
                                    = IF q = r THEN TRUE ELSE s.requester[q].created
<1> DEFINE new == [NotCreated EXCEPT !.created = TRUE, !.delegate = TRUE]
           t == [s EXCEPT !.requester[r] = new, !.registered = @ \cup {r}]
<1>1. DOMAIN new = Fields /\ new.created = TRUE /\ new.delegate = TRUE
  BY DEF NotCreated, Fields
<1> HIDE DEF new
<1>2. /\ StunShape(t) /\ t.registered = s.registered \cup {r}
      /\ \A q \in Requesters : t.requester[q] = IF q = r THEN new ELSE s.requester[q]
  BY <1>1 DEF Exact, StunShape
<1> HIDE DEF t
<1>3. Exact(t)
  BY <1>1, <1>2 DEF Exact
<1>4. Exact(Step(t, r)) /\ SameCreated(t, Step(t, r))
  BY <1>3, StepExact
<1>5. Create(s, r) = Step(t, r)
  BY DEF Create, t, new
<1> QED BY <1>1, <1>2, <1>4, <1>5 DEF SameCreated

LEMMA InternalCancelExact ==
  ASSUME NEW s, Exact(s), NEW r \in Requesters
  PROVE  Exact(InternalCancel(s, r)) /\ SameCreated(s, InternalCancel(s, r))
<1> DEFINE t == InternalCancel(s, r)
<1>0. /\ DOMAIN Ended(s.requester[r]) = Fields /\ Ended(s.requester[r]).delegate = FALSE
      /\ Ended(s.requester[r]).created = s.requester[r].created
  BY RequesterFields DEF Exact, StunShape
<1>1. /\ StunShape(t)
      /\ t.registered = IF s.requester[r].delegate THEN s.registered \ {r} ELSE s.registered
      /\ \A q \in Requesters : t.requester[q].delegate = IF q = r THEN FALSE ELSE s.requester[q].delegate
      /\ \A q \in Requesters : t.requester[q].created = s.requester[q].created
  BY <1>0 DEF Exact, StunShape, InternalCancel
<1> HIDE DEF t
<1> QED BY <1>1 DEF Exact, SameCreated, t

LEMMA RetryNowExact ==
  ASSUME NEW s, Exact(s), NEW r \in Requesters
  PROVE  Exact(RetryNow(s, r))
<1> DEFINE t == [s EXCEPT !.requester[r] = Restarted(@)]
<1>0. /\ DOMAIN Restarted(s.requester[r]) = Fields /\ Restarted(s.requester[r]).delegate = s.requester[r].delegate
      /\ Restarted(s.requester[r]).created = s.requester[r].created
  BY RequesterFields DEF Exact, StunShape
<1>1. /\ StunShape(t) /\ t.registered = s.registered
      /\ \A q \in Requesters : /\ t.requester[q].delegate = s.requester[q].delegate
                               /\ t.requester[q].created = s.requester[q].created
  BY <1>0 DEF Exact, StunShape
<1>2. RetryNow(s, r) = Step(t, r)
  BY DEF RetryNow
<1> HIDE DEF t
<1>3. Exact(t)
  BY <1>1, SameDelegates
<1> QED BY <1>2, <1>3, StepExact

LEMMA RetransmitExact ==
  ASSUME NEW s, Exact(s), NEW r \in Requesters
  PROVE  Exact(Retransmit(s, r)) /\ SameCreated(s, Retransmit(s, r))
<1> DEFINE t == [s EXCEPT !.requester[r] = Tried(@)]
<1>0. /\ DOMAIN Tried(s.requester[r]) = Fields /\ Tried(s.requester[r]).delegate = s.requester[r].delegate
      /\ Tried(s.requester[r]).created = s.requester[r].created
  BY RequesterFields DEF Exact, StunShape
<1>1. /\ StunShape(t) /\ t.registered = s.registered
      /\ \A q \in Requesters : /\ t.requester[q].delegate = s.requester[q].delegate
                               /\ t.requester[q].created = s.requester[q].created
  BY <1>0 DEF Exact, StunShape
<1>2. Retransmit(s, r) = t \/ Retransmit(s, r) = Step(t, r)
  BY DEF Retransmit
<1> HIDE DEF t
<1>3. Exact(t) /\ SameCreated(s, t)
  BY <1>1, SameDelegates
<1>4. Exact(Step(t, r)) /\ SameCreated(t, Step(t, r))
  BY <1>3, StepExact
<1> QED BY <1>2, <1>3, <1>4 DEF SameCreated

(* What is posted, or being given up, is no matter of the map. *)
LEMMA PostedExact ==
  ASSUME NEW s, Exact(s), NEW t, DOMAIN t = DOMAIN s, t.requester = s.requester,
         t.registered = s.registered, t.givingUp \subseteq Requesters
  PROVE  Exact(t) /\ SameCreated(s, t)
BY DEF Exact, StunShape, SameCreated

ReqInv ==
  /\ Exact(stun)
  /\ answering = Idle \/ answering.r \in Requesters

LEMMA RequesterInitInv == RequesterInit => ReqInv
BY DEF RequesterInit, ReqInv, Exact, StunShape, Fields, NotCreated

(* The steps of the handlers and the timers. *)
LEMMA HandlingInv ==
  ASSUME ReqInv, NEW r \in Requesters,
         \/ Handling \/ OnTimer(r) \/ OnMaxTimer(r) \/ FindRequester(r)
         \/ \E accepts \in BOOLEAN : CallDelegate(accepts)
  PROVE  ReqInv' /\ SameCreated(stun, stun')
<1> USE DEF ReqInv
<1>1. ASSUME UNCHANGED stun, answering' = answering \/ answering' = Idle \/ answering'.r \in Requesters
      PROVE  ReqInv' /\ SameCreated(stun, stun')
  BY <1>1 DEF SameCreated, Exact, StunShape
<1>2. CASE CallNobody
  BY <1>1, <1>2 DEF CallNobody
<1>3. ASSUME NEW valid \in BOOLEAN, CheckResponse(valid) PROVE ReqInv' /\ SameCreated(stun, stun')
  BY <1>1, <1>3 DEF CheckResponse, Idle
<1>4. CASE FinishAnswer
  <2>1. answering.r \in Requesters /\ stun' = InternalCancel(stun, answering.r) /\ answering' = Idle
    BY <1>4 DEF FinishAnswer, Idle
  <2> QED BY <2>1, InternalCancelExact
<1>5. CASE TellTimedOut
  <2>1. /\ stun' = [stun EXCEPT !.givingUp = {expiring},
                          !.timeoutPosted = IF stun.requester[expiring].delegate
                                            THEN @ \cup {expiring} ELSE @]
        /\ expiring \in Requesters /\ UNCHANGED answering
    BY <1>5 DEF TellTimedOut
  <2>2. /\ DOMAIN stun' = DOMAIN stun /\ stun'.requester = stun.requester
        /\ stun'.registered = stun.registered /\ stun'.givingUp = {expiring}
    BY <2>1 DEF Exact, StunShape
  <2> QED BY <2>1, <2>2, PostedExact
<1>6. CASE GiveUp
  <2> DEFINE c == InternalCancel(stun, expiring)
  <2>1. /\ expiring \in Requesters /\ UNCHANGED answering
        /\ stun' = [c EXCEPT !.givingUp = {}]
    BY <1>6 DEF GiveUp, Exact, StunShape
  <2>2. Exact(c) /\ SameCreated(stun, c)
    BY <2>1, InternalCancelExact
  <2> HIDE DEF c
  <2>3. /\ DOMAIN stun' = DOMAIN c /\ stun'.requester = c.requester
        /\ stun'.registered = c.registered /\ stun'.givingUp = {}
    BY <2>1, <2>2 DEF Exact, StunShape
  <2>4. Exact(stun') /\ SameCreated(c, stun')
    BY <2>2, <2>3, PostedExact
  <2> QED BY <2>1, <2>2, <2>4 DEF SameCreated
<1>7. CASE OnTimer(r)
  BY <1>7, RetransmitExact DEF OnTimer
<1>8. CASE OnMaxTimer(r)
  BY <1>1, <1>8 DEF OnMaxTimer
<1>9. CASE FindRequester(r)
  BY <1>1, <1>9 DEF FindRequester
<1>10. ASSUME NEW accepts \in BOOLEAN, CallDelegate(accepts) PROVE ReqInv' /\ SameCreated(stun, stun')
  <2>1. answering.r \in Requesters
    BY <1>10 DEF CallDelegate, Idle
  <2> QED BY <1>1, <1>10, <2>1 DEF CallDelegate
<1> QED BY <1>2, <1>3, <1>4, <1>5, <1>6, <1>7, <1>8, <1>9, <1>10
        DEF Handling, Answering, Expiring

(* The steps of an owner that may do anything. *)
LEMMA OwnerInv ==
  ASSUME ReqInv, NEW r \in Requesters,
         \/ SendPacket(r) \/ CreateRequest(r) \/ CancelRequester(r) \/ RetryRequestNow(r) \/ HearTimedOut(r)
  PROVE  ReqInv'
<1> USE DEF ReqInv
<1>1. CASE SendPacket(r)
  <2>1. /\ stun' = [stun EXCEPT !.sendPosted = @ \ {r}] /\ UNCHANGED answering
    BY <1>1 DEF SendPacket
  <2>2. /\ DOMAIN stun' = DOMAIN stun /\ stun'.requester = stun.requester
        /\ stun'.registered = stun.registered /\ stun'.givingUp \subseteq Requesters
    BY <2>1 DEF Exact, StunShape
  <2> QED BY <2>1, <2>2, PostedExact
<1>2. CASE CreateRequest(r)
  BY <1>2, CreateExact DEF CreateRequest
<1>3. CASE CancelRequester(r)
  BY <1>3, InternalCancelExact DEF CancelRequester
<1>4. CASE RetryRequestNow(r)
  BY <1>4, RetryNowExact DEF RetryRequestNow
<1>5. CASE HearTimedOut(r)
  <2>1. /\ stun' = [stun EXCEPT !.timeoutPosted = @ \ {r}] /\ UNCHANGED answering
    BY <1>5 DEF HearTimedOut
  <2>2. /\ DOMAIN stun' = DOMAIN stun /\ stun'.requester = stun.requester
        /\ stun'.registered = stun.registered /\ stun'.givingUp \subseteq Requesters
    BY <2>1 DEF Exact, StunShape
  <2> QED BY <2>1, <2>2, PostedExact
<1> QED BY <1>1, <1>2, <1>3, <1>4, <1>5

(* For any requests, tries and restarts, whatever the owner does and on     *)
(* whichever thread the answers come: the map of the manager, by which      *)
(* handleSTUNPacket finds a requester, holds those that wait and no other.  *)
THEOREM SpecManagerKnowsWaiting == RequesterSpec => []ManagerKnowsWaiting
<1>1. RequesterInit => ReqInv
  BY RequesterInitInv
<1>2. ReqInv /\ [RequesterNext]_requesterVars => ReqInv'
  <2> SUFFICES ASSUME ReqInv, [RequesterNext]_requesterVars PROVE ReqInv'
    OBVIOUS
  <2>1. CASE UNCHANGED requesterVars
    BY <2>1 DEF requesterVars, ReqInv, Exact, StunShape
  <2>2. CASE Handling \/ \E accepts \in BOOLEAN : CallDelegate(accepts)
    <3>1. CASE Requesters = {}
      BY <3>1, <2>2 DEF ReqInv, Handling, Answering, Expiring, CheckResponse, CallNobody, FinishAnswer,
                  TellTimedOut, GiveUp, CallDelegate, Idle, Exact, StunShape
    <3>2. ASSUME NEW r \in Requesters PROVE ReqInv'
      BY <2>2, HandlingInv
    <3> QED BY <3>1, <3>2
  <2>3. ASSUME NEW r \in Requesters,
               \/ SendPacket(r) \/ OnTimer(r) \/ OnMaxTimer(r) \/ FindRequester(r)
               \/ CreateRequest(r) \/ CancelRequester(r) \/ RetryRequestNow(r) \/ HearTimedOut(r)
        PROVE  ReqInv'
    BY <2>3, HandlingInv, OwnerInv
  <2> QED BY <2>1, <2>2, <2>3 DEF RequesterNext
<1>3. ReqInv => ManagerKnowsWaiting
  BY DEF ReqInv, Exact, ManagerKnowsWaiting
<1> QED
  BY <1>1, <1>2, <1>3, PTL DEF RequesterSpec

-----------------------------------------------------------------------------
(* The discovery *)

Addresses == Servers \cup Portless

Discovery ==
  [state : {"none", "created", "completed", "cancelled"}, delegate : BOOLEAN, query : BOOLEAN,
   srv : Seq(Addresses), server : Servers \cup {None}, request : Requesters \cup {None},
   contacted : SUBSET Servers, mapped : BOOLEAN]

Asked == [Requesters -> Servers \cup {None}]

(* NoServerAskedTwice of a history *)
Once(a) == \A r, q \in Requesters : a[r] # None /\ a[r] = a[q] => r = q

(* The object and the requests made by it, wherever step() may be called:   *)
(* whoever was asked has been contacted, and an object without a delegate   *)
(* has nothing under way.                                                   *)
DiscoverySound(d, s, a) ==
  /\ Exact(s) /\ d \in Discovery /\ a \in Asked /\ Once(a)
  /\ \A r \in Requesters : a[r] # None => s.requester[r].created
  /\ d.state = "none" => \A r \in Requesters : a[r] = None
  /\ d.state = "none" => d.server = None /\ ~d.delegate
  /\ d.delegate => d.state = "created"
  /\ d.delegate => \A r \in Requesters : a[r] # None => a[r] \in d.contacted
  /\ ~d.delegate => ~d.query /\ d.request = None
  /\ d.query => d.request = None
  /\ d.request # None => s.requester[d.request].created

(* Between two calls there is a server if and only if it has been asked. *)
Resting(d) == d.delegate /\ d.request = None => d.server = None

DInv ==
  /\ ReqInv
  /\ DiscoverySound(discovery, stun, asked)
  /\ Resting(discovery)

(* The server that step() takes next is one of the usable ones. *)
LEMMA FirstUsableIsUsable ==
  ASSUME NEW d \in Discovery, Usable(d) # {}
  PROVE  FirstUsable(d) \in Usable(d)
<1>1. Usable(d) \in SUBSET Nat
  BY DEF Usable, Discovery
<1>2. PICK i \in Usable(d) : \A j \in Usable(d) : ~(<<j, i>> \in OpToRel(<, Nat))
  BY <1>1, NatLessThanWellFounded, WFMin
<1>3. ASSUME NEW j \in Usable(d) PROVE i <= j
  <2>1. i \in Nat /\ j \in Nat /\ <<j, i>> \in Nat \X Nat
    BY <1>1
  <2>2. j < i => <<j, i>> \in OpToRel(<, Nat)
    BY <2>1 DEF OpToRel
  <2>3. ~(j < i)
    BY <1>2, <2>2
  <2> QED BY <2>1, <2>3
<1> QED BY <1>3 DEF FirstUsable

(* What a step() that finds no request under way makes of the object: it is *)
(* over, or a fresh request goes to a server that nobody asked.             *)
LEMMA StepEffect ==
  ASSUME NEW d \in Discovery, NEW s, d.delegate, ~d.query,
         d.request = None, d.server # None => d.server \in d.contacted, Unused(s) # {}
  PROVE  \/ StepDiscovery(d, s) = [d |-> Completed(d, FALSE), s |-> s]
         \/ \E e \in Discovery :
              /\ StepDiscovery(d, s) = [d |-> e, s |-> Create(s, Fresh(s))]
              /\ Fresh(s) \in Unused(s)
              /\ e.state = d.state /\ e.delegate /\ ~e.query /\ e.request = Fresh(s)
              /\ d.contacted \subseteq e.contacted /\ e.server \in e.contacted
              /\ IF d.server = None THEN e.server \notin d.contacted ELSE e.server = d.server
<1> DEFINE first == FirstUsable(d)
           next == d.srv[first]
           chosen == IF d.server # None THEN d
                     ELSE [d EXCEPT !.server = next,
                                    !.srv = SubSeq(@, first + 1, Len(@)),
                                    !.contacted = @ \cup {next}]
           e == [chosen EXCEPT !.request = Fresh(s)]
<1>1. CASE d.server = None /\ Usable(d) = {}
  BY <1>1 DEF StepDiscovery
<1>2. CASE ~(d.server = None /\ Usable(d) = {})
  <2>1. StepDiscovery(d, s) = [d |-> e, s |-> Create(s, Fresh(s))]
    BY <1>2 DEF StepDiscovery
  <2>2. Fresh(s) \in Unused(s) /\ Fresh(s) \in Requesters
    BY DEF Fresh, Unused
  <2>3. /\ chosen \in Discovery /\ chosen.state = d.state /\ chosen.delegate /\ ~chosen.query
        /\ d.contacted \subseteq chosen.contacted /\ chosen.server \in chosen.contacted
        /\ IF d.server = None THEN chosen.server \notin d.contacted ELSE chosen.server = d.server
    <3>1. CASE d.server # None
      BY <3>1
    <3>2. CASE d.server = None
      <4>1. first \in 1..Len(d.srv) /\ next \in Servers /\ next \notin d.contacted
        BY <3>2, <1>2, FirstUsableIsUsable DEF Usable, Contacted
      <4> HIDE DEF first, next
      <4>2. SubSeq(d.srv, first + 1, Len(d.srv)) \in Seq(Addresses)
        BY <4>1 DEF Discovery
      <4>3. chosen = [d EXCEPT !.server = next, !.srv = SubSeq(d.srv, first + 1, Len(d.srv)),
                               !.contacted = d.contacted \cup {next}]
        BY <3>2
      <4> QED BY <3>2, <4>1, <4>2, <4>3 DEF Discovery
    <3> QED BY <3>1, <3>2
  <2> HIDE DEF chosen
  <2>4. /\ e \in Discovery /\ e.state = chosen.state /\ e.delegate = chosen.delegate
        /\ e.query = chosen.query /\ e.request = Fresh(s)
        /\ e.contacted = chosen.contacted /\ e.server = chosen.server
    BY <2>2, <2>3 DEF Discovery
  <2> HIDE DEF e
  <2> QED BY <2>1, <2>2, <2>3, <2>4
<1> QED BY <1>1, <1>2

(* The history of servers asked, from what step() made of the object. *)
AskedAfter(e, a) == IF e.request = None THEN a ELSE [a EXCEPT ![e.request] = e.server]

LEMMA CompletedSound ==
  ASSUME NEW d, NEW s, NEW a, DiscoverySound(d, s, a), NEW mapped \in BOOLEAN, d.delegate
  PROVE  /\ DiscoverySound(Completed(d, mapped), s, a) /\ Resting(Completed(d, mapped))
         /\ Completed(d, mapped).request = None /\ Completed(d, mapped).state = "completed"
<1> DEFINE c == Cancelled(d)
           e == Completed(d, mapped)
<1>0. /\ c \in Discovery /\ ~c.delegate /\ ~c.query /\ c.request = None
  <2>1. d \in Discovery /\ << >> \in Seq(Addresses)
    BY DEF DiscoverySound
  <2> QED BY <2>1 DEF Discovery, Cancelled
<1> HIDE DEF c
<1>1. /\ e \in Discovery /\ ~e.delegate /\ ~e.query /\ e.request = None /\ e.state = "completed"
  <2>1. e = [c EXCEPT !.mapped = mapped, !.state = "completed"]
    BY DEF Completed, c
  <2> QED BY <1>0, <2>1 DEF Discovery
<1> HIDE DEF e
<1>2. DiscoverySound(e, s, a) /\ Resting(e)
  BY <1>1 DEF DiscoverySound, Resting
<1> QED BY <1>1, <1>2 DEF e

(* step() keeps the books, when the server that is to be asked has been     *)
(* contacted, and not asked before.                                         *)
LEMMA StepSound ==
  ASSUME NEW d, NEW s, NEW a, DiscoverySound(d, s, a),
         d.delegate, ~d.query, d.request = None, Unused(s) # {},
         d.server # None => /\ d.server \in d.contacted
                            /\ \A r \in Requesters : a[r] # d.server
  PROVE  LET after == StepDiscovery(d, s) IN
         /\ DiscoverySound(after.d, after.s, AskedAfter(after.d, a))
         /\ Resting(after.d)
         /\ after.d.state \in {"created", "completed"}
         /\ after.d.request # None => after.d.request \in Unused(s)
<1>1. CASE StepDiscovery(d, s) = [d |-> Completed(d, FALSE), s |-> s]
  <2> DEFINE e == Completed(d, FALSE)
  <2>1. DiscoverySound(e, s, a) /\ Resting(e) /\ e.request = None /\ e.state = "completed"
    BY CompletedSound
  <2> HIDE DEF e
  <2>2. StepDiscovery(d, s).d = e /\ StepDiscovery(d, s).s = s
    BY <1>1 DEF e
  <2> QED BY <2>1, <2>2 DEF AskedAfter
<1>2. CASE \E e \in Discovery :
              /\ StepDiscovery(d, s) = [d |-> e, s |-> Create(s, Fresh(s))]
              /\ Fresh(s) \in Unused(s)
              /\ e.state = d.state /\ e.delegate /\ ~e.query /\ e.request = Fresh(s)
              /\ d.contacted \subseteq e.contacted /\ e.server \in e.contacted
              /\ IF d.server = None THEN e.server \notin d.contacted ELSE e.server = d.server
  <2>1. PICK e \in Discovery :
              /\ StepDiscovery(d, s) = [d |-> e, s |-> Create(s, Fresh(s))]
              /\ Fresh(s) \in Unused(s)
              /\ e.state = d.state /\ e.delegate /\ ~e.query /\ e.request = Fresh(s)
              /\ d.contacted \subseteq e.contacted /\ e.server \in e.contacted
              /\ IF d.server = None THEN e.server \notin d.contacted ELSE e.server = d.server
    BY <1>2
  <2> DEFINE r == Fresh(s)
             t == Create(s, r)
             b == [a EXCEPT ![r] = e.server]
  <2>2. r \in Requesters /\ ~s.requester[r].created /\ r # None
    BY <2>1, DiscoveryAssumption DEF Unused
  <2>3. a[r] = None
    BY <2>2 DEF DiscoverySound
  <2>4. /\ Exact(t)
        /\ \A q \in Requesters : t.requester[q].created = IF q = r THEN TRUE ELSE s.requester[q].created
    BY <2>2, CreateExact DEF DiscoverySound
  <2> HIDE DEF t, r
  <2>5. e.server \in Servers /\ e.server # None
    BY <2>1, DiscoveryAssumption DEF Discovery
  <2>6. \A q \in Requesters : a[q] # e.server
    BY <2>1, <2>5 DEF DiscoverySound
  <2>7. b \in Asked /\ \A q \in Requesters : b[q] = IF q = r THEN e.server ELSE a[q]
    BY <2>2, <2>5 DEF Asked, DiscoverySound
  <2> HIDE DEF b
  <2>8. Once(b)
    BY <2>5, <2>6, <2>7 DEF DiscoverySound, Once
  <2>9. d.state = "created" /\ e.state = "created" /\ e.request = r
    BY <2>1 DEF DiscoverySound, r
  <2>10. \A q \in Requesters : b[q] # None => b[q] \in e.contacted
    BY <2>1, <2>7 DEF DiscoverySound
  <2>11. DiscoverySound(e, t, b)
    BY <2>1, <2>2, <2>4, <2>7, <2>8, <2>9, <2>10 DEF DiscoverySound
  <2>12. AskedAfter(e, a) = b /\ Resting(e)
    BY <2>2, <2>9 DEF AskedAfter, Resting, b
  <2> QED BY <2>1, <2>9, <2>11, <2>12 DEF t, r
<1>3. d \in Discovery
  BY DEF DiscoverySound
<1> QED BY <1>1, <1>2, <1>3, StepEffect

-----------------------------------------------------------------------------
(* The steps of a discovery *)

(* A discovery is created, and ends at most once. *)
Moves(old, new) ==
  \/ new = old
  \/ old = "none" /\ new \in {"created", "completed"}
  \/ old = "created" /\ new \in {"completed", "cancelled"}

(* The requesters may change under the object. *)
LEMMA OtherRequesters ==
  ASSUME NEW d, NEW s, NEW t, NEW a, DiscoverySound(d, s, a), Exact(t),
         \A r \in Requesters : s.requester[r].created => t.requester[r].created
  PROVE  DiscoverySound(d, t, a)
BY DEF DiscoverySound, Discovery

(* The current request is over without an address: it is forgotten, and the *)
(* next server is asked or the discovery completed.                         *)
LEMMA NextServer ==
  ASSUME NEW d, NEW s, NEW a, DiscoverySound(d, s, a), d.request # None,
         Unused(s) # {}, NEW e \in Discovery,
         e.state = d.state, e.delegate = d.delegate, e.query = d.query, e.request = None,
         \/ e.server = None /\ e.contacted = d.contacted
         \/ /\ e.server \in Servers /\ e.server \notin d.contacted
            /\ e.contacted = d.contacted \cup {e.server}
  PROVE  LET after == StepDiscovery(e, s) IN
         /\ DiscoverySound(after.d, after.s, AskedAfter(after.d, a))
         /\ Resting(after.d)
         /\ Moves(d.state, after.d.state)
         /\ after.d.request # None => after.d.request \in Unused(s)
<1>1. d.delegate /\ ~d.query /\ d.state = "created"
  BY DEF DiscoverySound
<1>2. DiscoverySound(e, s, a)
  BY <1>1 DEF DiscoverySound
<1>3. e.server # None => e.server \in e.contacted /\ \A r \in Requesters : a[r] # e.server
  BY <1>1 DEF DiscoverySound
<1> QED BY <1>1, <1>2, <1>3, StepSound DEF Moves

(* A fresh request is not the current one. *)
LEMMA FreshIsNew ==
  ASSUME NEW d, NEW s, NEW a, DiscoverySound(d, s, a), NEW e, NEW b,
         e.request # None => e.request \in Unused(s),
         b = IF e.request = None \/ e.request = d.request THEN a
             ELSE [a EXCEPT ![e.request] = e.server]
  PROVE  b = AskedAfter(e, a)
BY DiscoveryAssumption DEF AskedAfter, DiscoverySound, Unused

LEMMA CreateDiscoveryInv ==
  ASSUME DInv, CreateDiscovery
  PROVE  DInv' /\ Moves(discovery.state, discovery'.state)
<1> DEFINE new == [discovery EXCEPT !.state = "created", !.delegate = TRUE]
<1>1. /\ discovery \in Discovery /\ discovery.state = "none" /\ discovery.server = None
      /\ ~discovery.delegate /\ ~discovery.query /\ discovery.request = None
      /\ asked \in Asked /\ \A r \in Requesters : asked[r] = None
  BY DEF DInv, DiscoverySound, CreateDiscovery
<1>2. new \in Discovery
  BY <1>1 DEF Discovery
<1>3. /\ new.state = "created" /\ new.delegate /\ ~new.query /\ new.server = None
      /\ new.request = None /\ new.contacted = discovery.contacted
  BY <1>1 DEF Discovery
<1>4. CASE /\ discovery' = [new EXCEPT !.query = TRUE]
           /\ UNCHANGED <<stun, asked>>
  <2>1. discovery' \in Discovery
    BY <1>2, <1>4 DEF Discovery
  <2>2. /\ discovery'.state = "created" /\ discovery'.delegate /\ discovery'.query
        /\ discovery'.server = None /\ discovery'.request = None
    BY <1>2, <1>3, <1>4 DEF Discovery
  <2>3. DiscoverySound(discovery', stun', asked')
    BY <1>1, <1>4, <2>1, <2>2 DEF DInv, DiscoverySound
  <2> QED BY <1>1, <1>4, <2>2, <2>3 DEF DInv, ReqInv, Resting, Moves, CreateDiscovery
<1>5. ASSUME NEW srv \in Lookups,
             LET after == StepDiscovery([new EXCEPT !.srv = srv], stun) IN
               /\ discovery' = after.d /\ stun' = after.s
               /\ asked' = IF after.d.request = None THEN asked
                           ELSE [asked EXCEPT ![after.d.request] = after.d.server]
      PROVE  DInv' /\ Moves(discovery.state, discovery'.state)
  <2> DEFINE e == [new EXCEPT !.srv = srv]
  <2>1. srv \in Seq(Addresses)
    BY DiscoveryAssumption DEF Addresses
  <2>2. e \in Discovery
    BY <1>2, <2>1 DEF Discovery
  <2>3. /\ e.state = "created" /\ e.delegate /\ ~e.query
        /\ e.server = None /\ e.request = None
    BY <1>2, <1>3 DEF Discovery
  <2> HIDE DEF e, new
  <2>4. DiscoverySound(e, stun, asked)
    BY <1>1, <2>2, <2>3 DEF DInv, DiscoverySound
  <2>5. Unused(stun) # {}
    BY DEF CreateDiscovery, RequestsLeft
  <2>6. LET after == StepDiscovery(e, stun) IN
        /\ discovery' = after.d /\ stun' = after.s /\ asked' = AskedAfter(after.d, asked)
    BY <1>5 DEF AskedAfter, e
  <2>7. /\ DiscoverySound(discovery', stun', asked') /\ Resting(discovery')
        /\ discovery'.state \in {"created", "completed"}
    BY <2>3, <2>4, <2>5, <2>6, StepSound
  <2> QED BY <1>1, <2>7 DEF DInv, ReqInv, DiscoverySound, Moves, CreateDiscovery
<1> QED BY <1>4, <1>5 DEF CreateDiscovery

LEMMA CancelDiscoveryInv ==
  ASSUME DInv, CancelDiscovery
  PROVE  DInv' /\ Moves(discovery.state, discovery'.state)
<1> DEFINE c == Cancelled(discovery)
<1>0. /\ discovery \in Discovery /\ discovery.state = "created" /\ discovery.delegate
  BY DEF DInv, DiscoverySound, CancelDiscovery
<1>1. c \in Discovery /\ ~c.delegate /\ ~c.query /\ c.request = None
  <2>1. << >> \in Seq(Addresses)
    OBVIOUS
  <2> QED BY <1>0, <2>1 DEF Discovery, Cancelled
<1>2. discovery' = [c EXCEPT !.state = "cancelled"]
  BY DEF CancelDiscovery
<1> HIDE DEF c
<1>3. /\ discovery' \in Discovery /\ ~discovery'.delegate /\ ~discovery'.query
      /\ discovery'.request = None /\ discovery'.state = "cancelled"
  BY <1>1, <1>2 DEF Discovery
<1>4. Exact(stun') /\ SameCreated(stun, stun')
  <2>1. CASE discovery.request = None
    BY <2>1 DEF CancelDiscovery, DInv, ReqInv, SameCreated
  <2>2. CASE discovery.request # None
    BY <1>0, <2>2, InternalCancelExact DEF CancelDiscovery, DInv, ReqInv, Discovery
  <2> QED BY <2>1, <2>2
<1>5. asked' = asked /\ answering' = answering
  BY DEF CancelDiscovery
<1>6. DiscoverySound(discovery', stun', asked')
  BY <1>3, <1>4, <1>5 DEF DInv, DiscoverySound, SameCreated
<1> QED BY <1>0, <1>3, <1>4, <1>5, <1>6 DEF DInv, ReqInv, Resting, Moves

LEMMA RequestingInv ==
  ASSUME DInv, Requesting
  PROVE  DInv' /\ Moves(discovery.state, discovery'.state)
<1>1. discovery' = discovery /\ asked' = asked
  BY DEF Requesting
<1>2. ReqInv' /\ SameCreated(stun, stun')
  <2>1. ASSUME NEW r \in Requesters, \/ Handling \/ OnTimer(r) \/ OnMaxTimer(r) \/ FindRequester(r)
        PROVE  ReqInv' /\ SameCreated(stun, stun')
    BY <2>1, HandlingInv DEF DInv
  <2>2. CASE Requesters = {}
    <3>1. Handling
      BY <2>2 DEF Requesting
    <3> QED BY <3>1, <2>2 DEF DInv, ReqInv, Handling, Answering, Expiring, CheckResponse, CallNobody,
                 FinishAnswer, TellTimedOut, GiveUp, Idle, Exact, StunShape, SameCreated
  <2> QED BY <2>1, <2>2 DEF Requesting
<1>3. DiscoverySound(discovery', stun', asked')
  BY <1>1, <1>2, OtherRequesters DEF DInv, ReqInv, SameCreated
<1> QED BY <1>1, <1>2, <1>3 DEF DInv, Moves

LEMMA PostedInv ==
  ASSUME DInv, PostedCall
  PROVE  DInv' /\ Moves(discovery.state, discovery'.state)
<1> USE DEF DInv
<1>1. CASE OnLookupCompleted
  <2>1. PICK srv \in Lookups \cup {<< >>} :
          LET after == StepDiscovery([discovery EXCEPT !.srv = srv, !.query = FALSE], stun) IN
            Apply(after) /\ stun' = after.s
    BY <1>1 DEF OnLookupCompleted
  <2> DEFINE e == [discovery EXCEPT !.srv = srv, !.query = FALSE]
  <2>2. /\ discovery \in Discovery /\ discovery.query /\ discovery.delegate
        /\ discovery.request = None /\ discovery.server = None /\ discovery.state = "created"
    BY <1>1 DEF OnLookupCompleted, DiscoverySound, Resting
  <2>3. srv \in Seq(Addresses)
    <3>1. << >> \in Seq(Addresses)
      OBVIOUS
    <3> QED BY <3>1, DiscoveryAssumption DEF Addresses
  <2>4. e \in Discovery
    BY <2>2, <2>3 DEF Discovery
  <2>5. /\ e.state = "created" /\ e.delegate /\ ~e.query /\ e.server = None
        /\ e.request = None /\ e.contacted = discovery.contacted
    BY <2>2 DEF Discovery
  <2> DEFINE after == StepDiscovery(e, stun)
  <2>6. Apply(after) /\ stun' = after.s
    BY <2>1
  <2> HIDE DEF e
  <2>7. DiscoverySound(e, stun, asked) /\ Unused(stun) # {}
    BY <1>1, <2>2, <2>4, <2>5 DEF DiscoverySound, OnLookupCompleted, RequestsLeft
  <2>8. /\ DiscoverySound(after.d, after.s, AskedAfter(after.d, asked)) /\ Resting(after.d)
        /\ after.d.state \in {"created", "completed"}
        /\ after.d.request # None => after.d.request \in Unused(stun)
    BY <2>5, <2>7, StepSound
  <2> HIDE DEF after
  <2>9. asked' = AskedAfter(after.d, asked) /\ discovery' = after.d
    BY <2>2, <2>6 DEF Apply, AskedAfter
  <2> QED BY <1>1, <2>2, <2>6, <2>8, <2>9 DEF ReqInv, DiscoverySound, Moves, OnLookupCompleted
<1>2. ASSUME NEW r \in Requesters, SendRequest(r)
      PROVE  DInv' /\ Moves(discovery.state, discovery'.state)
  <2>1. /\ stun' = [stun EXCEPT !.sendPosted = @ \ {r}] /\ UNCHANGED <<answering, discovery, asked>>
    BY <1>2 DEF SendRequest
  <2>2. /\ DOMAIN stun' = DOMAIN stun /\ stun'.requester = stun.requester
        /\ stun'.registered = stun.registered /\ stun'.givingUp \subseteq Requesters
    BY <2>1 DEF ReqInv, Exact, StunShape
  <2>3. Exact(stun') /\ SameCreated(stun, stun')
    BY <2>2, PostedExact DEF ReqInv
  <2>4. DiscoverySound(discovery', stun', asked')
    BY <2>1, <2>3, OtherRequesters DEF SameCreated
  <2> QED BY <2>1, <2>3, <2>4 DEF ReqInv, Moves
<1>3. ASSUME NEW r \in Requesters, OnRequestTimedOut(r)
      PROVE  DInv' /\ Moves(discovery.state, discovery'.state)
  <2> DEFINE heard == [stun EXCEPT !.timeoutPosted = @ \ {r}]
             e == [discovery EXCEPT !.server = None, !.request = None]
  <2>1. /\ DOMAIN heard = DOMAIN stun /\ heard.requester = stun.requester
        /\ heard.registered = stun.registered /\ heard.givingUp = stun.givingUp
    BY DEF ReqInv, Exact, StunShape
  <2>2. heard.givingUp \subseteq Requesters
    BY <2>1 DEF ReqInv, Exact, StunShape
  <2>3. answering' = answering /\ Unused(stun) # {}
    BY <1>3 DEF OnRequestTimedOut, RequestsLeft
  <2>4. /\ r = discovery.request =>
             LET after == StepDiscovery(e, heard) IN Apply(after) /\ stun' = after.s
        /\ r # discovery.request => Apply([d |-> discovery, s |-> heard]) /\ stun' = heard
    BY <1>3 DEF OnRequestTimedOut
  <2> HIDE DEF heard
  <2>5. Exact(heard) /\ SameCreated(stun, heard)
    BY <2>1, <2>2, PostedExact DEF ReqInv
  <2>6. DiscoverySound(discovery, heard, asked) /\ Unused(heard) # {}
    BY <2>1, <2>3, <2>5, OtherRequesters DEF SameCreated, Unused
  <2>7. CASE r # discovery.request
    <3>1. discovery' = discovery /\ asked' = asked /\ stun' = heard
      BY <2>4, <2>7 DEF Apply
    <3> QED BY <2>3, <2>5, <2>6, <3>1 DEF ReqInv, Moves
  <2>8. CASE r = discovery.request
    <3>1. discovery \in Discovery /\ discovery.request # None
      BY <2>8, DiscoveryAssumption DEF DiscoverySound
    <3>2. /\ e \in Discovery /\ e.state = discovery.state /\ e.delegate = discovery.delegate
          /\ e.query = discovery.query /\ e.request = None /\ e.server = None
          /\ e.contacted = discovery.contacted
      BY <3>1 DEF Discovery
    <3> HIDE DEF e
    <3> DEFINE after == StepDiscovery(e, heard)
    <3>3. /\ DiscoverySound(after.d, after.s, AskedAfter(after.d, asked)) /\ Resting(after.d)
          /\ Moves(discovery.state, after.d.state)
          /\ after.d.request # None => after.d.request \in Unused(heard)
      BY <2>6, <3>1, <3>2, NextServer
    <3>4. Apply(after) /\ stun' = after.s
      BY <2>4, <2>8
    <3> HIDE DEF after
    <3>5. discovery' = after.d /\ asked' = AskedAfter(after.d, asked)
      BY <2>6, <3>3, <3>4, FreshIsNew DEF Apply
    <3> QED BY <2>3, <3>3, <3>4, <3>5 DEF ReqInv, DiscoverySound
  <2> QED BY <2>7, <2>8
<1> QED BY <1>1, <1>2, <1>3 DEF PostedCall

(* What handleSTUNRequesterResponse makes of the current request's answer. *)
LEMMA AfterResponseSound ==
  ASSUME NEW d, NEW s, NEW a, DiscoverySound(d, s, a), Resting(d), d.request # None,
         Unused(s) # {}, NEW response \in Responses,
         NEW b, LET after == AfterResponse(d, s, response) IN
                b = IF after.d.request = None \/ after.d.request = d.request THEN a
                    ELSE [a EXCEPT ![after.d.request] = after.d.server]
  PROVE  LET after == AfterResponse(d, s, response) IN
         DiscoverySound(after.d, after.s, b) /\ Resting(after.d) /\ Moves(d.state, after.d.state)
<1> DEFINE after == AfterResponse(d, s, response)
<1>0. d \in Discovery /\ d.delegate /\ d.state = "created"
  BY DEF DiscoverySound
<1>1. CASE response.kind = "malformed"
  <2>1. after = [d |-> d, s |-> s]
    BY <1>1 DEF AfterResponse
  <2> QED BY <2>1 DEF Moves
<1>2. CASE response.kind = "mapped"
  <2>1. after = [d |-> Completed(d, TRUE), s |-> s]
    BY <1>2 DEF AfterResponse
  <2> DEFINE e == Completed(d, TRUE)
  <2>2. DiscoverySound(e, s, a) /\ Resting(e) /\ e.request = None /\ e.state = "completed"
    BY <1>0, CompletedSound
  <2> HIDE DEF e
  <2>3. after.d = e /\ after.s = s
    BY <2>1 DEF e
  <2> QED BY <1>0, <2>2, <2>3 DEF Moves
<1>3. ASSUME NEW e \in Discovery, after = StepDiscovery(e, s),
             e.state = d.state, e.delegate = d.delegate, e.query = d.query, e.request = None,
             \/ e.server = None /\ e.contacted = d.contacted
             \/ /\ e.server \in Servers /\ e.server \notin d.contacted
                /\ e.contacted = d.contacted \cup {e.server}
      PROVE  DiscoverySound(after.d, after.s, b) /\ Resting(after.d) /\ Moves(d.state, after.d.state)
  <2>1. /\ DiscoverySound(after.d, after.s, AskedAfter(after.d, a)) /\ Resting(after.d)
        /\ Moves(d.state, after.d.state)
        /\ after.d.request # None => after.d.request \in Unused(s)
    BY <1>3, NextServer
  <2> HIDE DEF after
  <2>2. b = AskedAfter(after.d, a)
    BY <2>1, FreshIsNew DEF after
  <2> QED BY <2>1, <2>2 DEF after
<1>4. CASE response.kind = "alternate"
  <2> DEFINE c == Alternate(d, response.server)
             e == [c EXCEPT !.request = None]
  <2>1. /\ c \in Discovery /\ c.state = d.state /\ c.delegate = d.delegate /\ c.query = d.query
        /\ \/ c.server = None /\ c.contacted = d.contacted
           \/ /\ c.server \in Servers /\ c.server \notin d.contacted
              /\ c.contacted = d.contacted \cup {c.server}
    <3>1. CASE response.server \in Servers /\ ~Contacted(d, response.server)
      BY <1>0, <3>1 DEF Alternate, Contacted, Discovery
    <3>2. CASE ~(response.server \in Servers /\ ~Contacted(d, response.server))
      BY <1>0, <3>2 DEF Alternate, Discovery
    <3> QED BY <3>1, <3>2
  <2>2. after = StepDiscovery(e, s)
    BY <1>4 DEF AfterResponse
  <2> HIDE DEF c
  <2>3. /\ e \in Discovery /\ e.state = c.state /\ e.delegate = c.delegate /\ e.query = c.query
        /\ e.request = None /\ e.server = c.server /\ e.contacted = c.contacted
    BY <2>1 DEF Discovery
  <2> HIDE DEF e
  <2> QED BY <1>3, <2>1, <2>2, <2>3
<1>5. CASE response.kind \notin {"malformed", "mapped", "alternate"}
  <2> DEFINE e == [d EXCEPT !.server = None, !.request = None]
  <2>1. after = StepDiscovery(e, s)
    BY <1>5 DEF AfterResponse
  <2>2. /\ e \in Discovery /\ e.state = d.state /\ e.delegate = d.delegate /\ e.query = d.query
        /\ e.request = None /\ e.server = None /\ e.contacted = d.contacted
    BY <1>0 DEF Discovery
  <2> HIDE DEF e
  <2> QED BY <1>3, <2>1, <2>2
<1> QED BY <1>1, <1>2, <1>4, <1>5

LEMMA AnsweredInv ==
  ASSUME DInv, Answered
  PROVE  DInv' /\ Moves(discovery.state, discovery'.state)
<1> USE DEF DInv
<1>1. PICK response \in Responses : HandleResponse(response)
  BY DEF Answered
<1>2. answering.r \in Requesters /\ Unused(stun) # {}
  BY <1>1 DEF HandleResponse, RequestsLeft, ReqInv, Idle
<1>3. answering' = Idle \/ answering'.r \in Requesters
  BY <1>1, <1>2 DEF HandleResponse
<1>4. CASE answering.r # discovery.request
  <2>1. Apply([d |-> discovery, s |-> stun]) /\ stun' = stun
    BY <1>1, <1>4 DEF HandleResponse
  <2>2. discovery' = discovery /\ asked' = asked
    BY <2>1 DEF Apply
  <2> QED BY <1>3, <2>1, <2>2 DEF ReqInv, Moves
<1>5. CASE answering.r = discovery.request
  <2> DEFINE after == AfterResponse(discovery, stun, response)
  <2>1. Apply(after) /\ stun' = after.s
    BY <1>1, <1>5 DEF HandleResponse
  <2>2. discovery.request # None
    BY <1>2, <1>5, DiscoveryAssumption
  <2>3. asked' = IF after.d.request = None \/ after.d.request = discovery.request THEN asked
                 ELSE [asked EXCEPT ![after.d.request] = after.d.server]
    BY <2>1 DEF Apply
  <2>4. DiscoverySound(after.d, after.s, asked') /\ Resting(after.d) /\ Moves(discovery.state, after.d.state)
    BY <1>2, <2>2, <2>3, AfterResponseSound
  <2> HIDE DEF after
  <2>5. discovery' = after.d
    BY <2>1 DEF Apply
  <2> QED BY <1>3, <2>1, <2>4, <2>5 DEF ReqInv, DiscoverySound
<1> QED BY <1>4, <1>5

LEMMA DiscoveryInitInv ==
  ASSUME DiscoveryInit
  PROVE  DInv
<1>1. discovery \in Discovery
  <2>1. << >> \in Seq(Addresses)
    OBVIOUS
  <2> QED BY <2>1 DEF DiscoveryInit, Discovery
<1>2. ReqInv
  BY RequesterInitInv DEF DiscoveryInit
<1> QED BY <1>1, <1>2 DEF DiscoveryInit, DInv, ReqInv, DiscoverySound, Resting, Asked, Once

LEMMA DiscoveryStep ==
  ASSUME DInv, [DiscoveryNext]_discoveryVars
  PROVE  DInv' /\ Moves(discovery.state, discovery'.state)
<1>1. CASE UNCHANGED discoveryVars
  <2>1. stun' = stun /\ answering' = answering /\ discovery' = discovery /\ asked' = asked
    BY <1>1 DEF discoveryVars, requesterVars
  <2> QED BY <2>1 DEF DInv, ReqInv, Moves
<1> QED BY <1>1, CreateDiscoveryInv, CancelDiscoveryInv, RequestingInv, PostedInv, AnsweredInv
        DEF DiscoveryNext

(* For any requests, lookups and answers: two servers that name each other  *)
(* in TryAlternate answers, and lookups that name one twice, do not make    *)
(* the discovery ask a server again (hasContactedServerBefore).             *)
THEOREM SpecNoServerAskedTwice ==
  DiscoverySpec => []NoServerAskedTwice
<1>1. DiscoveryInit => DInv
  BY DiscoveryInitInv
<1>2. DInv /\ [DiscoveryNext]_discoveryVars => DInv'
  BY DiscoveryStep
<1>3. DInv => NoServerAskedTwice
  BY DEF DInv, DiscoverySound, Once, NoServerAskedTwice
<1> QED
  BY <1>1, <1>2, <1>3, PTL DEF DiscoverySpec

(* The discovery implements the request with one outcome: onSTUNDiscovery-  *)
(* Completed is called once, and never after cancel(), whatever answers are *)
(* still on their way to its requesters.                                    *)
THEOREM SpecOneOutcomeOnly ==
  DiscoverySpec => OneOutcomeOnly
<1> DEFINE outcome == IF discovery.state = "created" THEN "pending" ELSE discovery.state
<1>1. DiscoveryInit => DInv /\ Outcome!Init
  BY DiscoveryInitInv DEF DiscoveryInit, Outcome!Init
<1>2. DInv /\ [DiscoveryNext]_discoveryVars => DInv' /\ [Outcome!Next]_outcome
  <2> SUFFICES ASSUME DInv, [DiscoveryNext]_discoveryVars
               PROVE  DInv' /\ [Outcome!Next]_outcome
    OBVIOUS
  <2>1. DInv' /\ Moves(discovery.state, discovery'.state)
    BY DiscoveryStep
  <2> QED BY <2>1 DEF Moves, Outcome!Next, Outcome!Start, Outcome!StartAndComplete,
                      Outcome!Complete, Outcome!Cancel
<1> QED
  BY <1>1, <1>2, PTL DEF DiscoverySpec, OneOutcomeOnly, Outcome!Spec

-----------------------------------------------------------------------------
(***************************************************************************)
(* TCPMessaging: messages over TCP, for any sizes and numbers of messages. *)
(* The units that A's messages make up when they are framed are one        *)
(* sequence, the wire; what B has not cut yet, what TCP carries and what A *)
(* has queued are pieces of it that follow each other, and the buffers of  *)
(* the send stream are the messages that come after them.                  *)
(***************************************************************************)

Units == Nat \X Nat

Buffers == [left : Seq(Units), header : {"none"}]

(* The records of TransportStream that A's send stream is one of: it is not *)
(* blocked, and A is its only reader.                                       *)
SendShape(s) ==
  /\ s = [buffers |-> s.buffers, blocking |-> s.blocking, blocked |-> s.blocked,
          blockHeader |-> s.blockHeader, shutdown |-> s.shutdown,
          readerReady |-> s.readerReady, readNotified |-> s.readNotified,
          writeNotified |-> s.writeNotified, readers |-> s.readers,
          writers |-> s.writers, readerCalls |-> s.readerCalls,
          writerCalls |-> s.writerCalls]
  /\ s.buffers \in Seq(Buffers)
  /\ s.blocking = FALSE /\ s.blocked = << >> /\ s.blockHeader = "none"
  /\ s.shutdown \in BOOLEAN /\ s.readerReady \in BOOLEAN
  /\ s.readNotified \in BOOLEAN /\ s.writeNotified \in BOOLEAN
  /\ s.readers \subseteq {"reader"} /\ s.writers = {}
  /\ s.readerCalls \in [{"reader"} -> Nat] /\ s.writerCalls \in [{} -> Nat]

PeerRecords ==
  [made : BOOLEAN, init : BOOLEAN, state : States, connectIssued : BOOLEAN,
   writeReady : BOOLEAN, socket : BOOLEAN, lingering : BOOLEAN, timer : BOOLEAN]

(* The life of an object: one that was not made does nothing, one that      *)
(* shuts down lingers, and who lingers has a timer.                         *)
Living(p) ==
  /\ ~p.made => ~p.init /\ ~p.socket /\ ~p.timer /\ p.state = "Pending"
  /\ p.state = "Shutdown" => ~p.socket
  /\ p.state = "ShuttingDown" => p.lingering
  /\ p.lingering => p.timer

(* What A knows of its stream and of its socket: while it is connected, it  *)
(* will be called by the socket, or by a stream that has something for it   *)
(* and then nothing is queued.                                              *)
Pursued(p, s, queue, w) ==
  /\ s.shutdown => s.buffers = << >> /\ p.state = "Shutdown"
  /\ p.init /\ ~s.shutdown => "reader" \in s.readers
  /\ p.state = "Connected" => p.socket /\ s.readerReady
  /\ p.state = "Connected" /\ ~p.writeReady => w
  /\ p.state = "Connected" /\ p.writeReady => queue = << >>
  /\ p.state = "Connected" /\ p.writeReady /\ s.buffers # << >> /\ "reader" \in s.readers =>
       s.readerCalls["reader"] > 0

(* What B has read holds no whole message, unless that one is too large and *)
(* B ends.                                                                  *)
AllCut(p, queue) ==
  /\ p.lingering /\ ~p.init => ~p.socket
  /\ p.state \notin {"ShuttingDown", "Shutdown"} \/ ~p.init => ~FrameWaits(queue)

(* The units of a sequence after the first a, up to the b-th *)
Piece(units, a, b) == SubSeq(units, a + 1, b)

(* The units on the wire of the first n messages, and where each ends *)
IsWire(units, ends, n) ==
  /\ n \in 0..Len(sizes) /\ ends \in [0..n -> Nat] /\ ends[0] = 0
  /\ units \in Seq(Units) /\ Len(units) = ends[n]
  /\ \A i \in 1..n :
       /\ ends[i] = ends[i - 1] + 2 + sizes[i]
       /\ \A q \in 1..2 : units[ends[i - 1] + q] = <<0, sizes[i]>>
       /\ \A q \in 1..sizes[i] : units[ends[i - 1] + 2 + q] = <<i, q>>

(* Of which B has cut the first ones into messages, and holds what comes    *)
(* next up to unit x, *)
Cutting(units, ends, n, queue, got, x) ==
  /\ got \in Seq(Seq(Units)) /\ Len(got) <= n
  /\ \A i \in 1..Len(got) : got[i] = Message(i, sizes[i])
  /\ x \in ends[Len(got)]..Len(units)
  /\ queue = Piece(units, ends[Len(got)], x)

(* and A has framed the first m, and handed those up to unit y to TCP.      *)
Framing(units, ends, n, s, queue, m, y) ==
  /\ m \in 0..n /\ y \in 0..ends[m]
  /\ queue = Piece(units, y, ends[m])
  /\ m + Len(s.buffers) <= n
  /\ \A i \in 1..Len(s.buffers) : s.buffers[i].left = Message(m + i, sizes[m + i])
  /\ ~s.shutdown => m + Len(s.buffers) = n /\ n = Len(sizes)

OnTheWire ==
  \E n, m, x, y \in Nat : \E ends, units :
    /\ IsWire(units, ends, n) /\ x <= y
    /\ Cutting(units, ends, n, receivingQueue, received, x)
    /\ tcp = Piece(units, x, y)
    /\ Framing(units, ends, n, sendStream, sendingQueue, m, y)

TCPLife ==
  /\ peer \in [Peers -> PeerRecords] /\ SendShape(sendStream)
  /\ sizes \in Seq(MessageSizes) /\ Len(sizes) <= MaxMessages
  /\ writable \in BOOLEAN /\ gone \in BOOLEAN
  /\ \A e \in Peers : Living(peer[e])
  /\ Pursued(peer["A"], sendStream, sendingQueue, writable)
  /\ gone => \E e \in Peers : ~peer[e].init
  /\ ~gone => AllCut(peer["B"], receivingQueue)

TCPInv == TCPLife /\ OnTheWire

LEMMA LeastNumber ==
  ASSUME NEW S \in SUBSET Nat, S # {}
  PROVE  \E n \in S : \A m \in S : n <= m
<1>1. \E n \in S : \A m \in S : ~(<<m, n>> \in OpToRel(<, Nat))
  BY NatLessThanWellFounded, WFMin
<1>2. PICK n \in S : \A m \in S : ~(<<m, n>> \in OpToRel(<, Nat))
  BY <1>1
<1>3. ASSUME NEW m \in S PROVE n <= m
  <2>1. m \in Nat /\ n \in Nat /\ <<m, n>> \in Nat \X Nat
    OBVIOUS
  <2>2. m < n => <<m, n>> \in OpToRel(<, Nat)
    BY <2>1 DEF OpToRel
  <2>3. ~(m < n)
    BY <1>2, <2>2
  <2> QED BY <2>1, <2>3
<1> QED BY <1>3

(* What holds of one number and passes on to the next never fails.          *)
LEMMA NeverFirst ==
  ASSUME NEW lo \in Nat, NEW hi \in Nat, NEW Bad \in SUBSET (lo..hi), lo \notin Bad,
         \A n \in lo + 1 .. hi : n - 1 \notin Bad => n \notin Bad
  PROVE  Bad = {}
<1>1. SUFFICES ASSUME Bad # {} PROVE FALSE
  OBVIOUS
<1>2. PICK k \in Bad : \A m \in Bad : k <= m
  <2>1. Bad \in SUBSET Nat
    OBVIOUS
  <2> QED BY <1>1, <2>1, LeastNumber
<1>3. k \in lo + 1 .. hi
  BY <1>2
<1>4. k - 1 \notin Bad
  BY <1>2, <1>3
<1> QED BY <1>2, <1>3, <1>4

(* A function can be defined along the numbers up to n.                     *)
LEMMA StepByStep ==
  ASSUME NEW S, NEW a \in S, NEW n \in Nat, NEW h \in [1..n -> [S -> S]]
  PROVE  \E g \in [0..n -> S] : g[0] = a /\ \A i \in 1..n : g[i] = h[i][g[i - 1]]
<1> DEFINE Upto(j) == \E g \in [0..j -> S] :
                        g[0] = a /\ \A i \in 1..j : g[i] = h[i][g[i - 1]]
           bad == {j \in 0..n : ~Upto(j)}
<1>1. SUFFICES bad = {}
  <2>1. n \in 0..n
    OBVIOUS
  <2>2. bad = {} => Upto(n)
    <3> HIDE DEF Upto
    <3> QED BY <2>1
  <2> QED BY <2>2, <1>1
<1>2. Upto(0)
  <2> DEFINE f == [i \in 0..0 |-> a]
  <2>1. f \in [0..0 -> S] /\ f[0] = a /\ \A i \in 1..0 : f[i] = h[i][f[i - 1]]
    OBVIOUS
  <2> HIDE DEF f
  <2> QED BY <2>1
<1>3. SUFFICES ASSUME NEW j \in 0 + 1..n, Upto(j - 1)
               PROVE  Upto(j)
  <2> HIDE DEF Upto
  <2>1. 0 \notin bad /\ bad \in SUBSET (0..n)
    BY <1>2
  <2>2. \A j \in 0 + 1..n : j - 1 \notin bad => j \notin bad
    BY <1>3
  <2> HIDE DEF bad
  <2> QED BY <2>1, <2>2, NeverFirst
<1>4. j \in 1..n /\ j - 1 \in Nat
  OBVIOUS
<1>7. PICK g \in [0..j - 1 -> S] :
        g[0] = a /\ \A i \in 1..j - 1 : g[i] = h[i][g[i - 1]]
  BY <1>3
<1> DEFINE f == [i \in 0..j |-> IF i = j THEN h[j][g[j - 1]] ELSE g[i]]
<1>8. g[j - 1] \in S /\ g[0] = a
  BY <1>4, <1>7
<1>9. h[j][g[j - 1]] \in S
  BY <1>8
<1>10. \A i \in 0..j - 1 : i \in 0..j /\ f[i] = g[i] /\ g[i] \in S
  BY <1>4, <1>7
<1>11. f \in [0..j -> S]
  BY <1>9, <1>10, <1>4
<1>12. f[j] = h[j][f[j - 1]] /\ f[0] = a
  <2>1. 0 \in 0..j - 1 /\ j - 1 \in 0..j - 1 /\ j \in 0..j
    BY <1>4
  <2> QED BY <2>1, <1>8, <1>10
<1>13. \A i \in 1..j : f[i] = h[i][f[i - 1]]
  <2> TAKE i \in 1..j
  <2> HIDE DEF f
  <2>1. CASE i = j
    BY <2>1, <1>12
  <2>2. CASE i # j
    <3>1. i \in 1..j - 1 /\ i \in 0..j - 1 /\ i - 1 \in 0..j - 1
      BY <2>2, <1>4
    <3>2. g[i] = h[i][g[i - 1]]
      BY <3>1, <1>7
    <3>3. f[i] = g[i] /\ f[i - 1] = g[i - 1]
      BY <3>1, <1>10
    <3> QED BY <3>2, <3>3
  <2> QED BY <2>1, <2>2
<1>14. Upto(j)
  <2> HIDE DEF f
  <2> QED BY <1>11, <1>12, <1>13
<1> QED BY <1>14

LEMMA FrameUnits ==
  ASSUME NEW b, b.left \in Seq(Units)
  PROVE  /\ Frame(b) \in Seq(Units) /\ Len(Frame(b)) = 2 + Len(b.left)
         /\ \A q \in 1..2 : Frame(b)[q] = <<0, Len(b.left)>>
         /\ \A q \in 1..Len(b.left) : Frame(b)[2 + q] = b.left[q]
<1> DEFINE head == << <<0, Len(b.left)>>, <<0, Len(b.left)>> >>
<1>1. <<0, Len(b.left)>> \in Units
  BY DEF Units
<1>2. head \in Seq(Units) /\ Len(head) = 2
  BY <1>1
<1>3. Frame(b) = head \o b.left
  BY DEF Frame
<1> QED BY <1>2, <1>3

(* What is queued, buffer by buffer                                         *)
LEMMA QueueSteps ==
  ASSUME NEW s, SendShape(s), sendingQueue \in Seq(Units)
  PROVE  /\ QueueWith(s, 0) = sendingQueue
         /\ \A i \in 1..Len(s.buffers) :
              QueueWith(s, i) = QueueWith(s, i - 1) \o Frame(s.buffers[i])
<1> DEFINE L == Len(s.buffers)
           F(g) == [i \in 0..L |-> IF i = 0 THEN sendingQueue ELSE g[i - 1] \o Frame(s.buffers[i])]
           h == [i \in 1..L |-> [q \in Seq(Units) |-> q \o Frame(s.buffers[i])]]
           queue == CHOOSE g : g = F(g)
<1>1. L \in Nat /\ \A i \in 1..L : s.buffers[i].left \in Seq(Units)
  <2>1. s.buffers \in Seq(Buffers)
    BY DEF SendShape
  <2>2. L \in Nat /\ \A i \in 1..L : s.buffers[i] \in Buffers
    BY <2>1
  <2> QED BY <2>2 DEF Buffers
<1>2. \A i \in 1..L : Frame(s.buffers[i]) \in Seq(Units)
  BY <1>1, FrameUnits
<1>3. h \in [1..L -> [Seq(Units) -> Seq(Units)]]
  BY <1>2
<1>4. PICK g \in [0..L -> Seq(Units)] :
        g[0] = sendingQueue /\ \A i \in 1..L : g[i] = h[i][g[i - 1]]
  <2> DEFINE All == Seq(Units)
  <2>1. sendingQueue \in All /\ L \in Nat /\ h \in [1..L -> [All -> All]]
    BY <1>1, <1>3
  <2> HIDE DEF h, L, All, F, queue
  <2>2. \E g \in [0..L -> All] : g[0] = sendingQueue /\ \A i \in 1..L : g[i] = h[i][g[i - 1]]
    BY ONLY <2>1, StepByStep
  <2> QED BY <2>2 DEF All
<1>5. \A i \in 1..L : g[i] = g[i - 1] \o Frame(s.buffers[i])
  <2> TAKE i \in 1..L
  <2>0. i - 1 \in 0..L
    BY <1>1
  <2>1. g[i - 1] \in Seq(Units)
    BY <2>0, <1>4
  <2> QED BY <2>1, <1>4
<1>6. g = F(g)
  <2>1. g = [i \in 0..L |-> g[i]]
    OBVIOUS
  <2>2. \A i \in 0..L : g[i] = IF i = 0 THEN sendingQueue ELSE g[i - 1] \o Frame(s.buffers[i])
    <3> TAKE i \in 0..L
    <3>1. CASE i = 0
      BY <3>1, <1>4
    <3>2. CASE i # 0
      <4>1. i \in 1..L
        BY <3>2, <1>1
      <4> QED BY <4>1, <3>2, <1>5
    <3> QED BY <3>1, <3>2
  <2> HIDE DEF L
  <2> QED BY <2>1, <2>2
<1>7. queue = F(queue)
  <2> HIDE DEF F
  <2> QED BY <1>6
<1>8. \A j \in 0..L : QueueWith(s, j) = queue[j]
  BY Zenon DEF QueueWith
<1>9. \A i \in 0..L : queue[i] = IF i = 0 THEN sendingQueue
                                ELSE queue[i - 1] \o Frame(s.buffers[i])
  <2> HIDE DEF queue
  <2> QED BY <1>7
<1> HIDE DEF queue
<1>10. QueueWith(s, 0) = sendingQueue
  BY <1>1, <1>8, <1>9
<1>11. ASSUME NEW i \in 1..L
       PROVE  QueueWith(s, i) = QueueWith(s, i - 1) \o Frame(s.buffers[i])
  <2>1. i \in 0..L /\ i - 1 \in 0..L /\ i # 0
    BY <1>1
  <2> QED BY <2>1, <1>8, <1>9
<1> QED BY <1>10, <1>11

-----------------------------------------------------------------------------
(* A's send stream *)

(* What the readers' calls become *)
LEMMA PostedCalls ==
  ASSUME NEW D, NEW calls \in [D -> Nat], NEW to
  PROVE  /\ SendStream!Posted(calls, to) \in [D -> Nat]
         /\ \A x \in D : /\ SendStream!Posted(calls, to)[x] >= calls[x]
                         /\ x \in to => SendStream!Posted(calls, to)[x] > 0
BY DEF SendStream!Posted

LEMMA SendNotified ==
  ASSUME NEW s, SendShape(s), NEW afterRead \in BOOLEAN, NEW afterWrite \in BOOLEAN,
         NEW t, t = SendStream!NotifySubscribers(s, afterRead, afterWrite)
  PROVE  /\ SendShape(t)
         /\ t.buffers = s.buffers /\ t.shutdown = s.shutdown /\ t.readers = s.readers
         /\ ~afterRead => t.readerReady = s.readerReady
         /\ afterRead => t.readerReady
         /\ s.readerReady /\ afterWrite /\ s.buffers # << >> /\ "reader" \in s.readers =>
              t.readerCalls["reader"] > 0
<1> DEFINE ready       == s.readerReady \/ afterRead
           readTold    == s.readNotified /\ ~afterRead /\ ~afterWrite
           writeTold   == s.writeNotified /\ ~afterWrite
           tellReaders == s.buffers # << >> /\ ready /\ ~readTold
           tellWriters == s.buffers = << >> /\ ~writeTold
           rn == readTold \/ tellReaders
           wn == writeTold \/ tellWriters
           rc == IF tellReaders THEN SendStream!Posted(s.readerCalls, s.readers) ELSE s.readerCalls
           wc == IF tellWriters THEN SendStream!Posted(s.writerCalls, s.writers) ELSE s.writerCalls
<1>1. t = [s EXCEPT !.readerReady = ready, !.readNotified = rn, !.writeNotified = wn,
                    !.readerCalls = rc, !.writerCalls = wc]
  BY Zenon DEF SendStream!NotifySubscribers
<1>2. /\ s.readerCalls \in [{"reader"} -> Nat] /\ s.writerCalls \in [{} -> Nat]
      /\ s.readerReady \in BOOLEAN /\ s.readNotified \in BOOLEAN /\ s.writeNotified \in BOOLEAN
      /\ s.shutdown \in BOOLEAN /\ s.readers \in SUBSET {"reader"} /\ s.buffers \in Seq(Buffers)
  BY DEF SendShape
<1>3. rc \in [{"reader"} -> Nat] /\ wc \in [{} -> Nat]
  <2> HIDE DEF tellReaders, tellWriters
  <2> QED BY <1>2, PostedCalls
<1>4. tellReaders /\ "reader" \in s.readers => rc["reader"] > 0
  <2> HIDE DEF tellReaders
  <2> QED BY <1>2, PostedCalls
<1>5. s.readerReady /\ afterWrite /\ s.buffers # << >> => tellReaders
  OBVIOUS
<1>6. ready \in BOOLEAN /\ rn \in BOOLEAN /\ wn \in BOOLEAN
  BY <1>2
<1>7. (~afterRead => ready = s.readerReady) /\ (afterRead => ready)
  BY <1>2
<1> HIDE DEF tellReaders, tellWriters, ready, rn, wn, rc, wc
<1>8. t = [buffers |-> s.buffers, blocking |-> FALSE, blocked |-> s.blocked,
           blockHeader |-> s.blockHeader, shutdown |-> s.shutdown,
           readerReady |-> ready, readNotified |-> rn, writeNotified |-> wn,
           readers |-> s.readers, writers |-> {}, readerCalls |-> rc, writerCalls |-> wc]
  BY <1>1 DEF SendShape
<1>9. /\ SendShape(t)
      /\ t.buffers = s.buffers /\ t.shutdown = s.shutdown /\ t.readerReady = ready
      /\ t.readers = s.readers /\ t.readerCalls = rc
  BY <1>2, <1>3, <1>6, <1>8 DEF SendShape
<1> QED BY <1>4, <1>5, <1>7, <1>9

(* Other buffers, readiness or calls leave the rest alone. *)
LEMMA SendBuffers ==
  ASSUME NEW s, SendShape(s), NEW bs \in Seq(Buffers), NEW t, t = [s EXCEPT !.buffers = bs]
  PROVE  /\ SendShape(t) /\ t.shutdown = s.shutdown /\ t.buffers = bs
         /\ t.readers = s.readers /\ t.readerReady = s.readerReady
         /\ t.readerCalls = s.readerCalls
<1>1. t = [buffers |-> bs, blocking |-> FALSE, blocked |-> s.blocked,
           blockHeader |-> s.blockHeader, shutdown |-> s.shutdown,
           readerReady |-> s.readerReady, readNotified |-> s.readNotified,
           writeNotified |-> s.writeNotified, readers |-> s.readers, writers |-> {},
           readerCalls |-> s.readerCalls, writerCalls |-> s.writerCalls]
  BY DEF SendShape
<1> QED BY <1>1 DEF SendShape

LEMMA SendReady ==
  ASSUME NEW s, SendShape(s), NEW rr \in BOOLEAN, NEW t, t = [s EXCEPT !.readerReady = rr]
  PROVE  /\ SendShape(t) /\ t.shutdown = s.shutdown /\ t.buffers = s.buffers
         /\ t.readers = s.readers /\ t.readerReady = rr
         /\ t.readerCalls = s.readerCalls
<1>1. t = [buffers |-> s.buffers, blocking |-> FALSE, blocked |-> s.blocked,
           blockHeader |-> s.blockHeader, shutdown |-> s.shutdown,
           readerReady |-> rr, readNotified |-> s.readNotified,
           writeNotified |-> s.writeNotified, readers |-> s.readers, writers |-> {},
           readerCalls |-> s.readerCalls, writerCalls |-> s.writerCalls]
  BY DEF SendShape
<1> QED BY <1>1 DEF SendShape

LEMMA SendCalls ==
  ASSUME NEW s, SendShape(s), NEW rc \in [{"reader"} -> Nat], NEW t, t = [s EXCEPT !.readerCalls = rc]
  PROVE  /\ SendShape(t) /\ t.shutdown = s.shutdown /\ t.buffers = s.buffers
         /\ t.readers = s.readers /\ t.readerReady = s.readerReady
         /\ t.readerCalls = rc
<1>1. t = [buffers |-> s.buffers, blocking |-> FALSE, blocked |-> s.blocked,
           blockHeader |-> s.blockHeader, shutdown |-> s.shutdown,
           readerReady |-> s.readerReady, readNotified |-> s.readNotified,
           writeNotified |-> s.writeNotified, readers |-> s.readers, writers |-> {},
           readerCalls |-> rc, writerCalls |-> s.writerCalls]
  BY DEF SendShape
<1> QED BY <1>1 DEF SendShape

LEMMA SendWritten ==
  ASSUME NEW s, SendShape(s), NEW data \in Seq(Units),
         NEW t, t = SendStream!Written(s, data, "none")
  PROVE  /\ SendShape(t) /\ t.shutdown = s.shutdown /\ t.readers = s.readers
         /\ t.readerReady = s.readerReady
         /\ s.shutdown => t = s
         /\ ~s.shutdown => t.buffers = Append(s.buffers, [left |-> data, header |-> "none"])
         /\ ~s.shutdown /\ s.readerReady /\ "reader" \in s.readers => t.readerCalls["reader"] > 0
<1>1. CASE s.shutdown
  BY <1>1 DEF SendStream!Written
<1>2. CASE ~s.shutdown
  <2> DEFINE bs == Append(s.buffers, [left |-> data, header |-> "none"])
             u  == [s EXCEPT !.buffers = bs]
  <2>1. s.blocking = FALSE /\ s.buffers \in Seq(Buffers)
    BY DEF SendShape
  <2>2. t = SendStream!NotifySubscribers(u, FALSE, TRUE)
    BY <1>2, <2>1 DEF SendStream!Written, SendStream!Push
  <2>3. [left |-> data, header |-> "none"] \in Buffers
    BY DEF Buffers
  <2>4. bs \in Seq(Buffers) /\ bs # << >>
    BY <2>1, <2>3
  <2> HIDE DEF bs
  <2>5. /\ SendShape(u) /\ u.buffers = bs /\ u.shutdown = s.shutdown
        /\ u.readers = s.readers /\ u.readerReady = s.readerReady
    BY <2>4, SendBuffers
  <2>6. s.readerReady \in BOOLEAN
    BY DEF SendShape
  <2> HIDE DEF u
  <2>7. /\ SendShape(t)
        /\ t.buffers = u.buffers /\ t.shutdown = u.shutdown /\ t.readers = u.readers
        /\ t.readerReady = u.readerReady
        /\ u.readerReady /\ u.buffers # << >> /\ "reader" \in u.readers =>
             t.readerCalls["reader"] > 0
    BY <2>2, <2>5, SendNotified
  <2>8. t.readerReady = s.readerReady
    BY <2>5, <2>6, <2>7
  <2>9. t.buffers = Append(s.buffers, [left |-> data, header |-> "none"])
    BY <2>5, <2>7 DEF bs
  <2> QED BY <1>2, <2>4, <2>5, <2>7, <2>8, <2>9
<1> QED BY <1>1, <1>2

LEMMA SendAsked ==
  ASSUME NEW s, SendShape(s), NEW t, t = SendStream!ReaderReady(s)
  PROVE  /\ SendShape(t) /\ t.shutdown = s.shutdown /\ t.readers = s.readers
         /\ t.buffers = s.buffers /\ (~s.shutdown => t.readerReady)
<1>1. CASE s.shutdown
  BY <1>1 DEF SendStream!ReaderReady
<1>2. CASE ~s.shutdown
  <2> DEFINE yes == TRUE
             u == [s EXCEPT !.readerReady = yes]
  <2>1. t = SendStream!NotifySubscribers(u, FALSE, FALSE)
    BY <1>2 DEF SendStream!ReaderReady
  <2>2. yes \in BOOLEAN /\ yes
    OBVIOUS
  <2> HIDE DEF yes
  <2>3. /\ SendShape(u) /\ u.buffers = s.buffers /\ u.shutdown = s.shutdown
        /\ u.readers = s.readers /\ u.readerReady = yes
    BY <2>2, SendReady
  <2> HIDE DEF u
  <2>4. /\ SendShape(t)
        /\ t.buffers = u.buffers /\ t.shutdown = u.shutdown /\ t.readers = u.readers
        /\ t.readerReady = u.readerReady
    BY <2>1, <2>3, SendNotified
  <2> QED BY <2>2, <2>3, <2>4
<1> QED BY <1>1, <1>2

LEMMA SendCalled ==
  ASSUME NEW s, SendShape(s), s.readerCalls["reader"] > 0,
         NEW t, t = SendStream!Called(s, "reader")
  PROVE  /\ SendShape(t) /\ t.shutdown = s.shutdown /\ t.readers = s.readers
         /\ t.buffers = s.buffers /\ t.readerReady = s.readerReady
<1> DEFINE rc == [s.readerCalls EXCEPT !["reader"] = @ - 1]
<1>1. s.readerCalls \in [{"reader"} -> Nat]
  BY DEF SendShape
<1>2. rc \in [{"reader"} -> Nat]
  BY <1>1
<1>3. t = [s EXCEPT !.readerCalls = rc]
  BY DEF SendStream!Called, SendShape
<1> HIDE DEF rc
<1> QED BY <1>2, <1>3, SendCalls

LEMMA SendSubscribed ==
  ASSUME NEW s, SendShape(s), NEW t, t = SendStream!WithReader(s, "reader")
  PROVE  /\ SendShape(t) /\ t.shutdown = s.shutdown
         /\ t.buffers = s.buffers /\ t.readerReady = s.readerReady
         /\ s.shutdown => t = s
         /\ ~s.shutdown => "reader" \in t.readers
         /\ ~s.shutdown /\ s.buffers # << >> /\ s.readerReady => t.readerCalls["reader"] > 0
<1>1. CASE s.shutdown
  BY <1>1 DEF SendStream!WithReader
<1>2. CASE ~s.shutdown
  <2> DEFINE rs == s.readers \cup {"reader"}
             tell == s.buffers # << >> /\ s.readerReady
             rc == IF tell THEN SendStream!Posted(s.readerCalls, {"reader"}) ELSE s.readerCalls
  <2>1. s.readerCalls \in [{"reader"} -> Nat] /\ s.readers \in SUBSET {"reader"}
    BY DEF SendShape
  <2>2. rs \in SUBSET {"reader"} /\ "reader" \in rs
    BY <2>1
  <2>3. rc \in [{"reader"} -> Nat] /\ (tell => rc["reader"] > 0)
    <3> HIDE DEF tell
    <3> QED BY <2>1, PostedCalls
  <2>4. t = [s EXCEPT !.readers = rs, !.readerCalls = rc]
    BY <1>2 DEF SendStream!WithReader, SendShape
  <2> HIDE DEF rs, rc, tell
  <2>5. t = [buffers |-> s.buffers, blocking |-> FALSE, blocked |-> s.blocked,
             blockHeader |-> s.blockHeader, shutdown |-> s.shutdown,
             readerReady |-> s.readerReady, readNotified |-> s.readNotified,
             writeNotified |-> s.writeNotified, readers |-> rs, writers |-> {},
             readerCalls |-> rc, writerCalls |-> s.writerCalls]
    BY <2>4 DEF SendShape
  <2>6. /\ SendShape(t) /\ t.buffers = s.buffers /\ t.shutdown = s.shutdown
        /\ t.readers = rs /\ t.readerReady = s.readerReady /\ t.readerCalls = rc
    BY <2>2, <2>3, <2>5 DEF SendShape
  <2> QED BY <1>2, <2>2, <2>3, <2>6 DEF tell
<1> QED BY <1>1, <1>2

LEMMA SendTaken ==
  ASSUME NEW s, SendShape(s), NEW t, t = SendStream!AfterReadNext(s)
  PROVE  /\ SendShape(t) /\ t.shutdown = s.shutdown /\ t.readers = s.readers
         /\ s.readerReady => t.readerReady
         /\ t.buffers = IF s.shutdown \/ s.buffers = << >> THEN s.buffers ELSE Tail(s.buffers)
<1>1. CASE s.shutdown \/ s.buffers = << >>
  BY <1>1 DEF SendStream!AfterReadNext
<1>2. CASE ~(s.shutdown \/ s.buffers = << >>)
  <2> DEFINE bs == Tail(s.buffers)
             u  == [s EXCEPT !.buffers = bs]
  <2>1. t = SendStream!NotifySubscribers(u, TRUE, FALSE)
    BY <1>2 DEF SendStream!AfterReadNext, SendShape
  <2>2. bs \in Seq(Buffers)
    BY <1>2 DEF SendShape
  <2> HIDE DEF bs
  <2>3. /\ SendShape(u) /\ u.buffers = bs /\ u.shutdown = s.shutdown
        /\ u.readers = s.readers /\ u.readerReady = s.readerReady
    BY <2>2, SendBuffers
  <2> HIDE DEF u
  <2>4. /\ SendShape(t)
        /\ t.buffers = u.buffers /\ t.shutdown = u.shutdown /\ t.readers = u.readers
        /\ t.readerReady
    BY <2>1, <2>3, SendNotified
  <2> QED BY <1>2, <2>3, <2>4 DEF bs
<1> QED BY <1>1, <1>2

LEMMA SendCancelled ==
  ASSUME NEW s, SendShape(s), NEW t, t = SendStream!CancelledStream(s)
  PROVE  SendShape(t) /\ t.shutdown /\ t.buffers = << >>
<1> DEFINE yes == TRUE
           none == << >>
           nobody == {}
<1>1. /\ none \in Seq(Buffers) /\ yes \in BOOLEAN /\ nobody \in SUBSET {"reader"}
      /\ s.readerCalls \in [{"reader"} -> Nat] /\ s.writerCalls \in [{} -> Nat]
      /\ s.readerReady \in BOOLEAN /\ s.readNotified \in BOOLEAN /\ s.writeNotified \in BOOLEAN
  BY DEF SendShape
<1>2. t = [s EXCEPT !.shutdown = yes, !.readers = nobody, !.writers = nobody, !.buffers = none]
  BY DEF SendStream!CancelledStream
<1> HIDE DEF yes, none
<1>3. t = [buffers |-> none, blocking |-> FALSE, blocked |-> s.blocked,
           blockHeader |-> s.blockHeader, shutdown |-> yes,
           readerReady |-> s.readerReady, readNotified |-> s.readNotified,
           writeNotified |-> s.writeNotified, readers |-> nobody, writers |-> {},
           readerCalls |-> s.readerCalls, writerCalls |-> s.writerCalls]
  BY <1>2 DEF SendShape
<1>4. SendShape(t) /\ t.buffers = none /\ t.shutdown = yes
  BY <1>1, <1>3 DEF SendShape
<1> QED BY <1>4 DEF yes, none

LEMMA SendNew ==
  /\ SendShape(SendStream!NewStream)
  /\ SendStream!NewStream.buffers = << >> /\ ~SendStream!NewStream.shutdown
<1> DEFINE no == FALSE
           none == << >>
           rc == [r \in {"reader"} |-> 0]
           wc == [w \in {} |-> 0]
           t == SendStream!NewStream
<1>1. /\ none \in Seq(Buffers) /\ no \in BOOLEAN /\ {} \in SUBSET {"reader"}
      /\ rc \in [{"reader"} -> Nat] /\ wc \in [{} -> Nat]
  OBVIOUS
<1>2. t = [buffers |-> none, blocking |-> FALSE, blocked |-> << >>, blockHeader |-> "none",
           shutdown |-> no, readerReady |-> no, readNotified |-> no, writeNotified |-> no,
           readers |-> {}, writers |-> {}, readerCalls |-> rc, writerCalls |-> wc]
  BY DEF SendStream!NewStream
<1> HIDE DEF no, none, rc, wc, t
<1>3. SendShape(t) /\ t.buffers = none /\ t.shutdown = no
  BY <1>1, <1>2 DEF SendShape
<1> QED BY <1>3 DEF no, none, t

-----------------------------------------------------------------------------
(* Pieces of a sequence *)

LEMMA PieceUnits ==
  ASSUME NEW S, NEW w \in Seq(S), NEW a \in Nat, NEW b \in Nat, a <= b, b <= Len(w)
  PROVE  /\ Piece(w, a, b) \in Seq(S) /\ Len(Piece(w, a, b)) = b - a
         /\ \A i \in 1..b - a : Piece(w, a, b)[i] = w[a + i]
<1>1. \A i \in a + 1 .. b : w[i] \in S
  BY ElementOfSeq
<1>2. /\ SubSeq(w, a + 1, b) \in Seq(S)
      /\ Len(SubSeq(w, a + 1, b)) = IF a + 1 <= b THEN b - (a + 1) + 1 ELSE 0
      /\ \A i \in 1..b - (a + 1) + 1 : SubSeq(w, a + 1, b)[i] = w[a + 1 + i - 1]
  BY <1>1, SubSeqProperties
<1> DEFINE p == SubSeq(w, a + 1, b)
           d == b - a
<1>3. d \in Nat /\ b - (a + 1) + 1 = d /\ (IF a + 1 <= b THEN d ELSE 0) = d
      /\ \A i \in 1..d : a + 1 + i - 1 = a + i
  OBVIOUS
<1>4. p \in Seq(S) /\ Len(p) = d /\ \A i \in 1..d : p[i] = w[a + 1 + i - 1]
  <2> HIDE DEF p, d
  <2>1. Len(p) = (IF a + 1 <= b THEN d ELSE 0) /\ \A i \in 1..d : p[i] = w[a + 1 + i - 1]
    BY <1>2, <1>3 DEF p
  <2> QED BY <1>2, <1>3, <2>1 DEF p
<1> HIDE DEF p, d
<1>5. \A i \in 1..d : p[i] = w[a + i]
  BY <1>3, <1>4
<1> QED BY <1>4, <1>5 DEF Piece, p, d

LEMMA PiecesMeet ==
  ASSUME NEW S, NEW w \in Seq(S), NEW a \in Nat, NEW b \in Nat, NEW c \in Nat,
         a <= b, b <= c, c <= Len(w)
  PROVE  Piece(w, a, b) \o Piece(w, b, c) = Piece(w, a, c)
<1> DEFINE p == Piece(w, a, b)
           q == Piece(w, b, c)
           r == Piece(w, a, c)
<1>0. a <= c /\ b <= Len(w)
  BY LenProperties
<1>1. /\ p \in Seq(S) /\ Len(p) = b - a /\ \A i \in 1..b - a : p[i] = w[a + i]
  BY <1>0, PieceUnits
<1>2. /\ q \in Seq(S) /\ Len(q) = c - b /\ \A i \in 1..c - b : q[i] = w[b + i]
  BY PieceUnits
<1>3. /\ r \in Seq(S) /\ Len(r) = c - a /\ \A i \in 1..c - a : r[i] = w[a + i]
  BY <1>0, PieceUnits
<1> HIDE DEF p, q, r
<1>4. /\ p \o q \in Seq(S) /\ Len(p \o q) = c - a
      /\ \A i \in 1..c - a : (p \o q)[i] = IF i <= b - a THEN p[i] ELSE q[i - (b - a)]
  BY <1>1, <1>2, ConcatProperties
<1>5. ASSUME NEW i \in 1..c - a PROVE (p \o q)[i] = r[i]
  <2>1. CASE i <= b - a
    BY <2>1, <1>1, <1>3, <1>4
  <2>2. CASE ~(i <= b - a)
    <3>1. i - (b - a) \in 1..c - b /\ b + (i - (b - a)) = a + i
      BY <2>2
    <3> QED BY <2>2, <3>1, <1>2, <1>3, <1>4
  <2> QED BY <2>1, <2>2
<1>6. p \o q = r
  BY <1>3, <1>4, <1>5, SeqEqual
<1> QED BY <1>6 DEF p, q, r

LEMMA PieceOfPiece ==
  ASSUME NEW S, NEW w \in Seq(S), NEW a \in Nat, NEW b \in Nat, a <= b, b <= Len(w),
         NEW i \in Nat, NEW j \in Nat, i <= j, j <= b - a
  PROVE  Piece(Piece(w, a, b), i, j) = Piece(w, a + i, a + j)
<1> DEFINE p == Piece(w, a, b)
           q == Piece(p, i, j)
           r == Piece(w, a + i, a + j)
<1>1. /\ p \in Seq(S) /\ Len(p) = b - a /\ \A k \in 1..b - a : p[k] = w[a + k]
  BY PieceUnits
<1>2. /\ r \in Seq(S) /\ Len(r) = j - i /\ \A k \in 1..j - i : r[k] = w[a + i + k]
  <2> DEFINE c == a + i
             d == a + j
  <2>1. c \in Nat /\ d \in Nat /\ c <= d /\ d <= Len(w) /\ d - c = j - i
    <3>1. Len(w) \in Nat
      BY LenProperties
    <3> QED BY <3>1
  <2> HIDE DEF c, d
  <2>2. /\ Piece(w, c, d) \in Seq(S) /\ Len(Piece(w, c, d)) = d - c
        /\ \A k \in 1..d - c : Piece(w, c, d)[k] = w[c + k]
    BY <2>1, PieceUnits
  <2> QED BY <2>1, <2>2 DEF c, d
<1> HIDE DEF p
<1>0. j <= Len(p)
  BY <1>1
<1>3. /\ q \in Seq(S) /\ Len(q) = j - i /\ \A k \in 1..j - i : q[k] = p[i + k]
  <2>1. p \in Seq(S) /\ i \in Nat /\ j \in Nat /\ i <= j /\ j <= Len(p)
    BY <1>0, <1>1
  <2> QED BY <2>1, PieceUnits, Zenon
<1> HIDE DEF q, r
<1>4. \A k \in 1..j - i : q[k] = r[k]
  <2> TAKE k \in 1..j - i
  <2>1. i + k \in 1..b - a /\ a + (i + k) = a + i + k
    OBVIOUS
  <2> QED BY <2>1, <1>1, <1>2, <1>3
<1>5. q = r
  BY <1>2, <1>3, <1>4, SeqEqual
<1> QED BY <1>5 DEF p, q, r

LEMMA PieceOfLonger ==
  ASSUME NEW S, NEW w \in Seq(S), NEW v \in Seq(S),
         NEW a \in Nat, NEW b \in Nat, a <= b, b <= Len(w)
  PROVE  Piece(w \o v, a, b) = Piece(w, a, b)
<1> DEFINE p == Piece(w, a, b)
           q == Piece(w \o v, a, b)
<1>1. Len(w) \in Nat /\ Len(v) \in Nat
  BY LenProperties
<1>2. w \o v \in Seq(S) /\ b <= Len(w \o v) /\ \A i \in 1..Len(w) : (w \o v)[i] = w[i]
  BY <1>1, ConcatProperties
<1>3. p \in Seq(S) /\ Len(p) = b - a /\ \A i \in 1..b - a : p[i] = w[a + i]
  BY PieceUnits
<1>4. q \in Seq(S) /\ Len(q) = b - a /\ \A i \in 1..b - a : q[i] = (w \o v)[a + i]
  <2> DEFINE z == w \o v
  <2>1. z \in Seq(S) /\ b <= Len(z)
    BY <1>2
  <2> HIDE DEF z
  <2>2. /\ Piece(z, a, b) \in Seq(S) /\ Len(Piece(z, a, b)) = b - a
        /\ \A i \in 1..b - a : Piece(z, a, b)[i] = z[a + i]
    BY <2>1, PieceUnits
  <2> QED BY <2>2 DEF z
<1> HIDE DEF p, q
<1>5. \A i \in 1..b - a : p[i] = q[i]
  <2> TAKE i \in 1..b - a
  <2>1. a + i \in 1..Len(w)
    BY <1>1
  <2> QED BY <2>1, <1>2, <1>3, <1>4
<1>6. p = q
  BY <1>3, <1>4, <1>5, SeqEqual
<1> QED BY <1>6 DEF p, q

(* An empty piece, and the last one *)
LEMMA NoPiece ==
  ASSUME NEW S, NEW w \in Seq(S), NEW a \in Nat, a <= Len(w)
  PROVE  Piece(w, a, a) = << >>
BY PieceUnits, EmptySeq

LEMMA LastPiece ==
  ASSUME NEW S, NEW w \in Seq(S), NEW v \in Seq(S)
  PROVE  Piece(w \o v, Len(w), Len(w) + Len(v)) = v
<1> DEFINE a == Len(w)
           b == Len(w) + Len(v)
           q == Piece(w \o v, a, b)
<1>1. Len(w) \in Nat /\ Len(v) \in Nat
  BY LenProperties
<1>2. w \o v \in Seq(S) /\ b = Len(w \o v)
      /\ \A i \in 1..Len(v) : (w \o v)[a + i] = v[i]
  <2>1. /\ w \o v \in Seq(S) /\ Len(w \o v) = Len(w) + Len(v)
        /\ \A i \in 1..Len(w) + Len(v) :
             (w \o v)[i] = IF i <= Len(w) THEN w[i] ELSE v[i - Len(w)]
    BY ConcatProperties
  <2>2. ASSUME NEW i \in 1..Len(v) PROVE (w \o v)[a + i] = v[i]
    <3>1. a + i \in 1..Len(w) + Len(v) /\ ~(a + i <= Len(w)) /\ a + i - Len(w) = i
      BY <1>1
    <3> QED BY <2>1, <3>1
  <2> QED BY <2>1, <2>2
<1>3. a \in Nat /\ b \in Nat /\ a <= b /\ b - a = Len(v)
  BY <1>1
<1> HIDE DEF a, b
<1>4. q \in Seq(S) /\ Len(q) = b - a /\ \A i \in 1..b - a : q[i] = (w \o v)[a + i]
  <2> DEFINE z == w \o v
  <2>1. z \in Seq(S) /\ b <= Len(z)
    BY <1>2, <1>3
  <2> HIDE DEF z
  <2>2. /\ Piece(z, a, b) \in Seq(S) /\ Len(Piece(z, a, b)) = b - a
        /\ \A i \in 1..b - a : Piece(z, a, b)[i] = z[a + i]
    BY <2>1, <1>3, PieceUnits
  <2> QED BY <2>2 DEF z
<1> HIDE DEF q
<1>5. q = v
  BY <1>2, <1>3, <1>4, SeqEqual
<1> QED BY <1>5 DEF q, a, b

-----------------------------------------------------------------------------
(* Receiving *)

LEMMA WireOf ==
  ASSUME sizes \in Seq(Nat), NEW units, NEW ends, NEW n, IsWire(units, ends, n)
  PROVE  /\ n \in Nat /\ Len(sizes) \in Nat /\ n <= Len(sizes)
         /\ units \in Seq(Units) /\ Len(units) \in Nat
         /\ ends \in [0..n -> Nat] /\ ends[0] = 0 /\ ends[n] = Len(units)
         /\ \A i \in 1..n :
              /\ ends[i] = ends[i - 1] + 2 + sizes[i] /\ sizes[i] \in Nat
              /\ \A q \in 1..2 : units[ends[i - 1] + q] = <<0, sizes[i]>>
              /\ \A q \in 1..sizes[i] : units[ends[i - 1] + 2 + q] = <<i, q>>
<1>1. Len(sizes) \in Nat
  BY LenProperties
<1>2. n \in 0..Len(sizes) /\ units \in Seq(Units) /\ ends \in [0..n -> Nat]
  BY DEF IsWire
<1>3. n \in Nat /\ n <= Len(sizes) /\ Len(units) \in Nat
  BY <1>1, <1>2, LenProperties
<1>4. ASSUME NEW i \in 1..n PROVE sizes[i] \in Nat
  <2>1. i \in 1..Len(sizes)
    BY <1>1, <1>3
  <2> QED BY <2>1, ElementOfSeq
<1> QED BY <1>1, <1>2, <1>3, <1>4 DEF IsWire

LEMMA EndsGrow ==
  ASSUME sizes \in Seq(Nat), NEW units, NEW ends, NEW n, IsWire(units, ends, n),
         NEW i \in 0..n, NEW j \in i..n
  PROVE  /\ n \in Nat /\ i \in Nat /\ j \in 0..n /\ ends[i] \in Nat /\ ends[j] \in Nat
         /\ ends[i] <= ends[j] /\ ends[j] <= Len(units) /\ Len(units) \in Nat
         /\ i < j => ends[i] + 2 <= ends[j]
<1>1. /\ n \in Nat /\ n <= Len(sizes) /\ ends \in [0..n -> Nat] /\ Len(units) = ends[n]
      /\ \A k \in 1..n : ends[k] = ends[k - 1] + 2 + sizes[k] /\ sizes[k] \in Nat
  BY WireOf, SMTT(20)
<1>2. ASSUME NEW lo \in 0..n PROVE \A hi \in lo..n : ends[lo] <= ends[hi]
  <2> DEFINE bad == {hi \in lo..n : ~(ends[lo] <= ends[hi])}
  <2>1. lo \in Nat /\ bad \in SUBSET (lo..n)
    BY <1>1
  <2>2. lo \notin bad
    BY <1>1
  <2>3. ASSUME NEW k \in lo + 1..n, k - 1 \notin bad PROVE k \notin bad
    <3>1. k \in 1..n /\ k - 1 \in lo..n /\ k - 1 \in 0..n
      BY <1>1
    <3>2. ends[lo] <= ends[k - 1]
      BY <2>3, <3>1
    <3>3. /\ ends[k] = ends[k - 1] + 2 + sizes[k] /\ sizes[k] \in Nat
          /\ ends[k - 1] \in Nat /\ ends[lo] \in Nat
      BY <1>1, <3>1
    <3>4. ends[lo] <= ends[k]
      BY <3>2, <3>3
    <3> QED BY <3>4
  <2> HIDE DEF bad
  <2>4. bad = {}
    BY <1>1, <2>1, <2>2, <2>3, NeverFirst
  <2> QED BY <2>4 DEF bad
<1>3. /\ i \in Nat /\ j \in 0..n /\ n \in j..n /\ j \in i..n
      /\ ends[i] \in Nat /\ ends[j] \in Nat /\ ends[n] \in Nat
  BY <1>1
<1>4. ends[i] <= ends[j] /\ ends[j] <= ends[n]
  BY <1>2, <1>3
<1>5. ASSUME i < j PROVE ends[i] + 2 <= ends[j]
  <2>1. i + 1 \in 1..n /\ i + 1 \in 0..n /\ j \in i + 1..n /\ (i + 1) - 1 = i
    BY <1>1, <1>3, <1>5
  <2>2. ends[i + 1] = ends[i] + 2 + sizes[i + 1] /\ sizes[i + 1] \in Nat
    BY <1>1, <2>1
  <2>3. ends[i + 1] <= ends[j] /\ ends[i + 1] \in Nat
    BY <1>1, <1>2, <2>1
  <2> DEFINE e == ends[i]
             f == ends[i + 1]
             g == ends[j]
             size == sizes[i + 1]
  <2>4. e \in Nat /\ f \in Nat /\ g \in Nat /\ size \in Nat /\ f = e + 2 + size /\ f <= g
    BY <1>3, <2>2, <2>3, Zenon
  <2> HIDE DEF e, f, g, size
  <2>5. e + 2 <= g
    BY ONLY <2>4
  <2> QED BY <2>5 DEF e, g
<1> QED BY <1>1, <1>3, <1>4, <1>5

(* What B holds of the wire starts with the size of the next message. *)
LEMMA NextFrame ==
  ASSUME sizes \in Seq(Nat), NEW units, NEW ends, NEW n, IsWire(units, ends, n),
         NEW queue, NEW got, NEW x, Cutting(units, ends, n, queue, got, x)
  PROVE  /\ queue \in Seq(Units) /\ Len(got) \in 0..n /\ x \in Nat /\ x <= Len(units)
         /\ ends[Len(got)] \in Nat /\ Len(queue) = x - ends[Len(got)]
         /\ x >= ends[Len(got)]
         /\ \A i \in 1..Len(queue) : queue[i] = units[ends[Len(got)] + i]
         /\ Len(got) = n => queue = << >>
         /\ Len(queue) >= 2 =>
              /\ Len(got) + 1 \in 1..n
              /\ queue[1][2] = sizes[Len(got) + 1] /\ sizes[Len(got) + 1] \in Nat
              /\ ends[Len(got) + 1] = ends[Len(got)] + 2 + sizes[Len(got) + 1]
<1> DEFINE k == Len(got)
<1>1. /\ n \in Nat /\ n <= Len(sizes) /\ Len(sizes) \in Nat
      /\ ends \in [0..n -> Nat] /\ ends[n] = Len(units) /\ units \in Seq(Units)
      /\ Len(units) \in Nat
      /\ \A i \in 1..n : /\ ends[i] = ends[i - 1] + 2 + sizes[i] /\ sizes[i] \in Nat
                         /\ \A q \in 1..2 : units[ends[i - 1] + q] = <<0, sizes[i]>>
  <2>1. \A i \in 1..n : /\ ends[i] = ends[i - 1] + 2 + sizes[i] /\ sizes[i] \in Nat
                        /\ \A q \in 1..2 : units[ends[i - 1] + q] = <<0, sizes[i]>>
    <3> TAKE i \in 1..n
    <3>1. ends[i] = ends[i - 1] + 2 + sizes[i] /\ sizes[i] \in Nat
      BY WireOf
    <3>2. \A q \in 1..2 : units[ends[i - 1] + q] = <<0, sizes[i]>>
      BY DEF IsWire
    <3> QED BY <3>1, <3>2
  <2>2. /\ n \in Nat /\ n <= Len(sizes) /\ Len(sizes) \in Nat
        /\ ends \in [0..n -> Nat] /\ ends[n] = Len(units) /\ units \in Seq(Units)
        /\ Len(units) \in Nat
    BY WireOf
  <2> QED BY <2>1, <2>2
<1>2. k \in 0..n /\ x \in ends[k]..Len(units) /\ queue = Piece(units, ends[k], x)
  BY <1>1, LenProperties DEF Cutting
<1>3. ends[k] \in Nat /\ x \in Nat /\ ends[k] <= x /\ x <= Len(units)
  BY <1>1, <1>2
<1> HIDE DEF k
<1>4. /\ queue \in Seq(Units) /\ Len(queue) = x - ends[k]
      /\ \A i \in 1..x - ends[k] : queue[i] = units[ends[k] + i]
  <2> DEFINE e == ends[k]
  <2> HIDE DEF e
  <2>1. e \in Nat /\ e <= x /\ x \in Nat /\ x <= Len(units) /\ queue = Piece(units, e, x)
    BY <1>2, <1>3 DEF e
  <2>2. /\ Piece(units, e, x) \in Seq(Units) /\ Len(Piece(units, e, x)) = x - e
        /\ \A i \in 1..x - e : Piece(units, e, x)[i] = units[e + i]
    <3>1. units \in Seq(Units)
      BY <1>1
    <3> QED BY <2>1, <3>1, PieceUnits
  <2> QED BY <2>1, <2>2 DEF e
<1>5. k = n => queue = << >>
  <2> SUFFICES ASSUME k = n PROVE queue = << >>
    OBVIOUS
  <2>1. Len(queue) = 0
    BY <1>1, <1>3, <1>4
  <2> QED BY <2>1, <1>4, EmptySeq
<1>6. ASSUME Len(queue) >= 2
      PROVE  /\ k + 1 \in 1..n /\ queue[1][2] = sizes[k + 1] /\ sizes[k + 1] \in Nat
             /\ ends[k + 1] = ends[k] + 2 + sizes[k + 1]
  <2>1. k # n
    BY <1>1, <1>3, <1>4, <1>6
  <2>2. k + 1 \in 1..n /\ (k + 1) - 1 = k /\ sizes[k + 1] \in Nat
    BY <1>1, <1>2, <2>1
  <2>3. units[ends[k] + 1] = <<0, sizes[k + 1]>> /\ ends[k + 1] = ends[k] + 2 + sizes[k + 1]
    <3>1. 1 \in 1..2
      OBVIOUS
    <3>2. /\ ends[k + 1] = ends[(k + 1) - 1] + 2 + sizes[k + 1]
          /\ units[ends[(k + 1) - 1] + 1] = <<0, sizes[k + 1]>>
      BY <1>1, <2>2, <3>1, Zenon
    <3> QED BY <2>2, <3>2
  <2>4. queue[1] = units[ends[k] + 1]
    BY <1>3, <1>4, <1>6
  <2> QED BY <2>2, <2>3, <2>4
<1>7. k \in 0..n /\ \A i \in 1..Len(queue) : queue[i] = units[ends[k] + i]
  BY <1>2, <1>4
<1> QED BY <1>3, <1>4, <1>5, <1>6, <1>7 DEF k

(* One turn of the loop cuts the next message, if it is there in full and   *)
(* not too large.                                                           *)
LEMMA ParsedCuts ==
  ASSUME sizes \in Seq(Nat), NEW units, NEW ends, NEW n, IsWire(units, ends, n),
         NEW r, NEW x, Cutting(units, ends, n, r.queue, r.got, x)
  PROVE  /\ Cutting(units, ends, n, Parsed(r).queue, Parsed(r).got, x)
         /\ ~FrameWaits(r.queue) \/ TooLarge(r.queue) => Parsed(r) = r
         /\ FrameWaits(r.queue) /\ ~TooLarge(r.queue) =>
              Len(Parsed(r).got) = Len(r.got) + 1
<1> DEFINE g == r.got
           q == r.queue
           k == Len(g)
           z == q[1][2]
<1>7. Cutting(units, ends, n, q, g, x)
  OBVIOUS
<1> HIDE DEF g, q
<1>1. MaxMessageSize \in Nat
  BY TCPMessagingAssumption
<1>2. /\ q \in Seq(Units) /\ k \in 0..n /\ x \in Nat /\ x <= Len(units)
      /\ ends[k] \in Nat /\ Len(q) = x - ends[k] /\ x >= ends[k]
      /\ \A i \in 1..Len(q) : q[i] = units[ends[k] + i]
      /\ Len(q) >= 2 => /\ k + 1 \in 1..n /\ z = sizes[k + 1] /\ z \in Nat
                        /\ ends[k + 1] = ends[k] + 2 + z
  BY <1>7, NextFrame, SMTT(20)
<1>5. Len(q) \in Nat /\ k \in Nat
  BY <1>2, WireOf, LenProperties
<1> HIDE DEF k, z
<1>6. /\ x \in Nat /\ ends[k] \in Nat /\ Len(q) = x - ends[k] /\ x >= ends[k] /\ x <= Len(units)
      /\ Len(q) \in Nat /\ k \in Nat
  BY <1>2, <1>5, Zenon
<1>3. CASE ~FrameWaits(q) \/ TooLarge(q)
  <2>1. Parsed(r) = r
    <3> USE DEF q
    <3>1. CASE ~FrameWaits(q)
      BY <3>1 DEF Parsed
    <3>2. CASE FrameWaits(q) /\ TooLarge(q)
      BY <3>2 DEF Parsed, TooLarge
    <3> QED BY <3>1, <3>2, <1>3
  <2> QED BY <2>1, <1>3 DEF q
<1>4. CASE FrameWaits(q) /\ ~TooLarge(q)
  <2>1. Len(q) >= 2 /\ Len(q) >= 2 + z /\ ~(z > MaxMessageSize)
    BY <1>4 DEF FrameWaits, TooLarge, z
  <2>2. /\ k + 1 \in 1..n /\ z = sizes[k + 1] /\ z \in Nat /\ ends[k + 1] = ends[k] + 2 + z
    BY <1>2, <2>1
  <2>16. /\ z \in Nat /\ ends[k] \in Nat /\ ends[k + 1] = ends[k] + 2 + z /\ x \in Nat
         /\ Len(q) >= 2 + z /\ Len(q) \in Nat /\ Len(q) = x - ends[k]
    BY <1>6, <2>1, <2>2, Zenon
  <2> DEFINE rest == SubSeq(q, 3 + z, Len(q))
             next == SubSeq(q, 3, 2 + z)
  <2>3. Parsed(r) = [queue |-> rest, got |-> Append(r.got, next)]
    BY <1>4, <2>1 DEF Parsed, q, z
  <2>4. r.got \in Seq(Seq(Units)) /\ (\A i \in 1..k : r.got[i] = Message(i, sizes[i]))
        /\ q = Piece(units, ends[k], x) /\ units \in Seq(Units)
    <3>1. units \in Seq(Units)
      BY WireOf
    <3> QED BY <3>1 DEF Cutting, k, q, g
  <2>5. rest = Piece(units, ends[k + 1], x)
    <3>1. rest = Piece(q, 2 + z, Len(q))
      <4>1. (2 + z) + 1 = 3 + z
        BY <2>2
      <4> QED BY <4>1 DEF Piece
    <3>2. /\ 2 + z \in Nat /\ Len(q) \in Nat /\ 2 + z <= Len(q) /\ Len(q) <= x - ends[k]
          /\ ends[k] <= x
      <4> DEFINE l == Len(q)
                 e == ends[k]
      <4>1. l \in Nat /\ e \in Nat /\ x \in Nat /\ z \in Nat /\ l >= 2 + z /\ l = x - e /\ x >= e
        BY <1>6, <2>16, Zenon
      <4> HIDE DEF l, e
      <4>2. 2 + z \in Nat /\ l \in Nat /\ 2 + z <= l /\ l <= x - e /\ e <= x
        BY ONLY <4>1
      <4> QED BY <4>2 DEF l, e
    <3> DEFINE lo == 2 + z
               hi == Len(q)
    <3> HIDE DEF lo, hi
    <3>3. Piece(Piece(units, ends[k], x), lo, hi) = Piece(units, ends[k] + lo, ends[k] + hi)
      <4> DEFINE e == ends[k]
      <4> HIDE DEF e
      <4>1. /\ e \in Nat /\ x \in Nat /\ e <= x /\ x <= Len(units)
            /\ lo \in Nat /\ hi \in Nat /\ lo <= hi /\ hi <= x - e
        BY <1>6, <3>2 DEF lo, hi, e
      <4>2. Piece(Piece(units, e, x), lo, hi) = Piece(units, e + lo, e + hi)
        <5>1. units \in Seq(Units)
          BY <2>4
        <5> QED BY <4>1, <5>1, PieceOfPiece
      <4> QED BY <4>2 DEF e
    <3>4. ends[k] + lo = ends[k + 1]
      <4>1. ends[k] + (2 + z) = ends[k] + 2 + z
        <5> DEFINE e == ends[k]
        <5>1. e \in Nat /\ z \in Nat
          BY <2>16
        <5> HIDE DEF e
        <5>2. e + (2 + z) = e + 2 + z
          BY <5>1
        <5> QED BY <5>2 DEF e
      <4> QED BY <2>16, <4>1, Zenon DEF lo
    <3>5. ends[k] + hi = x
      BY <1>6 DEF hi
    <3> QED BY <2>4, <3>1, <3>3, <3>4, <3>5 DEF lo, hi
  <2>14. next = Piece(q, 2, 2 + z)
    BY DEF Piece
  <2>15. /\ next \in Seq(Units) /\ Len(next) = z
         /\ \A p \in 1..z : next[p] = q[2 + p]
    <3> DEFINE hi == 2 + z
    <3>1. hi \in Nat /\ 2 \in Nat /\ 2 <= hi /\ hi <= Len(q) /\ hi - 2 = z
        BY <1>5, <2>1, <2>2
    <3> HIDE DEF hi
    <3>2. /\ Piece(q, 2, hi) \in Seq(Units) /\ Len(Piece(q, 2, hi)) = hi - 2
          /\ \A p \in 1..hi - 2 : Piece(q, 2, hi)[p] = q[2 + p]
      <4>1. q \in Seq(Units)
        BY <1>2
      <4> QED BY <3>1, <4>1, PieceUnits
    <3> QED BY <2>14, <3>1, <3>2 DEF hi
  <2> HIDE DEF next
  <2>6. next = Message(k + 1, z)
    <3>3. ASSUME NEW p \in 1..z PROVE next[p] = <<k + 1, p>>
      <4>1. 2 + p \in 1..Len(q) /\ ends[k] + (2 + p) = ends[k] + 2 + p
        <5>1. z \in Nat /\ Len(q) \in Nat /\ Len(q) >= 2 + z /\ ends[k] \in Nat
          BY <1>6, <2>1, <2>2, Zenon
        <5> QED BY <5>1
      <4>2. q[2 + p] = units[ends[k] + 2 + p]
        BY <1>2, <4>1
      <4>3. \A i \in 1..n : \A u \in 1..sizes[i] : units[ends[i - 1] + 2 + u] = <<i, u>>
        BY WireOf
      <4>4. (k + 1) - 1 = k
        BY <1>5
      <4> QED BY <2>2, <2>15, <4>2, <4>3, <4>4
    <3>4. next = [p \in 1..z |-> next[p]]
      BY <2>2, <2>15
    <3> QED BY <3>3, <3>4 DEF Message
  <2> HIDE DEF rest
  <2>7. next \in Seq(Units)
    <3> QED BY <2>15
  <2> DEFINE got == Append(r.got, next)
  <2>8. /\ got \in Seq(Seq(Units)) /\ Len(got) = k + 1 /\ got[k + 1] = next
        /\ \A i \in 1..k : got[i] = r.got[i]
    BY <2>4, <2>7 DEF k, g
  <2> HIDE DEF got
  <2>9. ends[k + 1] <= x
    BY <2>16
  <2>10. \A i \in 1..k + 1 : got[i] = Message(i, sizes[i])
    <3> TAKE i \in 1..k + 1
    <3>1. CASE i = k + 1
      BY <3>1, <2>2, <2>6, <2>8
    <3>2. CASE i # k + 1
      <4>1. i \in 1..k
        BY <3>2, <1>5
      <4> QED BY <4>1, <2>4, <2>8
    <3> QED BY <3>1, <3>2
  <2>11. x \in ends[k + 1]..Len(units) /\ k + 1 <= n
    BY <1>2, <1>5, <2>2, <2>9
  <2>12. Cutting(units, ends, n, rest, got, x)
    BY <2>5, <2>8, <2>10, <2>11 DEF Cutting
  <2>13. Parsed(r).queue = rest /\ Parsed(r).got = got
    BY <2>3 DEF got
  <2> QED BY <1>4, <2>8, <2>12, <2>13 DEF k, q, g
<1> QED BY <1>3, <1>4

(* The loop of onReadReady cuts all that is there, up to a message that is  *)
(* too large.                                                               *)
LEMMA AllParsed ==
  ASSUME sizes \in Seq(Nat), Len(sizes) <= MaxMessages,
         NEW units, NEW ends, NEW n, IsWire(units, ends, n),
         NEW queue, NEW x, Cutting(units, ends, n, queue, received, x),
         NEW r, r = ParseAll(queue)
  PROVE  /\ Cutting(units, ends, n, r.queue, r.got, x)
         /\ Len(received) <= Len(r.got)
         /\ TooLarge(r.queue) \/ ~FrameWaits(r.queue)
<1> DEFINE M == MaxMessages
           Cut0(t) == Cutting(units, ends, n, t.queue, t.got, x)
           All == {t \in [queue : Seq(Units), got : Seq(Seq(Units))] : Cut0(t)}
           first == [queue |-> queue, got |-> received]
           h == [i \in 1..M |-> [t \in All |-> Parsed(t)]]
           F(g) == [i \in 0..M |-> IF i = 0 THEN first ELSE Parsed(g[i - 1])]
           p == CHOOSE g : g = F(g)
           Stuck(t) == TooLarge(t.queue) \/ ~FrameWaits(t.queue)
           Far(t, i) == /\ Len(received) <= Len(t.got)
                        /\ Stuck(t) \/ Len(t.got) >= Len(received) + i
<1>1. M \in Nat
  BY TCPMessagingAssumption
<1>2. n \in Nat /\ Len(sizes) \in Nat /\ n <= Len(sizes)
  BY WireOf
<1>3. ASSUME NEW t, Cut0(t)
      PROVE  /\ t.queue \in Seq(Units) /\ t.got \in Seq(Seq(Units))
             /\ Len(t.got) \in 0..n /\ (Len(t.got) = n => t.queue = << >>)
  <2>1. t.got \in Seq(Seq(Units))
    BY <1>3 DEF Cutting
  <2>2. /\ t.queue \in Seq(Units) /\ Len(t.got) \in 0..n
        /\ (Len(t.got) = n => t.queue = << >>)
    BY <1>3, NextFrame
  <2> QED BY <2>1, <2>2
<1>4. ASSUME NEW t \in All
      PROVE  /\ Parsed(t) \in All
             /\ Stuck(t) => Parsed(t) = t
             /\ ~Stuck(t) => Len(Parsed(t).got) = Len(t.got) + 1
  <2>1. Cut0(t)
    OBVIOUS
  <2>2. /\ Cut0(Parsed(t))
        /\ ~FrameWaits(t.queue) \/ TooLarge(t.queue) => Parsed(t) = t
        /\ FrameWaits(t.queue) /\ ~TooLarge(t.queue) => Len(Parsed(t).got) = Len(t.got) + 1
    BY <2>1, ParsedCuts
  <2>3. Parsed(t).queue \in Seq(Units) /\ Parsed(t).got \in Seq(Seq(Units))
    BY <2>2, <1>3
  <2>4. Parsed(t) \in [queue : Seq(Units), got : Seq(Seq(Units))]
    BY <2>3 DEF Parsed
  <2> HIDE DEF Cut0
  <2> QED BY <2>2, <2>4
<1>5. first \in All
  <2>1. Cut0(first)
    OBVIOUS
  <2>2. first.queue \in Seq(Units) /\ first.got \in Seq(Seq(Units))
    BY <2>1, <1>3
  <2> HIDE DEF Cut0
  <2> QED BY <2>1, <2>2
<1>6. PICK g \in [0..M -> All] : g[0] = first /\ \A i \in 1..M : g[i] = h[i][g[i - 1]]
  <2>1. h \in [1..M -> [All -> All]]
    BY <1>4
  <2> HIDE DEF All, h, M, first
  <2> QED BY <1>1, <1>5, <2>1, StepByStep
<1>7. \A i \in 1..M : g[i] = Parsed(g[i - 1]) /\ i - 1 \in 0..M /\ i \in 0..M
  <2> TAKE i \in 1..M
  <2>1. i - 1 \in 0..M /\ i \in 0..M
    BY <1>1
  <2>2. g[i - 1] \in All
    BY <2>1
  <2> HIDE DEF All
  <2> QED BY <2>1, <2>2, <1>6
<1>8. g = F(g)
  <2>1. g = [i \in 0..M |-> g[i]]
    OBVIOUS
  <2>2. \A i \in 0..M : g[i] = IF i = 0 THEN first ELSE Parsed(g[i - 1])
    <3> TAKE i \in 0..M
    <3>1. CASE i = 0
      BY <3>1, <1>6
    <3>2. CASE i # 0
      <4>1. i \in 1..M
        BY <3>2, <1>1
      <4> QED BY <4>1, <3>2, <1>7
    <3> QED BY <3>1, <3>2
  <2> HIDE DEF M, first
  <2> QED BY <2>1, <2>2
<1>9. p = F(p)
  <2> HIDE DEF F
  <2> QED BY <1>8
<1>10. r = p[M]
  BY Zenon DEF ParseAll
<1>11. p[0] = first /\ \A i \in 1..M : i \in 0..M /\ i - 1 \in 0..M /\ p[i] = Parsed(p[i - 1])
  <2>1. \A i \in 0..M : p[i] = IF i = 0 THEN first ELSE Parsed(p[i - 1])
    <3> HIDE DEF p
    <3> QED BY <1>9
  <2>2. 0 \in 0..M /\ \A i \in 1..M : i \in 0..M /\ i - 1 \in 0..M /\ i # 0
    BY <1>1
  <2> HIDE DEF p, first, M
  <2> QED BY <2>1, <2>2
<1> HIDE DEF p, h, F, first
<1>12. ASSUME NEW i \in 0..M PROVE p[i] \in All /\ Far(p[i], i)
  <2> DEFINE Good(j) == p[j] \in All /\ Far(p[j], j)
             bad == {j \in 0..M : ~Good(j)}
  <2>1. Good(0)
    <3>1. p[0].got = received /\ Len(received) \in Nat
      <4>1. p[0].got = received
        BY <1>11 DEF first
      <4>2. Len(p[0].got) \in 0..n
        BY <1>5, <1>11, <1>3
      <4> QED BY <4>1, <4>2, <1>2
    <3> QED BY <1>5, <1>11, <3>1
  <2>2. ASSUME NEW j \in 0 + 1..M, Good(j - 1) PROVE Good(j)
    <3> DEFINE t == p[j - 1]
    <3>1. j \in 1..M
      OBVIOUS
    <3>2. p[j] = Parsed(t) /\ t \in All /\ Far(t, j - 1)
      BY <2>2, <3>1, <1>11
    <3>3. Len(t.got) \in Nat /\ Len(received) \in Nat
      BY <3>2, <1>2, <1>3, <1>5 DEF first
    <3> HIDE DEF t
    <3>4. /\ Parsed(t) \in All
          /\ Stuck(t) => Parsed(t) = t
          /\ ~Stuck(t) => Len(Parsed(t).got) = Len(t.got) + 1
      BY <3>2, <1>4
    <3> HIDE DEF All, Stuck
    <3> QED BY <3>1, <3>2, <3>3, <3>4
  <2> HIDE DEF Good
  <2>3. 0 \notin bad /\ bad \in SUBSET (0..M)
    BY <2>1
  <2>4. ASSUME NEW j \in 0 + 1..M, j - 1 \notin bad PROVE j \notin bad
    <3>1. j - 1 \in 0..M
      BY <1>1
    <3>2. Good(j - 1)
      BY <2>4, <3>1
    <3> QED BY <2>2, <3>2
  <2>5. bad = {}
    <3> HIDE DEF bad, M
    <3> QED BY <1>1, <2>3, <2>4, NeverFirst
  <2> QED BY <2>5 DEF Good
<1>13. r \in All /\ Far(r, M)
  BY <1>1, <1>10, <1>12
<1>14. Stuck(r)
  <2>1. SUFFICES ASSUME ~Stuck(r) PROVE FALSE
    OBVIOUS
  <2>2. Cut0(r) /\ Len(r.got) >= Len(received) + M
    BY <1>13, <2>1
  <2>3. Len(r.got) \in 0..n /\ (Len(r.got) = n => r.queue = << >>)
    BY <2>2, <1>3
  <2>4. Len(received) \in Nat
    BY <1>2, <1>3, <1>5 DEF first
  <2>5. r.queue = << >>
    BY <1>1, <1>2, <2>2, <2>3, <2>4
  <2>6. ~FrameWaits(r.queue)
    BY <2>5 DEF FrameWaits
  <2> QED BY <2>1, <2>6
<1> QED BY <1>13, <1>14

-----------------------------------------------------------------------------
(* Sending *)

(* The streams of that shape are a set. *)
SendStreams ==
  [buffers : Seq(Buffers), blocking : {FALSE}, blocked : {<< >>}, blockHeader : {"none"},
   shutdown : BOOLEAN, readerReady : BOOLEAN, readNotified : BOOLEAN,
   writeNotified : BOOLEAN, readers : SUBSET {"reader"}, writers : {{}},
   readerCalls : [{"reader"} -> Nat], writerCalls : [{} -> Nat]]

LEMMA ShapeIsSet ==
  ASSUME NEW s
  PROVE  SendShape(s) <=> s \in SendStreams
<1>1. ASSUME SendShape(s) PROVE s \in SendStreams
  BY <1>1 DEF SendShape, SendStreams
<1>2. ASSUME s \in SendStreams PROVE SendShape(s)
  BY <1>2 DEF SendShape, SendStreams
<1> QED BY <1>1, <1>2

(* Of the buffers of s, t has those after the first j. *)
BuffersLeft(s, j, t) ==
  /\ Len(t.buffers) = Len(s.buffers) - j
  /\ \A i \in 1..Len(s.buffers) - j : t.buffers[i] = s.buffers[j + i]

(* Reading j buffers leaves those after them. *)
LEMMA StreamLeft ==
  ASSUME NEW s, SendShape(s), NEW j \in 0..Len(s.buffers), NEW t, t = StreamAfter(s, j)
  PROVE  /\ SendShape(t) /\ t.shutdown = s.shutdown /\ t.readers = s.readers
         /\ s.readerReady => t.readerReady
         /\ s.shutdown => t.buffers = s.buffers
         /\ ~s.shutdown => BuffersLeft(s, j, t)
<1> DEFINE L == Len(s.buffers)
           h == [i \in 1..j |-> [u \in SendStreams |-> SendStream!AfterReadNext(u)]]
           F(g) == [i \in 0..j |-> IF i = 0 THEN s ELSE SendStream!AfterReadNext(g[i - 1])]
           p == CHOOSE g : g = F(g)
           Left(u, k) == /\ u.shutdown = s.shutdown /\ u.readers = s.readers
                         /\ s.readerReady => u.readerReady
                         /\ s.shutdown => u.buffers = s.buffers
                         /\ ~s.shutdown =>
                              /\ Len(u.buffers) = L - k
                              /\ \A i \in 1..L - k : u.buffers[i] = s.buffers[k + i]
<1>0. s.buffers \in Seq(Buffers)
  BY DEF SendShape
<1>1. L \in Nat /\ j \in Nat /\ j <= L
  BY <1>0, LenProperties
<1>2. s \in SendStreams /\ \A u \in SendStreams : SendStream!AfterReadNext(u) \in SendStreams
  BY ShapeIsSet, SendTaken
<1>3. PICK g \in [0..j -> SendStreams] : g[0] = s /\ \A i \in 1..j : g[i] = h[i][g[i - 1]]
  <2> DEFINE All == SendStreams
  <2>1. h \in [1..j -> [All -> All]] /\ s \in All /\ j \in Nat
    BY <1>1, <1>2
  <2> HIDE DEF All, h, F, p, L
  <2>2. \E g \in [0..j -> All] : g[0] = s /\ \A i \in 1..j : g[i] = h[i][g[i - 1]]
    BY <2>1, StepByStep
  <2> QED BY <2>2 DEF All
<1>4. \A i \in 1..j : g[i] = SendStream!AfterReadNext(g[i - 1])
  <2> TAKE i \in 1..j
  <2>1. i - 1 \in 0..j
    BY <1>1
  <2>2. g[i - 1] \in SendStreams
    BY <2>1
  <2> QED BY <2>2, <1>3
<1>5. g = F(g)
  <2>1. g = [i \in 0..j |-> g[i]]
    OBVIOUS
  <2>2. \A i \in 0..j : g[i] = IF i = 0 THEN s ELSE SendStream!AfterReadNext(g[i - 1])
    <3> TAKE i \in 0..j
    <3>1. CASE i = 0
      BY <3>1, <1>3
    <3>2. CASE i # 0
      <4>1. i \in 1..j
        BY <3>2, <1>1
      <4> QED BY <4>1, <3>2, <1>4
    <3> QED BY <3>1, <3>2
  <2> QED BY <2>1, <2>2
<1>6. p = F(p)
  <2> HIDE DEF F
  <2> QED BY <1>5
<1>7. t = p[j]
  BY Zenon DEF StreamAfter
<1>8. p[0] = s /\ \A i \in 1..j : p[i] = SendStream!AfterReadNext(p[i - 1])
  <2>1. \A i \in 0..j : p[i] = IF i = 0 THEN s ELSE SendStream!AfterReadNext(p[i - 1])
    <3> HIDE DEF p
    <3> QED BY <1>6
  <2>2. 0 \in 0..j /\ \A i \in 1..j : i \in 0..j /\ i # 0
    BY <1>1
  <2> HIDE DEF p
  <2> QED BY <2>1, <2>2
<1> HIDE DEF p, h, F
<1> DEFINE Good(k) == SendShape(p[k]) /\ Left(p[k], k)
           bad == {k \in 0..j : ~Good(k)}
<1>9. Good(0)
  <2>1. L - 0 = L /\ \A i \in 1..L : 0 + i = i
    BY <1>1
  <2> QED BY <2>1, <1>8
<1>10. ASSUME NEW k \in 0 + 1..j, Good(k - 1) PROVE Good(k)
  <2> DEFINE u == p[k - 1]
             v == p[k]
  <2>1. k \in 1..j /\ v = SendStream!AfterReadNext(u) /\ SendShape(u) /\ Left(u, k - 1)
    <3>1. k \in 1..j
      BY <1>10
    <3>2. v = SendStream!AfterReadNext(u)
      <4> HIDE DEF Left, p
      <4> QED BY <1>8, <3>1
    <3>3. SendShape(u) /\ Left(u, k - 1)
      <4> HIDE DEF Left, p
      <4> QED BY <1>10, Zenon
    <3> QED BY <3>1, <3>2, <3>3, Zenon
  <2> HIDE DEF u, v
  <2>2. /\ SendShape(v) /\ v.shutdown = u.shutdown /\ v.readers = u.readers
        /\ u.readerReady => v.readerReady
        /\ v.buffers = IF u.shutdown \/ u.buffers = << >> THEN u.buffers ELSE Tail(u.buffers)
    BY <2>1, SendTaken
  <2>3. ASSUME ~s.shutdown
        PROVE  Len(v.buffers) = L - k /\ \A i \in 1..L - k : v.buffers[i] = s.buffers[k + i]
    <3>1. /\ ~u.shutdown /\ Len(u.buffers) = L - (k - 1)
          /\ \A i \in 1..L - (k - 1) : u.buffers[i] = s.buffers[(k - 1) + i]
      BY <2>1, <2>3
    <3>2. u.buffers \in Seq(Buffers)
      BY <2>1 DEF SendShape
    <3>3. u.buffers # << >>
      BY <1>1, <2>1, <3>1
    <3>4. v.buffers = Tail(u.buffers)
      BY <2>2, <3>1, <3>3
    <3>5. /\ Len(v.buffers) = Len(u.buffers) - 1
          /\ \A i \in 1..Len(v.buffers) : v.buffers[i] = u.buffers[i + 1]
      BY <3>2, <3>3, <3>4, HeadTailProperties
    <3>6. Len(v.buffers) = L - k
      BY <1>1, <2>1, <3>1, <3>5
    <3>7. ASSUME NEW i \in 1..L - k PROVE v.buffers[i] = s.buffers[k + i]
      <4>1. i + 1 \in 1..L - (k - 1) /\ (k - 1) + (i + 1) = k + i
        BY <1>1, <2>1
      <4>2. v.buffers[i] = u.buffers[i + 1] /\ u.buffers[i + 1] = s.buffers[(k - 1) + (i + 1)]
        BY <3>1, <3>5, <3>6, <4>1
      <4> QED BY <4>1, <4>2
    <3> QED BY <3>6, <3>7
  <2>4. s.shutdown => v.buffers = s.buffers
    BY <2>1, <2>2
  <2>5. /\ v.shutdown = s.shutdown /\ v.readers = s.readers
        /\ s.readerReady => v.readerReady
    BY <2>1, <2>2
  <2> QED BY <2>2, <2>3, <2>4, <2>5 DEF v
<1>11. bad = {}
  <2> HIDE DEF Good
  <2>1. 0 \notin bad /\ bad \in SUBSET (0..j)
    BY <1>9
  <2>2. ASSUME NEW k \in 0 + 1..j, k - 1 \notin bad PROVE k \notin bad
    <3>1. k - 1 \in 0..j
      BY <1>1
    <3>2. Good(k - 1)
      BY <2>2, <3>1
    <3> QED BY <1>10, <3>2
  <2> HIDE DEF bad
  <2> QED BY <1>1, <2>1, <2>2, NeverFirst
<1>12. Good(j)
  <2>1. j \in 0..j
    BY <1>1
  <2> HIDE DEF Good
  <2> QED BY <1>11, <2>1
<1> QED BY <1>7, <1>12 DEF BuffersLeft

(* The frame of a message that has its place on the wire                    *)
LEMMA FrameOnWire ==
  ASSUME sizes \in Seq(Nat), NEW units, NEW ends, NEW n, IsWire(units, ends, n),
         NEW k \in 1..n, NEW b, b.left = Message(k, sizes[k])
  PROVE  Frame(b) = Piece(units, ends[k - 1], ends[k])
<1> DEFINE lo == ends[k - 1]
           hi == ends[k]
           z  == sizes[k]
           f  == Frame(b)
           p  == Piece(units, lo, hi)
<1>1. /\ n \in Nat /\ units \in Seq(Units) /\ Len(units) \in Nat
      /\ hi = lo + 2 + z /\ z \in Nat
      /\ \A q \in 1..2 : units[lo + q] = <<0, z>>
      /\ \A q \in 1..z : units[lo + 2 + q] = <<k, q>>
  <2>1. /\ ends[k] = ends[k - 1] + 2 + sizes[k] /\ sizes[k] \in Nat
        /\ \A q \in 1..2 : units[ends[k - 1] + q] = <<0, sizes[k]>>
        /\ \A q \in 1..sizes[k] : units[ends[k - 1] + 2 + q] = <<k, q>>
    <3>1. ends[k] = ends[k - 1] + 2 + sizes[k] /\ sizes[k] \in Nat
      BY WireOf
    <3>2. /\ \A q \in 1..2 : units[ends[k - 1] + q] = <<0, sizes[k]>>
          /\ \A q \in 1..sizes[k] : units[ends[k - 1] + 2 + q] = <<k, q>>
      BY DEF IsWire
    <3> QED BY <3>1, <3>2
  <2>2. n \in Nat /\ units \in Seq(Units) /\ Len(units) \in Nat
    BY WireOf
  <2> QED BY <2>1, <2>2
<1>2. lo \in Nat /\ hi \in Nat /\ lo <= hi /\ hi <= Len(units)
  <2>1. k - 1 \in 0..n /\ k \in (k - 1)..n
    BY <1>1
  <2> QED BY <2>1, EndsGrow
<1> HIDE DEF lo, hi, z
<1>3. p \in Seq(Units) /\ Len(p) = hi - lo /\ \A i \in 1..hi - lo : p[i] = units[lo + i]
  <2>1. units \in Seq(Units)
    BY <1>1
  <2> QED BY <1>2, <2>1, PieceUnits
<1>4. Message(k, z) \in Seq(Units) /\ Len(Message(k, z)) = z
      /\ \A q \in 1..z : Message(k, z)[q] = <<k, q>>
  <2>1. k \in Nat /\ z \in Nat
    BY <1>1
  <2>2. \A q \in 1..z : <<k, q>> \in Units
    BY <2>1 DEF Units
  <2> QED BY <2>1, <2>2 DEF Message
<1>5. b.left = Message(k, z)
  BY DEF z
<1>6. /\ f \in Seq(Units) /\ Len(f) = 2 + z
      /\ \A q \in 1..2 : f[q] = <<0, z>>
      /\ \A q \in 1..z : f[2 + q] = <<k, q>>
  <2>1. b.left \in Seq(Units) /\ Len(b.left) = z
    BY <1>4, <1>5
  <2>2. /\ f \in Seq(Units) /\ Len(f) = 2 + Len(b.left)
        /\ \A q \in 1..2 : f[q] = <<0, Len(b.left)>>
        /\ \A q \in 1..Len(b.left) : f[2 + q] = b.left[q]
    BY <2>1, FrameUnits
  <2> HIDE DEF f
  <2> QED BY <1>4, <1>5, <2>1, <2>2
<1> HIDE DEF f, p
<1>7. hi - lo = 2 + z
  BY <1>1, <1>2
<1>8. ASSUME NEW i \in 1..2 + z PROVE f[i] = p[i]
  <2>1. CASE i \in 1..2
    <3>1. f[i] = <<0, z>> /\ units[lo + i] = <<0, z>>
      BY <1>1, <1>6, <2>1
    <3> QED BY <1>3, <1>7, <3>1
  <2>2. CASE i \notin 1..2
    <3> DEFINE q == i - 2
    <3>1. q \in 1..z /\ 2 + q = i /\ lo + 2 + q = lo + i
      BY <1>1, <1>2, <2>2
    <3> HIDE DEF q
    <3>2. f[i] = <<k, q>> /\ units[lo + i] = <<k, q>>
      BY <1>1, <1>6, <3>1
    <3> QED BY <1>3, <1>7, <3>2
  <2> QED BY <2>1, <2>2
<1>9. f = p
  BY <1>3, <1>6, <1>7, <1>8, SeqEqual
<1> QED BY <1>9 DEF f, p, lo, hi

(* What is queued with the first j buffers goes up to the end of the last   *)
(* of them.                                                                 *)
LEMMA QueuedOnWire ==
  ASSUME sizes \in Seq(Nat), NEW units, NEW ends, NEW n, IsWire(units, ends, n),
         NEW s, SendShape(s), NEW m, NEW y, Framing(units, ends, n, s, sendingQueue, m, y),
         NEW j \in 0..Len(s.buffers)
  PROVE  /\ QueueWith(s, j) = Piece(units, y, ends[m + j])
         /\ Queued(s, j) = ends[m + j] - y
         /\ m \in Nat /\ n \in Nat /\ y \in Nat /\ m + j \in 0..n /\ Len(s.buffers) \in Nat
         /\ ends[m] \in Nat /\ ends[m + j] \in Nat /\ y <= ends[m]
         /\ ends[m] <= ends[m + j] /\ ends[m + j] <= Len(units) /\ Len(units) \in Nat
         /\ j > 0 => ends[m] + 2 <= ends[m + j]
<1> DEFINE L == Len(s.buffers)
           On(i) == QueueWith(s, i) = Piece(units, y, ends[m + i])
           bad == {i \in 0..L : ~On(i)}
<1>1. /\ n \in Nat /\ units \in Seq(Units) /\ Len(units) \in Nat /\ ends \in [0..n -> Nat]
  BY WireOf
<1>2. L \in Nat
  BY LenProperties DEF SendShape
<1>3. /\ m \in 0..n /\ y \in 0..ends[m] /\ sendingQueue = Piece(units, y, ends[m]) /\ m + L <= n
      /\ \A i \in 1..L : s.buffers[i].left = Message(m + i, sizes[m + i])
  BY DEF Framing
<1>4. m \in Nat /\ ends[m] \in Nat /\ y \in Nat /\ y <= ends[m]
  BY <1>1, <1>3
<1>5. ASSUME NEW i \in 0..L
      PROVE  /\ m + i \in 0..n /\ ends[m + i] \in Nat /\ ends[m] <= ends[m + i]
             /\ ends[m + i] <= Len(units) /\ (i > 0 => ends[m] + 2 <= ends[m + i])
  <2>1. m \in 0..n /\ m + i \in m..n
    BY <1>1, <1>2, <1>3, <1>4
  <2>2. /\ m + i \in 0..n /\ ends[m + i] \in Nat /\ ends[m] <= ends[m + i]
        /\ ends[m + i] <= Len(units) /\ (m < m + i => ends[m] + 2 <= ends[m + i])
    BY <2>1, EndsGrow
  <2>3. i > 0 => m < m + i
    BY <1>2, <1>4
  <2> QED BY <2>2, <2>3
<1>6. sendingQueue \in Seq(Units)
  <2> DEFINE e == ends[m]
  <2>1. e \in Nat /\ y <= e /\ e <= Len(units) /\ sendingQueue = Piece(units, y, e)
    <3>1. m + 0 = m /\ 0 \in 0..L
      BY <1>2, <1>4
    <3> QED BY <1>3, <1>4, <1>5, <3>1
  <2> HIDE DEF e
  <2>2. Piece(units, y, e) \in Seq(Units)
    BY <1>1, <1>4, <2>1, PieceUnits
  <2> QED BY <2>1, <2>2
<1>7. /\ QueueWith(s, 0) = sendingQueue
      /\ \A i \in 1..L : QueueWith(s, i) = QueueWith(s, i - 1) \o Frame(s.buffers[i])
  BY <1>6, QueueSteps
<1>8. On(0)
  <2>1. m + 0 = m
    BY <1>4
  <2> QED BY <1>3, <1>7, <2>1
<1>9. ASSUME NEW i \in 0 + 1..L, On(i - 1) PROVE On(i)
  <2>1. i \in 1..L /\ i - 1 \in 0..L /\ i \in 0..L /\ m + (i - 1) = (m + i) - 1 /\ m + i \in 1..n
    BY <1>1, <1>2, <1>3, <1>4
  <2> DEFINE lo == ends[(m + i) - 1]
             hi == ends[m + i]
             k  == m + i
             b  == s.buffers[i]
  <2>2. b.left = Message(k, sizes[k])
    BY <1>3, <2>1
  <2>3. QueueWith(s, i - 1) = Piece(units, y, lo)
    BY <1>9, <2>1
  <2>4. /\ lo \in Nat /\ hi \in Nat /\ y <= lo /\ hi <= Len(units)
    <3>1. /\ ends[m + (i - 1)] \in Nat /\ ends[m] <= ends[m + (i - 1)]
          /\ hi \in Nat /\ hi <= Len(units)
      BY <1>5, <2>1, Zenon
    <3>2. lo \in Nat /\ ends[m] <= lo
      BY <2>1, <3>1, Zenon
    <3> HIDE DEF lo, hi
    <3> QED BY <1>4, <3>1, <3>2
  <2>5. lo <= hi
    <3>1. k - 1 \in 0..n /\ k \in (k - 1)..n
      BY <1>1, <2>1
    <3> HIDE DEF k
    <3>2. ends[k - 1] <= ends[k]
      BY <3>1, EndsGrow
    <3> QED BY <3>2 DEF k
  <2>6. Frame(b) = Piece(units, lo, hi)
    <3>1. k \in 1..n
      BY <2>1
    <3> HIDE DEF k, b
    <3>2. Frame(b) = Piece(units, ends[k - 1], ends[k])
      BY <2>2, <3>1, FrameOnWire
    <3> QED BY <3>2 DEF k
  <2>7. QueueWith(s, i) = QueueWith(s, i - 1) \o Frame(b)
    BY <1>7, <2>1
  <2> HIDE DEF lo, hi, b
  <2>8. Piece(units, y, lo) \o Piece(units, lo, hi) = Piece(units, y, hi)
    BY <1>1, <1>4, <2>4, <2>5, PiecesMeet
  <2> QED BY <2>3, <2>6, <2>7, <2>8 DEF hi
<1>10. bad = {}
  <2> HIDE DEF On
  <2>1. 0 \notin bad /\ bad \in SUBSET (0..L)
    BY <1>8
  <2>2. ASSUME NEW i \in 0 + 1..L, i - 1 \notin bad PROVE i \notin bad
    <3>1. i - 1 \in 0..L
      BY <1>2
    <3>2. On(i - 1)
      BY <2>2, <3>1
    <3> QED BY <1>9, <3>2
  <2> HIDE DEF bad, L
  <2> QED BY <1>2, <2>1, <2>2, NeverFirst
<1>11. On(j)
  <2> HIDE DEF On
  <2> QED BY <1>10
<1>12. Queued(s, j) = ends[m + j] - y
  <2> DEFINE e == ends[m + j]
  <2>1. e \in Nat /\ y <= e /\ e <= Len(units) /\ QueueWith(s, j) = Piece(units, y, e)
    BY <1>4, <1>5, <1>11
  <2> HIDE DEF e
  <2>2. Len(Piece(units, y, e)) = e - y
    <3>1. units \in Seq(Units) /\ y \in Nat /\ e \in Nat /\ y <= e /\ e <= Len(units)
      BY <1>1, <1>4, <2>1
    <3> QED BY ONLY <3>1, PieceUnits
  <2> QED BY <2>1, <2>2 DEF e, Queued
<1> QED BY <1>1, <1>2, <1>4, <1>5, <1>11, <1>12

(* With nothing queued there is no buffer left either.                      *)
LEMMA NothingQueued ==
  ASSUME sizes \in Seq(Nat), NEW units, NEW ends, NEW n, IsWire(units, ends, n),
         NEW s, SendShape(s), NEW m, NEW y, Framing(units, ends, n, s, sendingQueue, m, y),
         Queued(s, Len(s.buffers)) = 0
  PROVE  s.buffers = << >> /\ sendingQueue = << >>
<1> DEFINE L == Len(s.buffers)
           e == ends[m + L]
           f == ends[m]
<1>1. s.buffers \in Seq(Buffers)
  BY DEF SendShape
<1>2. L \in Nat /\ L \in 0..L
  BY <1>1, LenProperties
<1>3. /\ Queued(s, L) = e - y /\ m \in Nat /\ y \in Nat /\ e \in Nat /\ f \in Nat
      /\ y <= f /\ f <= e /\ e <= Len(units) /\ (L > 0 => f + 2 <= e)
  BY <1>2, QueuedOnWire, SMTT(20)
<1>4. sendingQueue = Piece(units, y, f)
  BY DEF Framing
<1> HIDE DEF e, f, L
<1>5. Queued(s, L) = 0
  BY DEF L
<1>6. e = y /\ f = y /\ L = 0
  BY <1>2, <1>3, <1>5
<1>7. s.buffers = << >>
  BY <1>1, <1>6, EmptySeq DEF L
<1>8. Piece(units, y, y) = << >>
  <2>1. units \in Seq(Units) /\ y <= Len(units)
    BY <1>3, <1>6, WireOf
  <2> QED BY <1>3, <2>1, NoPiece
<1> QED BY <1>4, <1>6, <1>7, <1>8

(* As many buffers are read as send() took something of.                    *)
LEMMA ReadForSend ==
  ASSUME NEW s, SendShape(s), NEW sent, sent \in 0..Queued(s, Len(s.buffers)),
         Queued(s, Len(s.buffers)) \in Nat,
         NEW read, read = BuffersRead(s, sent),
         \A j \in 0..Len(s.buffers) : Queued(s, j) \in Nat
  PROVE  read \in 0..Len(s.buffers) /\ sent <= Queued(s, read)
<1> DEFINE L == Len(s.buffers)
           S == {j \in 0..L : Queued(s, j) > sent \/ j = L}
<1>1. L \in Nat
  BY LenProperties DEF SendShape
<1>2. L \in S /\ S \in SUBSET Nat
  BY <1>1
<1>3. PICK k \in S : \A i \in S : k <= i
  <2> HIDE DEF S
  <2> QED BY <1>2, LeastNumber
<1>4. Min(S) \in S
  BY <1>3, Zenon DEF Min
<1>5. read \in S
  <2>1. read = Min(S)
    BY DEF BuffersRead
  <2> QED BY <1>4, <2>1
<1>6. sent \in Nat /\ sent <= Queued(s, L)
  BY <1>1
<1>7. sent <= Queued(s, read)
  BY <1>5, <1>6
<1> QED BY <1>5, <1>7

(* send() takes that much of the stream s: TCP and the queue stay on the    *)
(* wire.                                                                    *)
SentAlong(units, ends, n, s, x, sent) ==
  LET read == BuffersRead(s, sent) IN
  \E k, z \in Nat :
    /\ x <= z
    /\ tcp \o SubSeq(QueueWith(s, read), 1, sent) = Piece(units, x, z)
    /\ Framing(units, ends, n, StreamAfter(s, read), Unsent(QueueWith(s, read), sent), k, z)

LEMMA SentOnWire ==
  ASSUME sizes \in Seq(Nat), NEW units, NEW ends, NEW n, IsWire(units, ends, n),
         NEW s, SendShape(s), ~s.shutdown,
         NEW m, NEW y, Framing(units, ends, n, s, sendingQueue, m, y),
         NEW x \in Nat, x <= y, tcp = Piece(units, x, y),
         NEW sent \in 0..Queued(s, Len(s.buffers))
  PROVE  SentAlong(units, ends, n, s, x, sent)
<1> DEFINE read == BuffersRead(s, sent)
           t == StreamAfter(s, read)
           queue == Unsent(QueueWith(s, read), sent)
           carried == tcp \o SubSeq(QueueWith(s, read), 1, sent)
           L == Len(s.buffers)
           k == m + read
           z == y + sent
           e == ends[k]
           q == QueueWith(s, read)
<1>1. L \in Nat
  BY LenProperties DEF SendShape
<1>2. \A j \in 0..L : Queued(s, j) \in Nat
  <2> TAKE j \in 0..L
  <2> DEFINE f == ends[m + j]
             g == ends[m]
  <2>1. Queued(s, j) = f - y /\ f \in Nat /\ g \in Nat /\ y \in Nat /\ y <= g /\ g <= f
    BY QueuedOnWire
  <2> HIDE DEF f, g
  <2> QED BY <2>1
<1>3. read \in 0..L /\ sent <= Queued(s, read)
  <2>1. Queued(s, L) \in Nat
    BY <1>1, <1>2
  <2> QED BY <1>2, <2>1, ReadForSend
<1>4. /\ q = Piece(units, y, e) /\ Queued(s, read) = e - y
      /\ m \in Nat /\ n \in Nat /\ y \in Nat /\ k \in 0..n /\ e \in Nat
      /\ e <= Len(units) /\ Len(units) \in Nat
  BY <1>3, QueuedOnWire
<1>5. units \in Seq(Units)
  BY WireOf
<1>6. sent \in Nat
  <2>1. Queued(s, L) \in Nat
    BY <1>1, <1>2
  <2> QED BY <2>1
<1>7. k \in Nat /\ z \in Nat /\ y <= z /\ z <= e /\ x <= z /\ y <= e /\ z - y = sent
  <2> HIDE DEF e
  <2>1. k \in Nat
    BY <1>4
  <2> QED BY <1>3, <1>4, <1>6, <2>1
<1>15. \A i, j \in Nat : /\ x <= j /\ carried = Piece(units, x, j)
                        /\ Framing(units, ends, n, t, queue, i, j)
                        => SentAlong(units, ends, n, s, x, sent)
  BY Zenon DEF SentAlong
<1>16. /\ read = BuffersRead(s, sent) /\ t = StreamAfter(s, read)
       /\ queue = Unsent(QueueWith(s, read), sent)
       /\ carried = tcp \o SubSeq(QueueWith(s, read), 1, sent)
  OBVIOUS
<1> HIDE DEF e, z, q, k, L, read, t, queue, carried
<1>8. queue = Piece(units, z, e)
  <2>1. Len(q) = e - y
    BY <1>4 DEF Queued, q
  <2>2. queue = Piece(q, sent, Len(q))
    BY <1>16 DEF Unsent, Piece, q
  <2>3. /\ sent \in Nat /\ Len(q) \in Nat /\ sent <= Len(q) /\ Len(q) <= e - y
        /\ y + sent = z /\ y + Len(q) = e
    BY <1>4, <1>6, <1>7, <2>1 DEF z
  <2> DEFINE l == Len(q)
  <2> HIDE DEF l
  <2>4. l \in Nat /\ sent <= l /\ l <= e - y /\ y + l = e
    BY <2>3 DEF l
  <2>5. Piece(Piece(units, y, e), sent, l) = Piece(units, y + sent, y + l)
    BY <1>4, <1>5, <1>6, <1>7, <2>4, PieceOfPiece
  <2> QED BY <1>4, <2>2, <2>3, <2>5 DEF l
<1>9. carried = Piece(units, x, z)
  <2>1. SubSeq(q, 1, sent) = Piece(q, 0, sent)
    BY DEF Piece
  <2>2. sent <= e - y /\ y + 0 = y /\ y + sent = z /\ z <= Len(units)
    BY <1>3, <1>4, <1>7 DEF z
  <2>3. Piece(Piece(units, y, e), 0, sent) = Piece(units, y + 0, y + sent)
    <3>1. 0 \in Nat /\ 0 <= sent
      BY <1>6
    <3> QED BY <1>4, <1>5, <1>6, <1>7, <2>2, <3>1, PieceOfPiece
  <2>4. Piece(units, x, y) \o Piece(units, y, z) = Piece(units, x, z)
    <3>1. x \in Nat /\ y \in Nat /\ z \in Nat /\ x <= y /\ y <= z /\ z <= Len(units)
      BY <1>4, <1>7, <2>2
    <3> QED BY <1>5, <3>1, PiecesMeet, Zenon
  <2>5. carried = tcp \o SubSeq(q, 1, sent)
    BY <1>16 DEF q
  <2> QED BY <1>4, <2>1, <2>2, <2>3, <2>4, <2>5
<1>10. /\ t.shutdown = s.shutdown /\ Len(t.buffers) = L - read
       /\ \A i \in 1..L - read : t.buffers[i] = s.buffers[read + i]
  <2>1. read \in 0..Len(s.buffers)
    BY <1>3 DEF L
  <2>2. t.shutdown = s.shutdown /\ (~s.shutdown => BuffersLeft(s, read, t))
    BY <2>1, <1>16, StreamLeft
  <2> QED BY <2>2 DEF L, BuffersLeft
<1>11. /\ m + L <= n /\ m + L = n /\ n = Len(sizes)
       /\ \A i \in 1..L : s.buffers[i].left = Message(m + i, sizes[m + i])
  BY DEF Framing, L
<1>12. k + Len(t.buffers) = n
  <2>1. Len(t.buffers) = L - read /\ m + L = n /\ read \in Nat
    BY <1>1, <1>3, <1>10, <1>11
  <2>2. (m + read) + (L - read) = m + L
    BY <1>1, <1>4, <2>1
  <2> QED BY <2>1, <2>2 DEF k
<1>13. ASSUME NEW i \in 1..Len(t.buffers)
       PROVE  t.buffers[i].left = Message(k + i, sizes[k + i])
  <2>1. i \in 1..L - read /\ read + i \in 1..L /\ m + (read + i) = k + i
    <3>1. i \in 1..L - read
      BY <1>10, <1>13
    <3>2. read + i \in 1..L /\ m + (read + i) = (m + read) + i
      BY <1>1, <1>3, <1>4, <3>1
    <3> QED BY <3>1, <3>2 DEF k
  <2>2. t.buffers[i] = s.buffers[read + i]
    BY <1>10, <2>1
  <2>3. s.buffers[read + i].left = Message(m + (read + i), sizes[m + (read + i)])
    BY <1>11, <2>1
  <2> QED BY <2>1, <2>2, <2>3
<1>14. Framing(units, ends, n, t, queue, k, z)
  <2>1. z \in 0..ends[k] /\ k \in 0..n /\ queue = Piece(units, z, ends[k])
    BY <1>4, <1>7, <1>8 DEF e
  <2> QED BY <1>4, <1>11, <1>12, <1>13, <2>1 DEF Framing
<1> QED BY <1>7, <1>9, <1>14, <1>15

(* The wire grows by the frame of the message that is written.              *)
LEMMA WireGrows ==
  ASSUME sizes \in Seq(Nat), NEW units, NEW ends, NEW n, IsWire(units, ends, n),
         n = Len(sizes), NEW size \in Nat, sizes' = Append(sizes, size),
         NEW frame \in Seq(Units), Len(frame) = 2 + size,
         \A q \in 1..2 : frame[q] = <<0, size>>,
         \A q \in 1..size : frame[2 + q] = <<n + 1, q>>,
         NEW upto, upto = [i \in 0..n + 1 |-> IF i = n + 1 THEN ends[n] + 2 + size ELSE ends[i]]
  PROVE  IsWire(units \o frame, upto, n + 1)'
<1> DEFINE w == units \o frame
<1>1. /\ n \in Nat /\ units \in Seq(Units) /\ Len(units) \in Nat
      /\ ends \in [0..n -> Nat] /\ ends[0] = 0 /\ ends[n] = Len(units)
  BY WireOf
<1>2. /\ w \in Seq(Units) /\ Len(w) = Len(units) + (2 + size)
      /\ \A i \in 1..Len(units) + (2 + size) :
           w[i] = IF i <= Len(units) THEN units[i] ELSE frame[i - Len(units)]
  <2>1. /\ w \in Seq(Units) /\ Len(w) = Len(units) + Len(frame)
        /\ \A i \in 1..Len(units) + Len(frame) :
             w[i] = IF i <= Len(units) THEN units[i] ELSE frame[i - Len(units)]
    BY <1>1, ConcatProperties
  <2> QED BY <2>1
<1>3. /\ upto \in [0..n + 1 -> Nat] /\ upto[n + 1] = Len(units) + (2 + size)
      /\ \A i \in 0..n : upto[i] = ends[i]
  <2>1. upto[n + 1] = ends[n] + 2 + size /\ n + 1 \in 0..n + 1
    BY <1>1
  <2>2. \A i \in 0..n : upto[i] = ends[i] /\ ends[i] \in Nat
    <3> TAKE i \in 0..n
    <3>1. i \in 0..n + 1 /\ i # n + 1
      BY <1>1
    <3> QED BY <1>1, <3>1
  <2>3. ends[n] + 2 + size = Len(units) + (2 + size) /\ ends[n] + 2 + size \in Nat
    <3> DEFINE e == ends[n]
    <3>1. e \in Nat /\ e = Len(units)
      BY <1>1
    <3> HIDE DEF e
    <3>2. e + 2 + size = e + (2 + size) /\ e + 2 + size \in Nat
      BY ONLY <3>1, size \in Nat
    <3>3. e + 2 + size = Len(units) + (2 + size) /\ e + 2 + size \in Nat
      BY <3>1, <3>2, Zenon
    <3> QED BY <3>3 DEF e
  <2>4. \A i \in 0..n + 1 : upto[i] \in Nat
    <3> TAKE i \in 0..n + 1
    <3>1. CASE i = n + 1
      BY <3>1, <2>1, <2>3
    <3>2. CASE i # n + 1
      <4>1. i \in 0..n
        BY <1>1, <3>2
      <4> QED BY <4>1, <2>2
    <3> QED BY <3>1, <3>2
  <2>5. upto \in [0..n + 1 -> Nat]
    BY <2>4
  <2> QED BY <2>1, <2>2, <2>3, <2>5
<1>4. /\ Len(sizes') = n + 1 /\ sizes'[n + 1] = size
      /\ \A i \in 1..n : sizes'[i] = sizes[i]
  BY <1>1
<1> DEFINE Here(i) ==
             /\ upto[i] = upto[i - 1] + 2 + sizes'[i]
             /\ \A q \in 1..2 : w[upto[i - 1] + q] = <<0, sizes'[i]>>
             /\ \A q \in 1..sizes'[i] : w[upto[i - 1] + 2 + q] = <<i, q>>
<1>5. ASSUME NEW i \in 1..n PROVE Here(i)
  <2> DEFINE lo == ends[i - 1]
             hi == ends[i]
             z  == sizes[i]
  <2>1. hi = lo + 2 + z /\ z \in Nat
    BY WireOf
  <2>2. /\ \A q \in 1..2 : units[lo + q] = <<0, z>>
        /\ \A q \in 1..z : units[lo + 2 + q] = <<i, q>>
    BY DEF IsWire
  <2>3. lo \in Nat /\ hi \in Nat /\ hi <= Len(units)
    <3>1. i - 1 \in 0..n /\ i \in 0..n /\ i \in i - 1..n
      BY <1>1
    <3> QED BY <3>1, EndsGrow
  <2>4. upto[i] = hi /\ upto[i - 1] = lo /\ sizes'[i] = z
    <3>1. i - 1 \in 0..n /\ i \in 0..n
      BY <1>1
    <3> QED BY <1>3, <1>4, <3>1
  <2> HIDE DEF lo, hi, z, w
  <2>5. ASSUME NEW p \in 1..2 + z PROVE w[lo + p] = units[lo + p]
    <3>1. lo + p \in 1..Len(units) + (2 + size) /\ lo + p <= Len(units)
      BY <1>1, <2>1, <2>3
    <3> QED BY <1>2, <3>1
  <2>6. \A q \in 1..2 : w[lo + q] = <<0, z>>
    <3> TAKE q \in 1..2
    <3>1. q \in 1..2 + z
      BY <2>1
    <3> QED BY <2>2, <2>5, <3>1
  <2>7. \A q \in 1..z : w[lo + 2 + q] = <<i, q>>
    <3> TAKE q \in 1..z
    <3>1. 2 + q \in 1..2 + z /\ lo + (2 + q) = lo + 2 + q
      BY <2>1, <2>3
    <3> QED BY <2>2, <2>5, <3>1
  <2> QED BY <2>1, <2>4, <2>6, <2>7
<1>6. Here(n + 1)
  <2> DEFINE lo == Len(units)
  <2>1. upto[n + 1] = lo + 2 + size /\ upto[(n + 1) - 1] = lo /\ sizes'[n + 1] = size
    <3>1. (n + 1) - 1 = n /\ n \in 0..n
      BY <1>1
    <3>2. upto[n + 1] = lo + (2 + size) /\ upto[n] = lo
      BY <1>1, <1>3, <3>1
    <3> QED BY <1>1, <1>4, <3>1, <3>2
  <2> HIDE DEF w
  <2>2. ASSUME NEW p \in 1..2 + size PROVE w[lo + p] = frame[p]
    <3>1. lo + p \in 1..lo + (2 + size) /\ ~(lo + p <= lo) /\ (lo + p) - lo = p
      BY <1>1
    <3>2. w[lo + p] = IF lo + p <= lo THEN units[lo + p] ELSE frame[(lo + p) - lo]
      BY <1>2, <3>1, Zenon
    <3> QED BY <3>1, <3>2
  <2> HIDE DEF lo
  <2>3. \A q \in 1..2 : w[lo + q] = <<0, size>>
    <3> TAKE q \in 1..2
    <3>1. q \in 1..2 + size
      OBVIOUS
    <3> QED BY <2>2, <3>1
  <2>4. \A q \in 1..size : w[lo + 2 + q] = <<n + 1, q>>
    <3> TAKE q \in 1..size
    <3>1. 2 + q \in 1..2 + size /\ lo + (2 + q) = lo + 2 + q
      BY <1>1 DEF lo
    <3> QED BY <2>2, <3>1
  <2> QED BY <2>1, <2>3, <2>4
<1>7. \A i \in 1..n + 1 : Here(i)
  <2> TAKE i \in 1..n + 1
  <2> HIDE DEF Here
  <2>1. CASE i = n + 1
    BY <2>1, <1>6
  <2>2. CASE i # n + 1
    <3>1. i \in 1..n
      BY <1>1, <2>2
    <3> QED BY <3>1, <1>5
  <2> QED BY <2>1, <2>2
<1>8. n + 1 \in 0..Len(sizes') /\ upto[0] = 0 /\ Len(w) = upto[n + 1]
  <2>1. 0 \in 0..n
    BY <1>1
  <2> QED BY <1>1, <1>2, <1>3, <1>4, <2>1
<1> QED BY <1>2, <1>3, <1>7, <1>8 DEF IsWire

-----------------------------------------------------------------------------
(* The steps *)

LEMMA SizesAreNumbers ==
  ASSUME sizes \in Seq(MessageSizes)
  PROVE  sizes \in Seq(Nat) /\ Len(sizes) \in Nat
<1>1. Len(sizes) \in Nat /\ sizes = [i \in 1..Len(sizes) |-> sizes[i]]
  BY LenProperties, SeqDef
<1>2. \A i \in 1..Len(sizes) : sizes[i] \in Nat
  BY TCPMessagingAssumption, ElementOfSeq
<1> QED BY <1>1, <1>2, SeqDef

(* A stream with the buffers of another, or an ended one, follows the wire  *)
(* too.                                                                     *)
LEMMA FramingKept ==
  ASSUME NEW units, NEW ends, NEW n \in Nat, NEW s, NEW m \in Nat, NEW y, NEW queue,
         Framing(units, ends, n, s, queue, m, y),
         NEW t, \/ t.buffers = s.buffers /\ t.shutdown = s.shutdown
                \/ t.shutdown /\ t.buffers = << >>
  PROVE  Framing(units, ends, n, t, queue, m, y)
<1>1. CASE t.buffers = s.buffers /\ t.shutdown = s.shutdown
  BY <1>1 DEF Framing
<1>2. CASE t.shutdown /\ t.buffers = << >>
  <2>1. Len(t.buffers) = 0
    BY <1>2
  <2>2. m + 0 <= n /\ 1..0 = {}
    BY DEF Framing
  <2> QED BY <1>2, <2>1, <2>2 DEF Framing
<1> QED BY <1>1, <1>2

LEMMA WireKept ==
  ASSUME OnTheWire, UNCHANGED <<sizes, sendingQueue, tcp, receivingQueue, received>>,
         \/ sendStream'.buffers = sendStream.buffers /\ sendStream'.shutdown = sendStream.shutdown
         \/ sendStream'.shutdown /\ sendStream'.buffers = << >>
  PROVE  OnTheWire'
<1>1. PICK n, m, x, y \in Nat : \E ends, units :
        /\ IsWire(units, ends, n) /\ x <= y
        /\ Cutting(units, ends, n, receivingQueue, received, x)
        /\ tcp = Piece(units, x, y)
        /\ Framing(units, ends, n, sendStream, sendingQueue, m, y)
  BY DEF OnTheWire
<1>2. PICK ends, units :
        /\ IsWire(units, ends, n) /\ x <= y
        /\ Cutting(units, ends, n, receivingQueue, received, x)
        /\ tcp = Piece(units, x, y)
        /\ Framing(units, ends, n, sendStream, sendingQueue, m, y)
  BY <1>1
<1>3. IsWire(units, ends, n)'
  BY <1>2 DEF IsWire
<1>4. Cutting(units, ends, n, receivingQueue, received, x)'
  BY <1>2 DEF Cutting
<1>5. Framing(units, ends, n, sendStream', sendingQueue, m, y)
  BY <1>2, FramingKept
<1>6. Framing(units, ends, n, sendStream, sendingQueue, m, y)'
  BY <1>5 DEF Framing
<1>7. (tcp = Piece(units, x, y))' /\ x <= y
  BY <1>2 DEF Piece
<1> QED BY <1>3, <1>4, <1>6, <1>7, Zenon DEF OnTheWire

LEMMA ReadyPeer ==
  ASSUME NEW p \in PeerRecords, NEW ready \in BOOLEAN, NEW q, q = [p EXCEPT !.writeReady = ready]
  PROVE  /\ q \in PeerRecords /\ q.writeReady = ready
         /\ q.made = p.made /\ q.init = p.init /\ q.state = p.state
         /\ q.connectIssued = p.connectIssued /\ q.socket = p.socket
         /\ q.lingering = p.lingering /\ q.timer = p.timer
BY DEF PeerRecords

(* sendDataNow goes along the wire, and A will be called again while there  *)
(* is something to send.                                                    *)
LEMMA DataSent ==
  ASSUME sizes \in Seq(Nat), OnTheWire, peer \in [Peers -> PeerRecords],
         NEW p \in PeerRecords, NEW s, SendShape(s), NEW called \in BOOLEAN,
         s.buffers = sendStream.buffers, s.shutdown = sendStream.shutdown,
         s.shutdown => s.buffers = << >> /\ p.state = "Shutdown",
         p.init /\ ~s.shutdown => "reader" \in s.readers,
         p.state = "Connected" => p.socket /\ s.readerReady,
         p.state = "Connected" /\ ~p.writeReady => called,
         SendDataNow(p, s, called), UNCHANGED <<receivingQueue, received, sizes>>
  PROVE  /\ OnTheWire' /\ SendShape(sendStream') /\ writable' \in BOOLEAN
         /\ \E ready \in BOOLEAN : peer' = [peer EXCEPT !["A"] = [p EXCEPT !.writeReady = ready]]
         /\ Pursued(peer'["A"], sendStream', sendingQueue', writable')
<1> DEFINE all == Queued(s, Len(s.buffers))
           rests == p.state = "Shutdown" \/ ~p.socket \/ ~p.writeReady \/ all = 0
<1>1. PICK n, m, x, y \in Nat : \E ends, units :
        /\ IsWire(units, ends, n) /\ x <= y
        /\ Cutting(units, ends, n, receivingQueue, received, x)
        /\ tcp = Piece(units, x, y)
        /\ Framing(units, ends, n, sendStream, sendingQueue, m, y)
  BY DEF OnTheWire
<1>2. PICK ends, units :
        /\ IsWire(units, ends, n) /\ x <= y
        /\ Cutting(units, ends, n, receivingQueue, received, x)
        /\ tcp = Piece(units, x, y)
        /\ Framing(units, ends, n, sendStream, sendingQueue, m, y)
  BY <1>1
<1>3. Framing(units, ends, n, s, sendingQueue, m, y)
  BY <1>2, FramingKept
<1>4. "A" \in Peers /\ p.writeReady \in BOOLEAN
  BY DEF Peers, PeerRecords
<1>5. CASE rests
  <2> DEFINE q == IF p.writeReady THEN NothingSent([p EXCEPT !.writeReady = FALSE]) ELSE p
  <2>1. /\ peer' = [peer EXCEPT !["A"] = q] /\ sendStream' = s /\ writable' = called
        /\ UNCHANGED <<sendingQueue, tcp>>
    BY <1>5, Zenon DEF SendDataNow
  <2>2. q = [p EXCEPT !.writeReady = p.writeReady]
    BY <1>4 DEF NothingSent, PeerRecords
  <2> HIDE DEF q
  <2>3. q \in PeerRecords /\ q.writeReady = p.writeReady /\ q.init = p.init
        /\ q.state = p.state /\ q.socket = p.socket
    BY <1>4, <2>2, ReadyPeer
  <2>4. peer'["A"] = q
    BY <1>4, <2>1
  <2>5. OnTheWire'
    BY <2>1, WireKept
  <2>6. p.state = "Connected" /\ p.writeReady => s.buffers = << >> /\ sendingQueue = << >>
    <3> SUFFICES ASSUME p.state = "Connected", p.writeReady
                 PROVE  s.buffers = << >> /\ sendingQueue = << >>
      OBVIOUS
    <3>1. Queued(s, Len(s.buffers)) = 0
      BY <1>5
    <3> QED BY <1>2, <1>3, <3>1, NothingQueued
  <2>7. Pursued(q, s, sendingQueue, called)
    BY <2>3, <2>6 DEF Pursued
  <2> QED BY <1>4, <2>1, <2>2, <2>4, <2>5, <2>7
<1>6. CASE ~rests
  <2>1. PICK sent \in 0..all :
          LET read == BuffersRead(s, sent) IN
            /\ peer' = [peer EXCEPT !["A"] = [p EXCEPT !.writeReady = FALSE]]
            /\ sendStream' = StreamAfter(s, read)
            /\ sendingQueue' = Unsent(QueueWith(s, read), sent)
            /\ tcp' = tcp \o SubSeq(QueueWith(s, read), 1, sent)
            /\ writable' = TRUE
    BY <1>6, Zenon DEF SendDataNow
  <2> DEFINE read == BuffersRead(s, sent)
             t == StreamAfter(s, read)
             queue == Unsent(QueueWith(s, read), sent)
             carried == tcp \o SubSeq(QueueWith(s, read), 1, sent)
             q == [p EXCEPT !.writeReady = FALSE]
  <2>2. /\ peer' = [peer EXCEPT !["A"] = q] /\ sendStream' = t /\ sendingQueue' = queue
        /\ tcp' = carried /\ writable' = TRUE
    BY <2>1
  <2>3. ~s.shutdown
    BY <1>6
  <2>4. PICK k, z \in Nat : /\ x <= z /\ carried = Piece(units, x, z)
                           /\ Framing(units, ends, n, t, queue, k, z)
    <3>1. sent \in 0..Queued(s, Len(s.buffers)) /\ tcp = Piece(units, x, y) /\ x <= y
      BY <1>2
    <3>2. SentAlong(units, ends, n, s, x, sent)
      BY <1>2, <1>3, <2>3, <3>1, SentOnWire
    <3> QED BY <3>2 DEF SentAlong
  <2>5. read \in 0..Len(s.buffers)
    <3>1. \A j \in 0..Len(s.buffers) : Queued(s, j) \in Nat
      <4> TAKE j \in 0..Len(s.buffers)
      <4> DEFINE f == ends[m + j]
                 g == ends[m]
      <4>1. Queued(s, j) = f - y /\ f \in Nat /\ g \in Nat /\ y \in Nat /\ y <= g /\ g <= f
        BY <1>2, <1>3, QueuedOnWire
      <4> HIDE DEF f, g
      <4> QED BY <4>1
    <3>2. Len(s.buffers) \in 0..Len(s.buffers)
      BY LenProperties DEF SendShape
    <3>3. all \in Nat /\ sent \in 0..all
      BY <3>1, <3>2
    <3> QED BY <3>1, <3>3, ReadForSend
  <2>6. /\ SendShape(t) /\ t.shutdown = s.shutdown /\ t.readers = s.readers
        /\ s.readerReady => t.readerReady
    <3> HIDE DEF read
    <3> QED BY <2>5, StreamLeft
  <2> HIDE DEF t, queue, carried, read, q
  <2>7. OnTheWire'
    <3>1. IsWire(units, ends, n)'
      BY <1>2 DEF IsWire
    <3>2. Cutting(units, ends, n, receivingQueue, received, x)'
      BY <1>2 DEF Cutting
    <3>3. Framing(units, ends, n, sendStream, sendingQueue, k, z)'
      BY <2>2, <2>4 DEF Framing
    <3>4. (tcp = Piece(units, x, z))' /\ x <= z
      BY <2>2, <2>4 DEF Piece
    <3> QED BY <3>1, <3>2, <3>3, <3>4, Zenon DEF OnTheWire
  <2>8. q = [p EXCEPT !.writeReady = FALSE] /\ FALSE \in BOOLEAN
    BY DEF q
  <2>9. q.writeReady = FALSE /\ q.init = p.init /\ q.state = p.state /\ q.socket = p.socket
    BY <2>8, ReadyPeer
  <2>10. peer'["A"] = q
    BY <1>4, <2>2
  <2>11. Pursued(q, t, queue, TRUE)
    BY <2>3, <2>6, <2>9 DEF Pursued
  <2> QED BY <2>2, <2>6, <2>7, <2>8, <2>10, <2>11
<1> QED BY <1>5, <1>6

LEMMA MessageUnits ==
  ASSUME NEW k \in Nat, NEW z \in Nat
  PROVE  /\ Message(k, z) \in Seq(Units) /\ Len(Message(k, z)) = z
         /\ \A q \in 1..z : Message(k, z)[q] = <<k, q>>
<1>1. \A q \in 1..z : <<k, q>> \in Units
  BY DEF Units
<1> QED BY <1>1 DEF Message

(* What is on the wire stays there when a message is written. *)
LEMMA OldWire ==
  ASSUME sizes \in Seq(Nat), NEW size \in Nat, sizes' = Append(sizes, size)
  PROVE  /\ Len(sizes) \in Nat /\ Len(sizes') = Len(sizes) + 1
         /\ sizes'[Len(sizes) + 1] = size
         /\ \A i \in 1..Len(sizes) : sizes'[i] = sizes[i]
BY LenProperties, AppendProperties

LEMMA WireWrittenEnded ==
  ASSUME sizes \in Seq(Nat), OnTheWire, NEW size \in Nat, sizes' = Append(sizes, size),
         sendStream.shutdown, sendStream' = sendStream,
         UNCHANGED <<sendingQueue, tcp, receivingQueue, received>>
  PROVE  OnTheWire'
<1>1. PICK n, m, x, y \in Nat : \E ends, units :
        /\ IsWire(units, ends, n) /\ x <= y
        /\ Cutting(units, ends, n, receivingQueue, received, x)
        /\ tcp = Piece(units, x, y)
        /\ Framing(units, ends, n, sendStream, sendingQueue, m, y)
  BY DEF OnTheWire
<1>2. PICK ends, units :
        /\ IsWire(units, ends, n) /\ x <= y
        /\ Cutting(units, ends, n, receivingQueue, received, x)
        /\ tcp = Piece(units, x, y)
        /\ Framing(units, ends, n, sendStream, sendingQueue, m, y)
  BY <1>1
<1>3. Len(sizes) \in Nat /\ Len(sizes') = Len(sizes) + 1 /\ n <= Len(sizes)
  BY <1>2, OldWire, WireOf
<1>4. \A i \in 1..n : sizes'[i] = sizes[i]
  <2>1. \A i \in 1..n : i \in 1..Len(sizes)
    BY <1>3
  <2> QED BY <2>1, OldWire
<1>5. IsWire(units, ends, n)'
  <2>1. n \in 0..Len(sizes')
    BY <1>3
  <2>2. /\ ends \in [0..n -> Nat] /\ ends[0] = 0
        /\ units \in Seq(Units) /\ Len(units) = ends[n]
    BY <1>2 DEF IsWire
  <2>3. ASSUME NEW i \in 1..n
        PROVE  /\ ends[i] = ends[i - 1] + 2 + sizes'[i]
               /\ \A q \in 1..2 : units[ends[i - 1] + q] = <<0, sizes'[i]>>
               /\ \A q \in 1..sizes'[i] : units[ends[i - 1] + 2 + q] = <<i, q>>
    <3>1. sizes'[i] = sizes[i]
      BY <1>4
    <3>2. /\ ends[i] = ends[i - 1] + 2 + sizes[i]
          /\ \A q \in 1..2 : units[ends[i - 1] + q] = <<0, sizes[i]>>
          /\ \A q \in 1..sizes[i] : units[ends[i - 1] + 2 + q] = <<i, q>>
      BY <1>2 DEF IsWire
    <3> QED BY <3>1, <3>2
  <2> QED BY <2>1, <2>2, <2>3 DEF IsWire
<1>6. Cutting(units, ends, n, receivingQueue, received, x)'
  <2>1. \A i \in 1..Len(received) : sizes'[i] = sizes[i]
    <3>1. Len(received) <= n /\ Len(received) \in Nat
      BY <1>2, LenProperties DEF Cutting
    <3>2. \A i \in 1..Len(received) : i \in 1..n
      BY <3>1
    <3> QED BY <1>4, <3>2
  <2>2. UNCHANGED <<receivingQueue, received>>
    OBVIOUS
  <2> QED BY <1>2, <2>1, <2>2 DEF Cutting
<1>7. Framing(units, ends, n, sendStream, sendingQueue, m, y)'
  <2> DEFINE L == Len(sendStream.buffers)
  <2>1. /\ m \in 0..n /\ y \in 0..ends[m] /\ sendingQueue = Piece(units, y, ends[m])
        /\ m + L <= n
        /\ \A i \in 1..L : sendStream.buffers[i].left = Message(m + i, sizes[m + i])
    BY <1>2 DEF Framing
  <2>2. \A i \in 1..L : sizes'[m + i] = sizes[m + i]
    <3> TAKE i \in 1..L
    <3>1. m + i \in 1..n
      BY <2>1
    <3> QED BY <1>4, <3>1
  <2> QED BY <2>1, <2>2 DEF Framing
<1>8. (tcp = Piece(units, x, y))' /\ x <= y
  BY <1>2 DEF Piece
<1> QED BY <1>5, <1>6, <1>7, <1>8, Zenon DEF OnTheWire

LEMMA WireWritten ==
  ASSUME sizes \in Seq(Nat), OnTheWire, NEW size \in Nat, sizes' = Append(sizes, size),
         SendShape(sendStream), ~sendStream.shutdown, ~sendStream'.shutdown,
         sendStream'.buffers = Append(sendStream.buffers,
                                 [left |-> Message(Len(sizes'), size), header |-> "none"]),
         UNCHANGED <<sendingQueue, tcp, receivingQueue, received>>
  PROVE  OnTheWire'
<1>1. PICK n, m, x, y \in Nat : \E ends, units :
        /\ IsWire(units, ends, n) /\ x <= y
        /\ Cutting(units, ends, n, receivingQueue, received, x)
        /\ tcp = Piece(units, x, y)
        /\ Framing(units, ends, n, sendStream, sendingQueue, m, y)
  BY DEF OnTheWire
<1>2. PICK ends, units :
        /\ IsWire(units, ends, n) /\ x <= y
        /\ Cutting(units, ends, n, receivingQueue, received, x)
        /\ tcp = Piece(units, x, y)
        /\ Framing(units, ends, n, sendStream, sendingQueue, m, y)
  BY <1>1
<1> DEFINE b == [left |-> Message(n + 1, size), header |-> "none"]
           frame == Frame(b)
           w == units \o frame
           upto == [i \in 0..n + 1 |-> IF i = n + 1 THEN ends[n] + 2 + size ELSE ends[i]]
           L == Len(sendStream.buffers)
           k == Len(received)
<1>3. /\ m \in 0..n /\ y \in 0..ends[m] /\ sendingQueue = Piece(units, y, ends[m])
      /\ m + L = n /\ n = Len(sizes)
      /\ \A i \in 1..L : sendStream.buffers[i].left = Message(m + i, sizes[m + i])
  BY <1>2 DEF Framing
<1>4. /\ units \in Seq(Units) /\ Len(units) \in Nat /\ ends \in [0..n -> Nat]
      /\ ends[n] = Len(units)
  BY <1>2, WireOf
<1>5. Len(sizes') = n + 1 /\ sizes'[n + 1] = size /\ \A i \in 1..n : sizes'[i] = sizes[i]
  BY <1>3, OldWire
<1>6. /\ b.left \in Seq(Units) /\ Len(b.left) = size
      /\ \A q \in 1..size : b.left[q] = <<n + 1, q>>
  <2> DEFINE j == n + 1
  <2>1. b.left = Message(j, size)
    BY Zenon
  <2>2. j \in Nat
    OBVIOUS
  <2> HIDE DEF j, b
  <2>3. /\ Message(j, size) \in Seq(Units) /\ Len(Message(j, size)) = size
        /\ \A q \in 1..size : Message(j, size)[q] = <<j, q>>
    BY <2>2, MessageUnits, Zenon
  <2> QED BY <2>1, <2>3, Zenon DEF j
<1>7. /\ frame \in Seq(Units) /\ Len(frame) = 2 + size
      /\ \A q \in 1..2 : frame[q] = <<0, size>>
      /\ \A q \in 1..size : frame[2 + q] = <<n + 1, q>>
  <2> HIDE DEF b, frame
  <2>1. /\ frame \in Seq(Units) /\ Len(frame) = 2 + Len(b.left)
        /\ \A q \in 1..2 : frame[q] = <<0, Len(b.left)>>
        /\ \A q \in 1..Len(b.left) : frame[2 + q] = b.left[q]
    BY <1>6, FrameUnits DEF frame
  <2> QED BY <1>6, <2>1
<1>8. sendStream'.buffers = Append(sendStream.buffers, b) /\ b.left = Message(n + 1, size)
  BY <1>5
<1> HIDE DEF b, frame
<1>9. IsWire(w, upto, n + 1)'
  <2>1. upto = [i \in 0..n + 1 |-> IF i = n + 1 THEN ends[n] + 2 + size ELSE ends[i]]
    OBVIOUS
  <2>2. IsWire(units, ends, n)
    BY <1>2
  <2> HIDE DEF upto
  <2> QED BY <1>3, <1>7, <2>1, <2>2, WireGrows
<1>10. \A i \in 0..n : upto[i] = ends[i]
  <2> TAKE i \in 0..n
  <2>1. i \in 0..n + 1 /\ i # n + 1
    OBVIOUS
  <2> QED BY <2>1
<1> HIDE DEF upto
<1>11. Len(w) \in Nat /\ Len(units) <= Len(w)
  <2>1. Len(w) = Len(units) + Len(frame)
    BY <1>4, <1>7, ConcatProperties
  <2> QED BY <1>4, <1>7, <2>1
<1>12. ASSUME NEW c \in Nat, NEW d \in Nat, c <= d, d <= Len(units)
       PROVE  Piece(w, c, d) = Piece(units, c, d)
  BY <1>4, <1>7, <1>12, PieceOfLonger
<1> HIDE DEF w, L
<1>13. /\ k \in 0..n /\ x \in ends[k]..Len(units) /\ ends[k] \in Nat
       /\ receivingQueue = Piece(units, ends[k], x) /\ received \in Seq(Seq(Units))
       /\ \A i \in 1..k : received[i] = Message(i, sizes[i])
  <2>1. k \in 0..n
    BY <1>2, LenProperties DEF Cutting
  <2> QED BY <1>2, <1>4, <2>1 DEF Cutting
<1> HIDE DEF k
<1>14. Cutting(w, upto, n + 1, receivingQueue, received, x)'
  <2>1. Piece(w, ends[k], x) = Piece(units, ends[k], x) /\ x \in ends[k]..Len(w) /\ k <= n + 1
    <3> DEFINE e == ends[k]
    <3>1. e \in Nat /\ x \in Nat /\ e <= x /\ x <= Len(units) /\ x \in e..Len(w)
      BY <1>4, <1>11, <1>13
    <3> HIDE DEF e
    <3>2. Piece(w, e, x) = Piece(units, e, x)
      BY <1>12, <3>1
    <3> QED BY <1>13, <3>1, <3>2 DEF e
  <2>2. upto[k] = ends[k]
    BY <1>10, <1>13
  <2>3. \A i \in 1..k : received[i] = Message(i, sizes'[i])
    <3> TAKE i \in 1..k
    <3>1. i \in 1..n
      BY <1>13
    <3> QED BY <1>5, <1>13, <3>1
  <2>4. k = Len(received) /\ UNCHANGED <<received, receivingQueue>>
    BY DEF k
  <2> QED BY <1>13, <2>1, <2>2, <2>3, <2>4 DEF Cutting
<1>15. Framing(w, upto, n + 1, sendStream, sendingQueue, m, y)'
  <2> DEFINE bs == sendStream'.buffers
  <2>1. m \in 0..n + 1 /\ upto[m] = ends[m] /\ m \in Nat
    BY <1>3, <1>10
  <2>2. Piece(w, y, ends[m]) = Piece(units, y, ends[m]) /\ y \in 0..ends[m]
    <3> DEFINE e == ends[m]
    <3>1. e \in Nat /\ e <= Len(units)
      <4>1. n \in m..n
        BY <1>3
      <4> QED BY <1>2, <1>3, <4>1, EndsGrow
    <3>2. y \in Nat /\ y <= e /\ y \in 0..e
      BY <1>3, <3>1
    <3> HIDE DEF e
    <3>3. Piece(w, y, e) = Piece(units, y, e)
      BY <1>12, <3>1, <3>2
    <3> QED BY <3>2, <3>3 DEF e
  <2>3. /\ Len(bs) = L + 1 /\ bs[L + 1] = b /\ L \in Nat
        /\ \A i \in 1..L : bs[i] = sendStream.buffers[i]
    <3>1. sendStream.buffers \in Seq(Buffers)
      BY DEF SendShape
    <3> QED BY <1>8, <3>1 DEF L
  <2> HIDE DEF bs
  <2>4. ASSUME NEW i \in 1..L + 1 PROVE bs[i].left = Message(m + i, sizes'[m + i])
    <3>1. CASE i = L + 1
      <4>1. m + i = n + 1
        <5>1. /\ m \in Nat /\ L \in Nat /\ n \in Nat /\ m + L = n /\ i = L + 1
          BY <1>3, <2>1, <2>3, <3>1
        <5> QED BY ONLY <5>1
      <4> QED BY <1>5, <1>8, <2>3, <3>1, <4>1
    <3>2. CASE i # L + 1
      <4>1. i \in 1..L /\ m + i \in 1..n
        <5>1. /\ m \in Nat /\ L \in Nat /\ n \in Nat /\ m + L = n /\ i \in 1..L + 1 /\ i # L + 1
          BY <1>3, <2>1, <2>3, <3>2
        <5> QED BY ONLY <5>1
      <4> QED BY <1>3, <1>5, <2>3, <4>1
    <3> QED BY <3>1, <3>2
  <2>5. m + Len(bs) = n + 1 /\ m + Len(bs) <= n + 1
    BY <1>3, <2>1, <2>3
  <2>6. sendingQueue' = Piece(w, y, upto[m]) /\ y \in 0..upto[m]
    BY <1>3, <2>1, <2>2
  <2>7. \A i \in 1..Len(bs) : bs[i].left = Message(m + i, sizes'[m + i])
    BY <2>3, <2>4
  <2> QED BY <1>5, <2>1, <2>5, <2>6, <2>7 DEF Framing, bs
<1>16. (tcp = Piece(w, x, y))' /\ x <= y
  <2>1. y <= Len(units)
    <3> DEFINE e == ends[m]
    <3>1. e \in Nat /\ e <= Len(units) /\ y <= e
      <4>1. n \in m..n
        BY <1>3
      <4> QED BY <1>2, <1>3, <4>1, EndsGrow
    <3> HIDE DEF e
    <3> QED BY <1>4, <3>1
  <2>2. Piece(w, x, y) = Piece(units, x, y)
    BY <1>2, <1>12, <2>1
  <2> QED BY <1>2, <2>2 DEF Piece
<1>17. n + 1 \in Nat
  OBVIOUS
<1> QED BY <1>9, <1>14, <1>15, <1>16, <1>17, Zenon DEF OnTheWire

(* onReadReady follows the wire, and leaves no whole message but one that   *)
(* is too large.                                                            *)
LEMMA WireRead ==
  ASSUME sizes \in Seq(Nat), Len(sizes) <= MaxMessages, OnTheWire,
         NEW c \in 1..Len(tcp),
         NEW r, r = ParseAll(receivingQueue \o SubSeq(tcp, 1, c)),
         receivingQueue' = r.queue, received' = r.got,
         tcp' = SubSeq(tcp, c + 1, Len(tcp)), UNCHANGED <<sendingQueue, sizes>>,
         \/ sendStream'.buffers = sendStream.buffers /\ sendStream'.shutdown = sendStream.shutdown
         \/ sendStream'.shutdown /\ sendStream'.buffers = << >>
  PROVE  /\ OnTheWire' /\ Len(received) <= Len(received')
         /\ TooLarge(r.queue) \/ ~FrameWaits(r.queue)
<1>1. PICK n, m, x, y \in Nat : \E ends, units :
        /\ IsWire(units, ends, n) /\ x <= y
        /\ Cutting(units, ends, n, receivingQueue, received, x)
        /\ tcp = Piece(units, x, y)
        /\ Framing(units, ends, n, sendStream, sendingQueue, m, y)
  BY DEF OnTheWire
<1>2. PICK ends, units :
        /\ IsWire(units, ends, n) /\ x <= y
        /\ Cutting(units, ends, n, receivingQueue, received, x)
        /\ tcp = Piece(units, x, y)
        /\ Framing(units, ends, n, sendStream, sendingQueue, m, y)
  BY <1>1
<1> DEFINE e == ends[Len(received)]
           f == ends[m]
           z == x + c
           queue == receivingQueue \o SubSeq(tcp, 1, c)
<1>3. units \in Seq(Units) /\ Len(units) \in Nat /\ n \in Nat
  BY <1>2, WireOf
<1>4. e \in Nat /\ e <= x /\ Len(received) \in 0..n
  BY <1>2, NextFrame
<1>5. f \in Nat /\ f <= Len(units) /\ y <= f /\ m \in 0..n
  <2>1. m \in 0..n /\ y \in 0..f /\ n \in m..n
    BY <1>1, <1>2, <1>3 DEF Framing
  <2>2. f \in Nat /\ f <= Len(units)
    BY <1>2, <2>1, EndsGrow
  <2> HIDE DEF f
  <2> QED BY <2>1, <2>2
<1> HIDE DEF f
<1>6. Len(tcp) = y - x
  <2>1. y <= Len(units)
    BY <1>1, <1>3, <1>5
  <2>2. /\ units \in Seq(Units) /\ x \in Nat /\ y \in Nat /\ x <= y /\ y <= Len(units)
        /\ tcp = Piece(units, x, y)
    BY <1>1, <1>2, <1>3, <2>1
  <2> QED BY ONLY <2>2, PieceUnits
<1>7. z \in Nat /\ x <= z /\ z <= y /\ z <= Len(units) /\ c \in Nat /\ y <= Len(units)
  BY <1>2, <1>3, <1>5, <1>6
<1>8. SubSeq(tcp, 1, c) = Piece(units, x, z)
  <2>1. SubSeq(tcp, 1, c) = Piece(Piece(units, x, y), 0, c)
    BY <1>2 DEF Piece
  <2>2. 0 \in Nat /\ 0 <= c /\ c <= y - x /\ x + 0 = x
    BY <1>6, <1>7
  <2>3. Piece(Piece(units, x, y), 0, c) = Piece(units, x + 0, x + c)
    <3>1. x <= y
      BY <1>2
    <3> QED BY <1>3, <1>7, <2>2, <3>1, PieceOfPiece
  <2> QED BY <2>1, <2>2, <2>3
<1>9. tcp' = Piece(units, z, y)
  <2>1. tcp' = Piece(Piece(units, x, y), c, y - x)
    BY <1>2, <1>6 DEF Piece
  <2> DEFINE d == y - x
  <2>2. c <= d /\ d <= y - x /\ d \in Nat /\ x + d = y
    BY <1>6, <1>7, <1>2
  <2> HIDE DEF d
  <2>3. Piece(Piece(units, x, y), c, d) = Piece(units, x + c, x + d)
    <3>1. x <= y
      BY <1>2
    <3> QED BY <1>3, <1>7, <2>2, <3>1, PieceOfPiece
  <2> QED BY <2>1, <2>2, <2>3 DEF d
<1>10. queue = Piece(units, e, z)
  <2>1. receivingQueue = Piece(units, e, x)
    BY <1>2 DEF Cutting
  <2> HIDE DEF e, z
  <2>2. Piece(units, e, x) \o Piece(units, x, z) = Piece(units, e, z)
    <3>1. /\ units \in Seq(Units) /\ e \in Nat /\ x \in Nat /\ z \in Nat
          /\ e <= x /\ x <= z /\ z <= Len(units)
      BY <1>3, <1>4, <1>7
    <3> QED BY ONLY <3>1, PiecesMeet
  <2> QED BY <1>8, <2>1, <2>2
<1>11. Cutting(units, ends, n, queue, received, z)
  <2>1. z \in e..Len(units)
    BY <1>3, <1>4, <1>7
  <2> QED BY <1>2, <1>10, <2>1 DEF Cutting
<1> HIDE DEF e, z
<1>12. /\ Cutting(units, ends, n, r.queue, r.got, z)
       /\ Len(received) <= Len(r.got)
       /\ TooLarge(r.queue) \/ ~FrameWaits(r.queue)
  <2>1. r = ParseAll(queue)
    OBVIOUS
  <2> HIDE DEF queue
  <2> QED BY <1>2, <1>11, <2>1, AllParsed
<1>13. IsWire(units, ends, n)'
  BY <1>2 DEF IsWire
<1>14. Cutting(units, ends, n, receivingQueue, received, z)'
  BY <1>12 DEF Cutting
<1>15. Framing(units, ends, n, sendStream', sendingQueue, m, y)
  BY <1>2, FramingKept
<1>16. Framing(units, ends, n, sendStream, sendingQueue, m, y)'
  BY <1>15 DEF Framing
<1>17. (tcp = Piece(units, z, y))' /\ z <= y
  BY <1>7, <1>9 DEF Piece
<1>18. OnTheWire'
  BY <1>7, <1>13, <1>14, <1>16, <1>17, Zenon DEF OnTheWire
<1> QED BY <1>12, <1>18

-----------------------------------------------------------------------------
(* The life of an object *)

LEMMA CancelledLives ==
  ASSUME NEW p \in PeerRecords, Living(p), p.made, NEW q, q = CancelledPeer(p)
  PROVE  /\ q \in PeerRecords /\ Living(q)
         /\ q.made /\ q.init = p.init /\ q.lingering = p.lingering
         /\ p.lingering => q.state = "ShuttingDown" /\ q.socket = p.socket
         /\ ~p.lingering => q.state = "Shutdown" /\ ~q.socket
<1>1. CASE p.lingering
  BY <1>1 DEF CancelledPeer, PeerRecords, Living, States
<1>2. CASE ~p.lingering
  BY <1>2 DEF CancelledPeer, PeerRecords, Living, States
<1> QED BY <1>1, <1>2

LEMMA LingerLives ==
  ASSUME NEW p \in PeerRecords, Living(p), p.made, NEW q, q = Linger(p)
  PROVE  /\ q \in PeerRecords /\ Living(q) /\ q.state = "ShuttingDown"
         /\ q.made /\ q.init = p.init /\ q.lingering /\ q.socket = p.socket
<1> DEFINE r == Lingering(p)
<1>1. /\ r \in PeerRecords /\ Living(r) /\ r.made /\ r.init = p.init /\ r.lingering
      /\ r.socket = p.socket
  BY DEF Lingering, PeerRecords, Living, States
<1>2. q = CancelledPeer(r)
  BY DEF Linger
<1> HIDE DEF r
<1> QED BY <1>1, <1>2, CancelledLives

LEMMA FiredLives ==
  ASSUME NEW p \in PeerRecords, Living(p), p.made, NEW q, q = CancelledPeer(TimerFired(p))
  PROVE  /\ q \in PeerRecords /\ Living(q) /\ q.state = "Shutdown"
         /\ q.made /\ q.init = p.init /\ ~q.lingering /\ ~q.socket
BY DEF CancelledPeer, TimerFired, PeerRecords, Living, States

LEMMA NewLives ==
  ASSUME NEW issued \in BOOLEAN, NEW socket \in BOOLEAN, NEW yes, yes = TRUE,
         NEW no, no = FALSE,
         NEW p, p = [made |-> yes, init |-> no, state |-> "Pending", connectIssued |-> issued,
                     writeReady |-> no, socket |-> socket, lingering |-> no, timer |-> no]
  PROVE  /\ p \in PeerRecords /\ Living(p) /\ p.made /\ ~p.init /\ ~p.lingering
         /\ p.state = "Pending" /\ p.socket = socket
<1>0. yes \in BOOLEAN /\ no \in BOOLEAN
  OBVIOUS
<1>1. p \in PeerRecords
  BY <1>0 DEF PeerRecords, States
<1>2. /\ p.made = yes /\ p.init = no /\ p.lingering = no /\ p.state = "Pending"
      /\ p.socket = socket
  OBVIOUS
<1>3. p.made /\ ~p.init /\ ~p.lingering
  BY <1>2
<1> QED BY <1>1, <1>2, <1>3 DEF Living

LEMMA ConnectingLives ==
  ASSUME NEW p, p = [New EXCEPT !.made = TRUE, !.connectIssued = TRUE, !.socket = TRUE]
  PROVE  /\ p \in PeerRecords /\ Living(p) /\ p.made /\ ~p.init /\ p.state = "Pending"
<1> DEFINE yes == TRUE
           no  == FALSE
<1>1. /\ p = [made |-> yes, init |-> no, state |-> "Pending", connectIssued |-> yes,
              writeReady |-> no, socket |-> yes, lingering |-> no, timer |-> no]
  BY DEF New
<1>2. yes = TRUE /\ yes \in BOOLEAN /\ no = FALSE /\ no \in BOOLEAN
  OBVIOUS
<1> HIDE DEF yes, no
<1> QED BY ONLY <1>1, <1>2, NewLives, ZenonT(30)

LEMMA AcceptedLives ==
  ASSUME NEW p, p = [New EXCEPT !.made = TRUE, !.socket = TRUE]
  PROVE  /\ p \in PeerRecords /\ Living(p) /\ p.made /\ ~p.init /\ p.state = "Pending"
         /\ ~p.lingering
<1> DEFINE yes == TRUE
           no  == FALSE
<1>1. /\ p = [made |-> yes, init |-> no, state |-> "Pending", connectIssued |-> no,
              writeReady |-> no, socket |-> yes, lingering |-> no, timer |-> no]
  BY DEF New
<1>2. yes = TRUE /\ yes \in BOOLEAN /\ no = FALSE /\ no \in BOOLEAN
  OBVIOUS
<1> HIDE DEF yes, no
<1> QED BY ONLY <1>1, <1>2, NewLives, ZenonT(30)

LEMMA RefusedLives ==
  ASSUME NEW p, p = [New EXCEPT !.made = TRUE]
  PROVE  /\ p \in PeerRecords /\ Living(p) /\ p.made /\ ~p.init /\ ~p.socket
<1> DEFINE yes == TRUE
           no  == FALSE
<1>1. /\ p = [made |-> yes, init |-> no, state |-> "Pending", connectIssued |-> no,
              writeReady |-> no, socket |-> no, lingering |-> no, timer |-> no]
  BY DEF New
<1>2. yes = TRUE /\ yes \in BOOLEAN /\ no = FALSE /\ no \in BOOLEAN
  OBVIOUS
<1> HIDE DEF yes, no
<1>3. p \in PeerRecords /\ Living(p) /\ p.made /\ ~p.init /\ p.socket = no
  BY ONLY <1>1, <1>2, NewLives
<1> QED BY <1>2, <1>3

(* A step of the object e *)
LEMMA PeerStep ==
  ASSUME TCPLife, ~gone, NEW e \in Peers, NEW q \in PeerRecords,
         peer' = [peer EXCEPT ![e] = q], Living(q), sizes' = sizes,
         writable' \in BOOLEAN, gone' \in BOOLEAN, SendShape(sendStream'),
         Pursued(peer'["A"], sendStream', sendingQueue', writable'),
         gone' => ~q.init, ~gone' => AllCut(peer'["B"], receivingQueue')
  PROVE  TCPLife'
<1>1. peer \in [Peers -> PeerRecords] /\ \A o \in Peers : Living(peer[o])
  BY DEF TCPLife
<1>2. peer' \in [Peers -> PeerRecords] /\ peer'[e] = q
  BY <1>1
<1>3. \A o \in Peers : Living(peer'[o])
  BY <1>1
<1>4. gone' => \E o \in Peers : ~peer'[o].init
  BY <1>2
<1>5. SendShape(sendStream)' /\ Pursued(peer["A"], sendStream, sendingQueue, writable)'
  BY DEF SendShape, Pursued
<1>6. \A o \in Peers : Living(peer[o])'
  BY <1>3 DEF Living
<1>7. ~gone' => AllCut(peer["B"], receivingQueue)'
  BY DEF AllCut, FrameWaits
<1>8. (sizes \in Seq(MessageSizes) /\ Len(sizes) <= MaxMessages)'
  BY DEF TCPLife
<1> QED BY <1>2, <1>4, <1>5, <1>6, <1>7, <1>8 DEF TCPLife

(* cancel() *)
LEMMA CancelStep ==
  ASSUME TCPLife, ~gone, NEW e \in Peers, peer[e].made, peer[e].state # "Shutdown",
         NEW q, q = CancelledPeer(peer[e]), peer' = [peer EXCEPT ![e] = q], CancelRest(e),
         UNCHANGED <<sendingQueue, writable, sizes>>,
         receivingQueue' = receivingQueue \/ (e = "B" /\ peer["B"].socket)
  PROVE  /\ TCPLife'
         /\ \/ sendStream' = sendStream
            \/ sendStream'.shutdown /\ sendStream'.buffers = << >>
<1> DEFINE p == peer[e]
<1>1. /\ peer \in [Peers -> PeerRecords] /\ SendShape(sendStream)
      /\ writable \in BOOLEAN /\ gone \in BOOLEAN /\ \A o \in Peers : Living(peer[o])
      /\ Pursued(peer["A"], sendStream, sendingQueue, writable)
      /\ AllCut(peer["B"], receivingQueue)
  BY DEF TCPLife
<1>2. p \in PeerRecords /\ Living(p) /\ p.made /\ p.init \in BOOLEAN /\ p.lingering \in BOOLEAN
  BY <1>1 DEF PeerRecords
<1>3. peer' = [peer EXCEPT ![e] = q] /\ peer'[e] = q
  BY <1>1
<1>4. "A" \in Peers /\ "B" \in Peers
  BY DEF Peers
<1>5. /\ q \in PeerRecords /\ Living(q) /\ q.made /\ q.init = p.init
      /\ q.lingering = p.lingering
      /\ p.lingering => q.state = "ShuttingDown" /\ q.socket = p.socket
      /\ ~p.lingering => q.state = "Shutdown" /\ ~q.socket
  BY <1>2, CancelledLives
<1>6. /\ p.lingering => sendStream' = sendStream /\ gone' = gone
      /\ ~p.lingering => gone' = (gone \/ ~p.init)
      /\ ~p.lingering /\ e = "A" => sendStream' = SendStream!CancelledStream(sendStream)
      /\ e # "A" => sendStream' = sendStream
  BY DEF CancelRest
<1>7. /\ SendShape(sendStream')
      /\ \/ sendStream' = sendStream
         \/ sendStream'.shutdown /\ sendStream'.buffers = << >> /\ e = "A" /\ ~p.lingering
  BY <1>1, <1>2, <1>6, SendCancelled
<1>8. Pursued(peer'["A"], sendStream', sendingQueue', writable')
  <2>1. CASE e = "A"
    <3>1. peer'["A"] = q /\ peer["A"] = p /\ p.state # "Shutdown"
      BY <1>3, <2>1
    <3>2. ~sendStream.shutdown /\ (p.init => "reader" \in sendStream.readers)
      BY <1>1, <3>1 DEF Pursued
    <3>3. q.state # "Connected"
      BY <1>2, <1>5
    <3>4. sendStream'.shutdown => sendStream'.buffers = << >> /\ q.state = "Shutdown"
      BY <1>5, <1>7, <3>2
    <3>5. q.init /\ ~sendStream'.shutdown => "reader" \in sendStream'.readers
      BY <1>5, <1>7, <3>2
    <3> HIDE DEF p
    <3> QED BY <3>1, <3>3, <3>4, <3>5 DEF Pursued
  <2>2. CASE e # "A"
    <3>1. peer'["A"] = peer["A"] /\ sendStream' = sendStream
      BY <1>1, <1>4, <1>6, <2>2
    <3> QED BY <1>1, <3>1
  <2> QED BY <2>1, <2>2
<1>9. gone' \in BOOLEAN /\ (gone' => ~q.init)
  <2>1. CASE p.lingering
    <3>1. gone' = gone /\ gone = FALSE
      BY <1>1, <1>6, <2>1
    <3> QED BY <3>1
  <2>2. CASE ~p.lingering
    <3>1. gone' = ~p.init
      BY <1>6, <2>2, Zenon
    <3>2. q.init = p.init /\ p.init \in BOOLEAN
      BY <1>2, <1>5
    <3> HIDE DEF p
    <3>3. CASE p.init
      <4>1. gone' = FALSE
        BY <3>1, <3>3
      <4> QED BY <4>1
    <3>4. CASE ~p.init
      <4>1. gone' = TRUE /\ ~q.init
        BY <3>1, <3>2, <3>4
      <4> QED BY <4>1
    <3> QED BY <3>3, <3>4
  <2> QED BY <2>1, <2>2
<1>10. ~gone' => AllCut(peer'["B"], receivingQueue')
  <2> SUFFICES ASSUME ~gone' PROVE AllCut(peer'["B"], receivingQueue')
    OBVIOUS
  <2>1. CASE e = "B"
    <3>1. peer'["B"] = q /\ peer["B"] = p
      BY <1>3, <2>1
    <3>2. p.lingering \/ p.init
      BY <1>2, <1>6
    <3>3. /\ p.lingering /\ ~p.init => ~p.socket
          /\ ~p.init => ~FrameWaits(receivingQueue)
      BY <1>1, <3>1 DEF AllCut
    <3>4. ~p.init => receivingQueue' = receivingQueue
      BY <3>1, <3>2, <3>3
    <3>5. q.state \in {"ShuttingDown", "Shutdown"}
      BY <1>2, <1>5
    <3>6. q.lingering /\ ~q.init => ~q.socket
      BY <1>5, <3>3
    <3> HIDE DEF p
    <3> QED BY <1>5, <3>1, <3>3, <3>4, <3>5, <3>6 DEF AllCut
  <2>2. CASE e # "B"
    <3>1. peer'["B"] = peer["B"] /\ receivingQueue' = receivingQueue
      BY <1>1, <1>4, <2>2
    <3> QED BY <1>1, <3>1
  <2> QED BY <2>1, <2>2
<1> HIDE DEF p
<1>11. TCPLife'
  BY <1>1, <1>3, <1>5, <1>7, <1>8, <1>9, <1>10, PeerStep
<1> QED BY <1>7, <1>11

-----------------------------------------------------------------------------
(* Every step keeps TCPInv. *)

LEMMA PeerFacts ==
  ASSUME TCPLife
  PROVE  /\ peer \in [Peers -> PeerRecords] /\ SendShape(sendStream)
         /\ sizes \in Seq(Nat) /\ Len(sizes) \in Nat /\ Len(sizes) <= MaxMessages
         /\ writable \in BOOLEAN /\ gone \in BOOLEAN
         /\ Pursued(peer["A"], sendStream, sendingQueue, writable)
         /\ ~gone => AllCut(peer["B"], receivingQueue)
         /\ "A" \in Peers /\ "B" \in Peers
         /\ \A e \in Peers : /\ peer[e] \in PeerRecords /\ Living(peer[e])
                             /\ peer[e].init \/ peer[e].socket \/ peer[e].timer => peer[e].made
<1>1. /\ peer \in [Peers -> PeerRecords] /\ SendShape(sendStream)
      /\ writable \in BOOLEAN /\ gone \in BOOLEAN
      /\ Pursued(peer["A"], sendStream, sendingQueue, writable)
      /\ ~gone => AllCut(peer["B"], receivingQueue)
      /\ \A e \in Peers : Living(peer[e])
  BY DEF TCPLife
<1>2. sizes \in Seq(Nat) /\ Len(sizes) \in Nat /\ Len(sizes) <= MaxMessages
  BY SizesAreNumbers DEF TCPLife
<1>3. \A e \in Peers : peer[e].init \/ peer[e].socket \/ peer[e].timer => peer[e].made
  BY <1>1 DEF Living
<1> QED BY <1>1, <1>2, <1>3 DEF Peers

(* Before A connects, and as long as it did not end, its stream is open.    *)
LEMMA StreamOpen ==
  ASSUME TCPLife, peer["A"].state # "Shutdown"
  PROVE  ~sendStream.shutdown
BY DEF TCPLife, Pursued

LEMMA ConnectStep ==
  ASSUME TCPInv, ConnectTo
  PROVE  TCPInv'
<1> DEFINE p == [New EXCEPT !.made = TRUE, !.connectIssued = TRUE, !.socket = TRUE]
<1>1. /\ TCPLife /\ OnTheWire /\ ~gone /\ ~peer["A"].made
      /\ UNCHANGED <<sendStream, sendingQueue, tcp, receivingQueue, received, sizes, gone>>
  BY DEF TCPInv, ConnectTo
<1>2. /\ p \in PeerRecords /\ Living(p) /\ p.made /\ ~p.init /\ p.state = "Pending"
  <2>1. p = [New EXCEPT !.made = TRUE, !.connectIssued = TRUE, !.socket = TRUE]
    OBVIOUS
  <2> HIDE DEF p
  <2> QED BY <2>1, ConnectingLives
<1>3. PICK q : /\ peer' = [peer EXCEPT !["A"] = q] /\ (q = p \/ q = Linger(p))
               /\ writable' = TRUE \/ writable' = writable
  BY DEF ConnectTo
<1> HIDE DEF p
<1>4. /\ q \in PeerRecords /\ Living(q) /\ ~q.init /\ q.state \in {"Pending", "ShuttingDown"}
  <2>1. CASE q = p
    BY <1>2, <2>1
  <2>2. CASE q = Linger(p)
    BY <1>2, <2>2, LingerLives
  <2> QED BY <1>3, <2>1, <2>2
<1>5. /\ peer \in [Peers -> PeerRecords] /\ SendShape(sendStream)
      /\ writable \in BOOLEAN /\ gone \in BOOLEAN /\ AllCut(peer["B"], receivingQueue)
      /\ "A" \in Peers /\ "B" \in Peers /\ Living(peer["A"])
  BY <1>1, PeerFacts
<1>6. ~sendStream.shutdown
  BY <1>1, <1>5, StreamOpen DEF Living
<1>7. peer'["A"] = q /\ peer'["B"] = peer["B"]
  BY <1>3, <1>5
<1>8. Pursued(q, sendStream, sendingQueue, writable')
  BY <1>4, <1>6 DEF Pursued
<1>9. TCPLife'
  <2>1. /\ writable' \in BOOLEAN /\ gone' \in BOOLEAN /\ ~gone' /\ sizes' = sizes
        /\ SendShape(sendStream') /\ AllCut(peer'["B"], receivingQueue')
        /\ Pursued(peer'["A"], sendStream', sendingQueue', writable')
    BY <1>1, <1>3, <1>5, <1>7, <1>8
  <2> QED BY <1>1, <1>3, <1>4, <1>5, <2>1, PeerStep
<1>10. OnTheWire'
  BY <1>1, WireKept
<1> QED BY <1>9, <1>10 DEF TCPInv

LEMMA AcceptStep ==
  ASSUME TCPInv, Accept
  PROVE  TCPInv'
<1> DEFINE p == [New EXCEPT !.made = TRUE, !.socket = TRUE]
           r == [New EXCEPT !.made = TRUE]
<1>1. /\ TCPLife /\ OnTheWire /\ ~gone /\ ~peer["B"].made
      /\ UNCHANGED <<sendStream, gone, sendingQueue, writable, tcp, receivingQueue, received,
                     sizes>>
  BY DEF TCPInv, Accept, NothingCarried
<1>2. /\ p \in PeerRecords /\ Living(p) /\ p.made /\ ~p.init /\ p.state = "Pending"
      /\ ~p.lingering
  <2>1. p = [New EXCEPT !.made = TRUE, !.socket = TRUE]
    OBVIOUS
  <2> HIDE DEF p
  <2> QED BY <2>1, AcceptedLives
<1>3. r \in PeerRecords /\ Living(r) /\ r.made /\ ~r.init /\ ~r.socket
  <2>1. r = [New EXCEPT !.made = TRUE]
    OBVIOUS
  <2> HIDE DEF r
  <2> QED BY <2>1, RefusedLives
<1>4. PICK q : peer' = [peer EXCEPT !["B"] = q] /\ (q = p \/ q = Linger(r))
  BY DEF Accept
<1> HIDE DEF p, r
<1>5. q \in PeerRecords /\ Living(q) /\ ~q.init /\ (q.lingering => ~q.socket)
  <2>1. CASE q = p
    BY <1>2, <2>1
  <2>2. CASE q = Linger(r)
    BY <1>3, <2>2, LingerLives
  <2> QED BY <1>4, <2>1, <2>2
<1>6. /\ peer \in [Peers -> PeerRecords] /\ SendShape(sendStream)
      /\ writable \in BOOLEAN /\ gone \in BOOLEAN /\ AllCut(peer["B"], receivingQueue)
      /\ Pursued(peer["A"], sendStream, sendingQueue, writable)
      /\ "A" \in Peers /\ "B" \in Peers /\ Living(peer["B"])
  BY <1>1, PeerFacts
<1>7. peer'["B"] = q /\ peer'["A"] = peer["A"]
  BY <1>4, <1>6
<1>8. AllCut(q, receivingQueue)
  <2>1. ~FrameWaits(receivingQueue)
    BY <1>1, <1>6 DEF AllCut, Living
  <2> QED BY <1>5, <2>1 DEF AllCut
<1>9. TCPLife'
  <2>1. /\ writable' \in BOOLEAN /\ gone' \in BOOLEAN /\ ~gone' /\ sizes' = sizes
        /\ SendShape(sendStream') /\ AllCut(peer'["B"], receivingQueue')
        /\ Pursued(peer'["A"], sendStream', sendingQueue', writable')
    BY <1>1, <1>6, <1>7, <1>8
  <2> QED BY <1>1, <1>4, <1>5, <1>6, <2>1, PeerStep
<1>10. OnTheWire'
  BY <1>1, WireKept
<1> QED BY <1>9, <1>10 DEF TCPInv

LEMMA InitPeer ==
  ASSUME NEW p \in PeerRecords, p.made, Living(p), NEW q, q = [p EXCEPT !.init = TRUE]
  PROVE  /\ q \in PeerRecords /\ Living(q) /\ q.made /\ q.init /\ q.state = p.state
         /\ q.socket = p.socket /\ q.writeReady = p.writeReady
         /\ q.lingering = p.lingering /\ q.timer = p.timer
<1> DEFINE yes == TRUE
<1>1. yes \in BOOLEAN /\ yes
  OBVIOUS
<1>2. q = [p EXCEPT !.init = yes]
  OBVIOUS
<1> HIDE DEF yes
<1>3. /\ q \in PeerRecords /\ q.init = yes /\ q.state = p.state /\ q.socket = p.socket
      /\ q.writeReady = p.writeReady /\ q.made = p.made /\ q.lingering = p.lingering
      /\ q.timer = p.timer
  BY <1>1, <1>2 DEF PeerRecords
<1> QED BY <1>1, <1>3 DEF Living

LEMMA InitConnectingStep ==
  ASSUME TCPInv, InitConnecting
  PROVE  TCPInv'
<1> DEFINE p == peer["A"]
           q == [p EXCEPT !.init = TRUE]
<1>1. /\ TCPLife /\ OnTheWire /\ ~gone /\ p.made
      /\ peer' = [peer EXCEPT !["A"].init = TRUE]
      /\ sendStream' = SendStream!WithReader(sendStream, "reader")
      /\ UNCHANGED <<gone, sendingQueue, writable, tcp, receivingQueue, received, sizes>>
  BY DEF TCPInv, InitConnecting, NothingCarried
<1>2. /\ peer \in [Peers -> PeerRecords] /\ SendShape(sendStream)
      /\ writable \in BOOLEAN /\ gone \in BOOLEAN /\ AllCut(peer["B"], receivingQueue)
      /\ Pursued(p, sendStream, sendingQueue, writable)
      /\ "A" \in Peers /\ "B" \in Peers /\ Living(p) /\ p \in PeerRecords
  BY <1>1, PeerFacts
<1>3. peer' = [peer EXCEPT !["A"] = q]
  BY <1>1, <1>2
<1>4. /\ q \in PeerRecords /\ Living(q) /\ q.init /\ q.state = p.state
      /\ q.socket = p.socket /\ q.writeReady = p.writeReady
  <2>1. q = [p EXCEPT !.init = TRUE]
    OBVIOUS
  <2> HIDE DEF q, p
  <2> QED BY <1>1, <1>2, <2>1, InitPeer
<1> HIDE DEF q
<1>5. peer'["A"] = q /\ peer'["B"] = peer["B"]
  BY <1>2, <1>3
<1>6. /\ SendShape(sendStream') /\ sendStream'.shutdown = sendStream.shutdown
      /\ sendStream'.buffers = sendStream.buffers
      /\ sendStream'.readerReady = sendStream.readerReady
      /\ ~sendStream.shutdown => "reader" \in sendStream'.readers
      /\ ~sendStream.shutdown /\ sendStream.buffers # << >> /\ sendStream.readerReady
           => sendStream'.readerCalls["reader"] > 0
  BY <1>1, <1>2, SendSubscribed
<1> HIDE DEF p
<1>7. Pursued(q, sendStream', sendingQueue, writable)
  BY <1>2, <1>4, <1>6 DEF Pursued
<1>8. TCPLife'
  <2>1. /\ writable' \in BOOLEAN /\ gone' \in BOOLEAN /\ ~gone' /\ sizes' = sizes
        /\ AllCut(peer'["B"], receivingQueue')
        /\ Pursued(peer'["A"], sendStream', sendingQueue', writable')
    BY <1>1, <1>2, <1>5, <1>7
  <2> QED BY <1>1, <1>2, <1>3, <1>4, <1>6, <2>1, PeerStep
<1>9. OnTheWire'
  BY <1>1, <1>6, WireKept
<1> QED BY <1>8, <1>9 DEF TCPInv

LEMMA InitAcceptedStep ==
  ASSUME TCPInv, InitAccepted
  PROVE  TCPInv'
<1> DEFINE p == peer["B"]
           q == [p EXCEPT !.init = TRUE, !.state = "Connected"]
<1>1. /\ TCPLife /\ OnTheWire /\ ~gone /\ p.made /\ ~p.init
      /\ peer' = [peer EXCEPT !["B"] = q]
      /\ UNCHANGED <<sendStream, gone, sendingQueue, writable, tcp, receivingQueue, received,
                     sizes>>
  BY DEF TCPInv, InitAccepted, NothingCarried
<1>2. /\ peer \in [Peers -> PeerRecords] /\ SendShape(sendStream)
      /\ writable \in BOOLEAN /\ gone \in BOOLEAN /\ AllCut(p, receivingQueue)
      /\ Pursued(peer["A"], sendStream, sendingQueue, writable)
      /\ "A" \in Peers /\ "B" \in Peers /\ Living(p) /\ p \in PeerRecords
  BY <1>1, PeerFacts
<1>3. q \in PeerRecords /\ Living(q) /\ q.init /\ q.state = "Connected"
  <2> DEFINE r == [p EXCEPT !.init = TRUE]
             yes == "Connected"
  <2>1. r = [p EXCEPT !.init = TRUE]
    OBVIOUS
  <2>2. q = [r EXCEPT !.state = yes] /\ yes \in States /\ yes = "Connected"
    BY <1>2 DEF PeerRecords, States
  <2> HIDE DEF p, q, r, yes
  <2>3. /\ r \in PeerRecords /\ Living(r) /\ r.init /\ r.made
    BY <1>1, <1>2, <2>1, InitPeer
  <2>4. /\ q \in PeerRecords /\ q.init = r.init /\ q.made = r.made
        /\ q.lingering = r.lingering /\ q.timer = r.timer /\ q.state = yes
    BY <2>2, <2>3 DEF PeerRecords
  <2> QED BY <2>2, <2>3, <2>4 DEF Living
<1> HIDE DEF q
<1>4. peer'["B"] = q /\ peer'["A"] = peer["A"]
  BY <1>1, <1>2
<1>5. AllCut(q, receivingQueue)
  <2>1. ~FrameWaits(receivingQueue)
    BY <1>1, <1>2 DEF AllCut
  <2> QED BY <1>3, <2>1 DEF AllCut
<1>6. TCPLife'
  <2>1. /\ writable' \in BOOLEAN /\ gone' \in BOOLEAN /\ ~gone' /\ sizes' = sizes
        /\ SendShape(sendStream') /\ AllCut(peer'["B"], receivingQueue')
        /\ Pursued(peer'["A"], sendStream', sendingQueue', writable')
    BY <1>1, <1>2, <1>4, <1>5
  <2> QED BY <1>1, <1>2, <1>3, <2>1, PeerStep
<1>7. OnTheWire'
  BY <1>1, WireKept
<1> QED BY <1>6, <1>7 DEF TCPInv

LEMMA ShutdownStep ==
  ASSUME TCPInv, NEW e \in Peers, NEW linger \in BOOLEAN, Shutdown(e, linger)
  PROVE  TCPInv'
<1> DEFINE p == peer[e]
<1>1. /\ TCPLife /\ OnTheWire /\ ~gone /\ p.init /\ p.state # "Shutdown"
      /\ UNCHANGED <<sendingQueue, writable, tcp, receivingQueue, received, sizes>>
  BY DEF TCPInv, Shutdown, NothingCarried
<1>2. /\ peer \in [Peers -> PeerRecords] /\ SendShape(sendStream)
      /\ writable \in BOOLEAN /\ gone \in BOOLEAN /\ AllCut(peer["B"], receivingQueue)
      /\ Pursued(peer["A"], sendStream, sendingQueue, writable)
      /\ "A" \in Peers /\ "B" \in Peers /\ Living(p) /\ p \in PeerRecords /\ p.made
  BY <1>1, PeerFacts
<1>3. CASE linger
  <2> DEFINE q == Linger(p)
  <2>1. peer' = [peer EXCEPT ![e] = q] /\ UNCHANGED <<sendStream, gone>>
    BY <1>3 DEF Shutdown
  <2> HIDE DEF q
  <2>2. q \in PeerRecords /\ Living(q) /\ q.state = "ShuttingDown" /\ q.init
    BY <1>1, <1>2, LingerLives DEF q
  <2>3. Pursued(peer'["A"], sendStream, sendingQueue, writable)
    <3>1. CASE e = "A"
      <4>1. peer'["A"] = q /\ ~sendStream.shutdown
        BY <1>1, <1>2, <2>1, <3>1, StreamOpen
      <4>2. "reader" \in sendStream.readers
        BY <1>1, <1>2, <3>1, <4>1 DEF Pursued
      <4> QED BY <2>2, <4>1, <4>2 DEF Pursued
    <3>2. CASE e # "A"
      <4>1. peer'["A"] = peer["A"]
        BY <1>2, <2>1, <3>2
      <4> QED BY <1>2, <4>1
    <3> QED BY <3>1, <3>2
  <2>4. AllCut(peer'["B"], receivingQueue)
    <3>1. CASE e = "B"
      <4>1. peer'["B"] = q
        BY <1>2, <2>1, <3>1
      <4> QED BY <2>2, <4>1 DEF AllCut
    <3>2. CASE e # "B"
      <4>1. peer'["B"] = peer["B"]
        BY <1>2, <2>1, <3>2
      <4> QED BY <1>2, <4>1
    <3> QED BY <3>1, <3>2
  <2>5. TCPLife'
    <3>1. /\ writable' \in BOOLEAN /\ gone' \in BOOLEAN /\ ~gone' /\ sizes' = sizes
          /\ SendShape(sendStream') /\ AllCut(peer'["B"], receivingQueue')
          /\ Pursued(peer'["A"], sendStream', sendingQueue', writable')
      BY <1>1, <1>2, <2>1, <2>3, <2>4
    <3> QED BY <1>1, <2>1, <2>2, <3>1, PeerStep
  <2>6. OnTheWire'
    BY <1>1, <2>1, WireKept
  <2> QED BY <2>5, <2>6 DEF TCPInv
<1>4. CASE ~linger
  <2>1. peer' = [peer EXCEPT ![e] = CancelledPeer(@)] /\ CancelRest(e)
    BY <1>4 DEF Shutdown
  <2>2. /\ TCPLife'
        /\ \/ sendStream' = sendStream
           \/ sendStream'.shutdown /\ sendStream'.buffers = << >>
    <3>1. /\ UNCHANGED <<sendingQueue, writable, sizes>> /\ receivingQueue' = receivingQueue
          /\ TCPLife /\ ~gone /\ peer[e].made /\ peer[e].state # "Shutdown"
      BY <1>1, <1>2
    <3> DEFINE q == CancelledPeer(peer[e])
    <3>2. peer' = [peer EXCEPT ![e] = q] /\ q = CancelledPeer(peer[e])
      BY <2>1
    <3> HIDE DEF p, q
    <3> QED BY <2>1, <3>1, <3>2, CancelStep
  <2>3. OnTheWire'
    BY <1>1, <2>2, WireKept
  <2> QED BY <2>2, <2>3 DEF TCPInv
<1> QED BY <1>3, <1>4

LEMMA TimerStep ==
  ASSUME TCPInv, NEW e \in Peers, OnLingerTimer(e)
  PROVE  TCPInv'
<1> DEFINE p == peer[e]
           q == CancelledPeer(TimerFired(p))
<1>1. /\ TCPLife /\ OnTheWire /\ ~gone /\ p.timer
      /\ gone' = (gone \/ ~p.init)
      /\ sendStream' = IF e = "A" THEN SendStream!CancelledStream(sendStream) ELSE sendStream
      /\ UNCHANGED <<sendingQueue, writable, tcp, receivingQueue, received, sizes>>
  BY DEF TCPInv, OnLingerTimer, NothingCarried
<1>2. /\ peer \in [Peers -> PeerRecords] /\ SendShape(sendStream)
      /\ writable \in BOOLEAN /\ gone \in BOOLEAN /\ AllCut(peer["B"], receivingQueue)
      /\ Pursued(peer["A"], sendStream, sendingQueue, writable)
      /\ "A" \in Peers /\ "B" \in Peers /\ Living(p) /\ p \in PeerRecords /\ p.made
      /\ p.init \in BOOLEAN
  BY <1>1, PeerFacts DEF PeerRecords
<1>3. peer' = [peer EXCEPT ![e] = q]
  BY <1>2 DEF OnLingerTimer
<1> HIDE DEF q
<1>4. q \in PeerRecords /\ Living(q) /\ q.state = "Shutdown" /\ q.init = p.init /\ ~q.lingering
  BY <1>2, FiredLives DEF q
<1>5. /\ SendShape(sendStream')
      /\ \/ sendStream' = sendStream
         \/ sendStream'.shutdown /\ sendStream'.buffers = << >>
      /\ e = "A" => sendStream'.shutdown /\ sendStream'.buffers = << >>
      /\ e # "A" => sendStream' = sendStream
  BY <1>1, <1>2, SendCancelled
<1>6. Pursued(peer'["A"], sendStream', sendingQueue, writable)
  <2>1. CASE e = "A"
    <3>1. peer'["A"] = q
      BY <1>2, <1>3, <2>1
    <3> QED BY <1>4, <1>5, <2>1, <3>1 DEF Pursued
  <2>2. CASE e # "A"
    <3>1. peer'["A"] = peer["A"]
      BY <1>2, <1>3, <2>2
    <3> QED BY <1>2, <1>5, <2>2, <3>1
  <2> QED BY <2>1, <2>2
<1>7. gone' = ~p.init
  BY <1>1, <1>2
<1>8. gone' \in BOOLEAN /\ (gone' => ~q.init) /\ (~gone' => q.init)
  <2> HIDE DEF p
  <2>1. CASE p.init
    <3>1. gone' = FALSE /\ q.init
      BY <1>4, <1>7, <2>1
    <3> QED BY <3>1
  <2>2. CASE ~p.init
    <3>1. gone' = TRUE /\ ~q.init
      BY <1>2, <1>4, <1>7, <2>2
    <3> QED BY <3>1
  <2> QED BY <2>1, <2>2
<1>9. ~gone' => AllCut(peer'["B"], receivingQueue)
  <2> SUFFICES ASSUME ~gone' PROVE AllCut(peer'["B"], receivingQueue)
    OBVIOUS
  <2>1. CASE e = "B"
    <3>1. peer'["B"] = q /\ q.init
      BY <1>2, <1>3, <1>8, <2>1
    <3> QED BY <1>4, <3>1 DEF AllCut
  <2>2. CASE e # "B"
    <3>1. peer'["B"] = peer["B"]
      BY <1>2, <1>3, <2>2
    <3> QED BY <1>2, <3>1
  <2> QED BY <2>1, <2>2
<1>10. TCPLife'
  <2>1. /\ writable' \in BOOLEAN /\ sizes' = sizes
        /\ ~gone' => AllCut(peer'["B"], receivingQueue')
        /\ Pursued(peer'["A"], sendStream', sendingQueue', writable')
    BY <1>1, <1>2, <1>6, <1>9
  <2> QED BY <1>1, <1>3, <1>4, <1>5, <1>8, <2>1, PeerStep
<1>11. OnTheWire'
  BY <1>1, <1>5, WireKept
<1> QED BY <1>10, <1>11 DEF TCPInv

LEMMA ExceptionStep ==
  ASSUME TCPInv, NEW e \in Peers, OnException(e)
  PROVE  TCPInv'
<1>1. /\ TCPLife /\ OnTheWire /\ ~gone /\ peer[e].socket
      /\ peer' = [peer EXCEPT ![e] = CancelledPeer(@)] /\ CancelRest(e)
      /\ UNCHANGED <<sendingQueue, writable, tcp, receivingQueue, received, sizes>>
  BY DEF TCPInv, OnException, NothingCarried
<1>2. peer[e].made /\ peer[e].state # "Shutdown"
  BY <1>1, PeerFacts DEF Living
<1>3. /\ TCPLife'
      /\ \/ sendStream' = sendStream
         \/ sendStream'.shutdown /\ sendStream'.buffers = << >>
  <2>1. UNCHANGED <<sendingQueue, writable, sizes>> /\ receivingQueue' = receivingQueue
    BY <1>1
  <2> DEFINE q == CancelledPeer(peer[e])
  <2>2. peer' = [peer EXCEPT ![e] = q] /\ q = CancelledPeer(peer[e])
    BY <1>1
  <2> HIDE DEF q
  <2> QED BY <1>1, <1>2, <2>1, <2>2, CancelStep
<1>4. OnTheWire'
  BY <1>1, <1>3, WireKept
<1> QED BY <1>3, <1>4 DEF TCPInv

LEMMA ReadEndStep ==
  ASSUME TCPInv, NEW e \in Peers, OnReadEnd(e)
  PROVE  TCPInv'
<1>1. /\ TCPLife /\ OnTheWire /\ ~gone /\ peer[e].socket
      /\ peer' = [peer EXCEPT ![e] = CancelledPeer(@)] /\ CancelRest(e)
      /\ UNCHANGED <<sendingQueue, writable, tcp, receivingQueue, received, sizes>>
  BY DEF TCPInv, OnReadEnd, NothingCarried, Reads
<1>2. peer[e].made /\ peer[e].state # "Shutdown"
  BY <1>1, PeerFacts DEF Living
<1>3. /\ TCPLife'
      /\ \/ sendStream' = sendStream
         \/ sendStream'.shutdown /\ sendStream'.buffers = << >>
  <2>1. UNCHANGED <<sendingQueue, writable, sizes>> /\ receivingQueue' = receivingQueue
    BY <1>1
  <2> DEFINE q == CancelledPeer(peer[e])
  <2>2. peer' = [peer EXCEPT ![e] = q] /\ q = CancelledPeer(peer[e])
    BY <1>1
  <2> HIDE DEF q
  <2> QED BY <1>1, <1>2, <2>1, <2>2, CancelStep
<1>4. OnTheWire'
  BY <1>1, <1>3, WireKept
<1> QED BY <1>3, <1>4 DEF TCPInv

(* sendDataNow, called with p and s after what came before it               *)
LEMMA SendStep ==
  ASSUME TCPInv, ~gone, NEW p \in PeerRecords, Living(p), NEW s, SendShape(s),
         NEW called \in BOOLEAN,
         s.buffers = sendStream.buffers, s.shutdown = sendStream.shutdown,
         s.shutdown => s.buffers = << >> /\ p.state = "Shutdown",
         p.init /\ ~s.shutdown => "reader" \in s.readers,
         p.state = "Connected" => p.socket /\ s.readerReady,
         p.state = "Connected" /\ ~p.writeReady => called,
         SendDataNow(p, s, called), UNCHANGED <<receivingQueue, received, sizes, gone>>
  PROVE  TCPInv'
<1>1. TCPLife /\ OnTheWire
  BY DEF TCPInv
<1>2. /\ peer \in [Peers -> PeerRecords] /\ sizes \in Seq(Nat) /\ gone \in BOOLEAN
      /\ AllCut(peer["B"], receivingQueue) /\ "A" \in Peers /\ "B" \in Peers
  BY <1>1, PeerFacts
<1>3. /\ OnTheWire' /\ SendShape(sendStream') /\ writable' \in BOOLEAN
      /\ \E ready \in BOOLEAN : peer' = [peer EXCEPT !["A"] = [p EXCEPT !.writeReady = ready]]
      /\ Pursued(peer'["A"], sendStream', sendingQueue', writable')
  BY <1>1, <1>2, DataSent
<1>4. PICK ready \in BOOLEAN : peer' = [peer EXCEPT !["A"] = [p EXCEPT !.writeReady = ready]]
  BY <1>3
<1> DEFINE q == [p EXCEPT !.writeReady = ready]
<1>5. peer' = [peer EXCEPT !["A"] = q] /\ q = [p EXCEPT !.writeReady = ready]
  BY <1>4
<1> HIDE DEF q
<1>6. /\ q \in PeerRecords /\ q.made = p.made /\ q.init = p.init /\ q.state = p.state
      /\ q.socket = p.socket /\ q.lingering = p.lingering /\ q.timer = p.timer
  BY <1>5, ReadyPeer
<1>7. Living(q)
  BY <1>6 DEF Living
<1>8. peer'["B"] = peer["B"]
  BY <1>2, <1>5
<1>9. TCPLife'
  <2>1. /\ gone' \in BOOLEAN /\ ~gone' /\ sizes' = sizes
        /\ AllCut(peer'["B"], receivingQueue')
    BY <1>2, <1>8
  <2> QED BY <1>1, <1>2, <1>3, <1>5, <1>6, <1>7, <2>1, PeerStep
<1> QED BY <1>3, <1>9 DEF TCPInv

LEMMA SendStreamReadyStep ==
  ASSUME TCPInv, OnSendStreamReady
  PROVE  TCPInv'
<1> DEFINE p == peer["A"]
           s == SendStream!Called(sendStream, "reader")
<1>1. /\ TCPLife /\ ~gone /\ sendStream.readerCalls["reader"] > 0
      /\ SendDataNow(p, s, writable) /\ UNCHANGED <<receivingQueue, received, sizes, gone>>
  BY DEF TCPInv, OnSendStreamReady
<1>2. /\ p \in PeerRecords /\ Living(p) /\ SendShape(sendStream) /\ writable \in BOOLEAN
      /\ Pursued(p, sendStream, sendingQueue, writable)
  BY <1>1, PeerFacts
<1> HIDE DEF p, s
<1>3. /\ SendShape(s) /\ s.shutdown = sendStream.shutdown /\ s.readers = sendStream.readers
      /\ s.buffers = sendStream.buffers /\ s.readerReady = sendStream.readerReady
  BY <1>1, <1>2, SendCalled DEF s
<1>4. /\ s.shutdown => s.buffers = << >> /\ p.state = "Shutdown"
      /\ p.init /\ ~s.shutdown => "reader" \in s.readers
      /\ p.state = "Connected" => p.socket /\ s.readerReady
      /\ p.state = "Connected" /\ ~p.writeReady => writable
  BY <1>2, <1>3 DEF Pursued
<1> QED BY <1>1, <1>2, <1>3, <1>4, SendStep

(* What onWriteReady makes of A before it sends                             *)
LEMMA WritablePeer ==
  ASSUME NEW p \in PeerRecords, Living(p), p.socket, p.made,
         NEW q, \/ q = [p EXCEPT !.connectIssued = FALSE, !.state = "Connected",
                                 !.writeReady = TRUE]
                \/ q = [p EXCEPT !.writeReady = TRUE]
  PROVE  /\ q \in PeerRecords /\ Living(q) /\ q.writeReady /\ q.socket /\ q.init = p.init
         /\ q.state = "Connected" \/ q.state = p.state
<1> DEFINE yes == TRUE
           no  == FALSE
           up  == "Connected"
<1>1. yes = TRUE /\ yes \in BOOLEAN /\ no \in BOOLEAN /\ up = "Connected" /\ up \in States
  BY DEF States
<1>2. \/ q = [p EXCEPT !.connectIssued = no, !.state = up, !.writeReady = yes]
      \/ q = [p EXCEPT !.writeReady = yes]
  OBVIOUS
<1>3. p.state # "Shutdown"
  BY DEF Living
<1> HIDE DEF yes, no, up
<1>4. CASE q = [p EXCEPT !.connectIssued = no, !.state = up, !.writeReady = yes]
  <2>1. /\ q \in PeerRecords /\ q.writeReady = yes /\ q.state = up /\ q.made = p.made
        /\ q.init = p.init /\ q.socket = p.socket /\ q.lingering = p.lingering
        /\ q.timer = p.timer
    BY <1>1, <1>4 DEF PeerRecords
  <2> QED BY <1>1, <2>1 DEF Living
<1>5. CASE q = [p EXCEPT !.writeReady = yes]
  <2>1. /\ q \in PeerRecords /\ q.writeReady = yes /\ q.state = p.state /\ q.made = p.made
        /\ q.init = p.init /\ q.socket = p.socket /\ q.lingering = p.lingering
        /\ q.timer = p.timer
    BY <1>1, <1>5 DEF PeerRecords
  <2> QED BY <1>1, <2>1 DEF Living
<1> QED BY <1>2, <1>4, <1>5

LEMMA WriteReadyStep ==
  ASSUME TCPInv, OnWriteReady
  PROVE  TCPInv'
<1> DEFINE p == peer["A"]
           up == [p EXCEPT !.connectIssued = FALSE, !.state = "Connected", !.writeReady = TRUE]
           ready == [p EXCEPT !.writeReady = TRUE]
           no == FALSE
<1>1. /\ TCPLife /\ ~gone /\ p.socket
      /\ \/ SendDataNow(up, AskForData, no)
         \/ SendDataNow(ready, sendStream, no)
      /\ UNCHANGED <<receivingQueue, received, sizes, gone>>
  BY DEF TCPInv, OnWriteReady
<1>2. /\ p \in PeerRecords /\ Living(p) /\ p.made /\ SendShape(sendStream)
      /\ Pursued(p, sendStream, sendingQueue, writable)
  BY <1>1, PeerFacts
<1>3. /\ up \in PeerRecords /\ Living(up) /\ up.writeReady /\ up.socket /\ up.init = p.init
  <2>1. up = [p EXCEPT !.connectIssued = FALSE, !.state = "Connected", !.writeReady = TRUE]
    OBVIOUS
  <2> HIDE DEF p, up
  <2> QED BY <1>1, <1>2, <2>1, WritablePeer
<1>4. /\ ready \in PeerRecords /\ Living(ready) /\ ready.writeReady /\ ready.socket
      /\ ready.init = p.init /\ ready.state = p.state
  <2>1. ready = [p EXCEPT !.writeReady = TRUE]
    OBVIOUS
  <2>2. ready.state = p.state
    BY <1>2 DEF PeerRecords
  <2> HIDE DEF p, ready
  <2> QED BY <1>1, <1>2, <2>1, <2>2, WritablePeer
<1>5. ~sendStream.shutdown
  BY <1>1, <1>2, StreamOpen DEF Living
<1>6. no \in BOOLEAN
  OBVIOUS
<1> HIDE DEF p, up, ready, no
<1>7. CASE SendDataNow(up, AskForData, no)
  <2> DEFINE s == AskForData
  <2>1. /\ SendShape(s) /\ s.shutdown = sendStream.shutdown /\ s.readers = sendStream.readers
        /\ s.buffers = sendStream.buffers /\ s.readerReady
    <3>1. s = SendStream!ReaderReady(sendStream)
      BY DEF AskForData
    <3> HIDE DEF s
    <3> QED BY <1>2, <1>5, <3>1, SendAsked
  <2> HIDE DEF s
  <2>2. /\ SendDataNow(up, s, no) /\ ~s.shutdown
        /\ up.init /\ ~s.shutdown => "reader" \in s.readers
        /\ up.state = "Connected" => up.socket /\ s.readerReady
        /\ up.state = "Connected" /\ ~up.writeReady => no
    BY <1>2, <1>3, <1>5, <1>7, <2>1 DEF Pursued, s
  <2> QED BY <1>1, <1>3, <1>6, <2>1, <2>2, SendStep
<1>8. CASE SendDataNow(ready, sendStream, no)
  <2>1. /\ ready.init /\ ~sendStream.shutdown => "reader" \in sendStream.readers
        /\ ready.state = "Connected" => ready.socket /\ sendStream.readerReady
        /\ ready.state = "Connected" /\ ~ready.writeReady => no
    BY <1>2, <1>4, <1>5 DEF Pursued
  <2> QED BY <1>1, <1>2, <1>4, <1>5, <1>6, <1>8, <2>1, SendStep
<1> QED BY <1>1, <1>7, <1>8

LEMMA WriteStep ==
  ASSUME TCPInv, NEW size \in MessageSizes, WriteMessage(size)
  PROVE  TCPInv'
<1> DEFINE s == sendStream
           t == sendStream'
           data == Message(Len(sizes'), size)
<1>1. /\ TCPLife /\ OnTheWire /\ ~gone /\ Len(sizes) < MaxMessages
      /\ sizes' = Append(sizes, size) /\ t = SendStream!Written(s, data, "none")
      /\ UNCHANGED <<peer, sendingQueue, writable, tcp, receivingQueue, received, gone>>
  BY DEF TCPInv, WriteMessage
<1>2. /\ SendShape(s) /\ sizes \in Seq(Nat) /\ Len(sizes) \in Nat
      /\ Pursued(peer["A"], s, sendingQueue, writable)
  BY <1>1, PeerFacts
<1>3. size \in Nat /\ MaxMessages \in Nat
  BY TCPMessagingAssumption
<1>4. Len(sizes') = Len(sizes) + 1 /\ Len(sizes') \in Nat
  BY <1>1, <1>2
<1>5. data \in Seq(Units)
  BY <1>3, <1>4, MessageUnits
<1>6. /\ SendShape(t) /\ t.shutdown = s.shutdown /\ t.readers = s.readers
      /\ t.readerReady = s.readerReady
      /\ s.shutdown => t = s
      /\ ~s.shutdown => t.buffers = Append(s.buffers, [left |-> data, header |-> "none"])
      /\ ~s.shutdown /\ s.readerReady /\ "reader" \in s.readers => t.readerCalls["reader"] > 0
  <2> HIDE DEF s, t, data
  <2> QED BY <1>1, <1>2, <1>5, SendWritten
<1>7. OnTheWire'
  <2>1. CASE s.shutdown
    <3>1. sendStream.shutdown /\ sendStream' = sendStream
      BY <1>6, <2>1
    <3> QED BY <1>1, <1>2, <1>3, <3>1, WireWrittenEnded
  <2>2. CASE ~s.shutdown
    <3>1. /\ ~sendStream.shutdown /\ ~sendStream'.shutdown
          /\ sendStream'.buffers = Append(sendStream.buffers,
                                     [left |-> Message(Len(sizes'), size), header |-> "none"])
      BY <1>6, <2>2
    <3> QED BY <1>1, <1>2, <1>3, <3>1, WireWritten
  <2> QED BY <2>1, <2>2
<1>8. Pursued(peer["A"], t, sendingQueue, writable)
  <2> HIDE DEF s, t, data
  <2>1. CASE s.shutdown
    BY <1>2, <1>6, <2>1
  <2>2. CASE ~s.shutdown
    BY <1>2, <1>6, <2>2 DEF Pursued
  <2> QED BY <2>1, <2>2
<1>9. TCPLife'
  <2>1. sizes' \in Seq(MessageSizes) /\ Len(sizes') <= MaxMessages
    <3>1. sizes \in Seq(MessageSizes)
      BY <1>1 DEF TCPLife
    <3>2. sizes' \in Seq(MessageSizes)
      BY <1>1, <3>1
    <3> QED BY <1>1, <1>2, <1>3, <1>4, <3>2
  <2>2. SendShape(sendStream)' /\ Pursued(peer["A"], sendStream, sendingQueue, writable)'
    BY <1>1, <1>6, <1>8 DEF SendShape, Pursued
  <2>3. \A e \in Peers : Living(peer[e])'
    BY <1>1 DEF TCPLife, Living
  <2>4. (~gone => AllCut(peer["B"], receivingQueue))'
    BY <1>1 DEF TCPLife, AllCut, FrameWaits
  <2>5. /\ (peer \in [Peers -> PeerRecords])' /\ writable' \in BOOLEAN /\ gone' \in BOOLEAN
        /\ ~gone'
    BY <1>1 DEF TCPLife
  <2> QED BY <2>1, <2>2, <2>3, <2>4, <2>5 DEF TCPLife
<1> QED BY <1>7, <1>9 DEF TCPInv

(* onReadReady cuts more messages, and gives none back.                     *)
LEMMA ReadReadyStep ==
  ASSUME TCPInv, NEW c \in 1..Len(tcp), OnReadReady(c)
  PROVE  TCPInv' /\ Len(received) <= Len(received')
<1> DEFINE r == ParseAll(receivingQueue \o SubSeq(tcp, 1, c))
<1>1. /\ TCPLife /\ OnTheWire /\ ~gone /\ peer["B"].socket
      /\ peer["B"].state \notin {"ShuttingDown", "Shutdown"}
      /\ receivingQueue' = r.queue /\ received' = r.got
      /\ tcp' = SubSeq(tcp, c + 1, Len(tcp))
      /\ UNCHANGED <<sendingQueue, writable, sizes>>
      /\ \/ /\ TooLarge(r.queue)
            /\ peer' = [peer EXCEPT !["B"] = CancelledPeer(@)] /\ CancelRest("B")
         \/ /\ ~TooLarge(r.queue)
            /\ UNCHANGED <<peer, sendStream, gone>>
  BY DEF TCPInv, OnReadReady, Reads
<1>2. /\ sizes \in Seq(Nat) /\ Len(sizes) <= MaxMessages /\ "B" \in Peers
      /\ AllCut(peer["B"], receivingQueue) /\ peer["B"].made
  BY <1>1, PeerFacts
<1>3. r = ParseAll(receivingQueue \o SubSeq(tcp, 1, c))
  OBVIOUS
<1> HIDE DEF r
<1>4. ASSUME \/ sendStream' = sendStream
             \/ sendStream'.shutdown /\ sendStream'.buffers = << >>
      PROVE  /\ OnTheWire' /\ Len(received) <= Len(received')
             /\ TooLarge(r.queue) \/ ~FrameWaits(r.queue)
  <2>1. \/ sendStream'.buffers = sendStream.buffers /\ sendStream'.shutdown = sendStream.shutdown
        \/ sendStream'.shutdown /\ sendStream'.buffers = << >>
    BY <1>4
  <2>2. UNCHANGED <<sendingQueue, sizes>>
    BY <1>1
  <2> QED BY <1>1, <1>2, <1>3, <2>1, <2>2, WireRead
<1>5. CASE /\ TooLarge(r.queue)
           /\ peer' = [peer EXCEPT !["B"] = CancelledPeer(@)] /\ CancelRest("B")
  <2> DEFINE q == CancelledPeer(peer["B"])
  <2>1. peer' = [peer EXCEPT !["B"] = q] /\ q = CancelledPeer(peer["B"])
    BY <1>5
  <2>2. UNCHANGED <<sendingQueue, writable, sizes>> /\ CancelRest("B")
    BY <1>1, <1>5
  <2>3. "B" = "B" /\ peer["B"].socket /\ peer["B"].state # "Shutdown"
    BY <1>1
  <2> HIDE DEF q
  <2>4. /\ TCPLife'
        /\ \/ sendStream' = sendStream
           \/ sendStream'.shutdown /\ sendStream'.buffers = << >>
    BY <1>1, <1>2, <2>1, <2>2, <2>3, CancelStep
  <2> QED BY <1>4, <2>4 DEF TCPInv
<1>6. CASE ~TooLarge(r.queue) /\ UNCHANGED <<peer, sendStream, gone>>
  <2>1. OnTheWire' /\ Len(received) <= Len(received') /\ ~FrameWaits(r.queue)
    BY <1>4, <1>6
  <2>2. AllCut(peer["B"], r.queue)
    BY <1>2, <2>1 DEF AllCut
  <2>3. (~gone => AllCut(peer["B"], receivingQueue))'
    BY <1>1, <1>6, <2>2 DEF AllCut, FrameWaits
  <2>4. SendShape(sendStream)' /\ Pursued(peer["A"], sendStream, sendingQueue, writable)'
    BY <1>1, <1>6 DEF SendShape, Pursued, TCPLife
  <2>5. \A e \in Peers : Living(peer[e])'
    BY <1>1, <1>6 DEF TCPLife, Living
  <2>6. /\ (peer \in [Peers -> PeerRecords])' /\ writable' \in BOOLEAN /\ gone' \in BOOLEAN
        /\ ~gone' /\ (sizes \in Seq(MessageSizes) /\ Len(sizes) <= MaxMessages)'
    BY <1>1, <1>6 DEF TCPLife
  <2>7. TCPLife'
    BY <2>3, <2>4, <2>5, <2>6 DEF TCPLife
  <2> QED BY <2>1, <2>7 DEF TCPInv
<1> QED BY <1>1, <1>5, <1>6

LEMMA TCPUnchanged ==
  ASSUME TCPInv, UNCHANGED tcpVars
  PROVE  TCPInv'
<1>1. /\ TCPLife /\ OnTheWire
      /\ UNCHANGED <<peer, sendStream, sendingQueue, writable, tcp, receivingQueue, received,
                     sizes, gone>>
  BY DEF TCPInv, tcpVars
<1>2. SendShape(sendStream)' /\ Pursued(peer["A"], sendStream, sendingQueue, writable)'
  BY <1>1 DEF SendShape, Pursued, TCPLife
<1>3. \A e \in Peers : Living(peer[e])'
  BY <1>1 DEF TCPLife, Living
<1>4. (~gone => AllCut(peer["B"], receivingQueue))'
  BY <1>1 DEF AllCut, FrameWaits, TCPLife
<1>5. /\ (peer \in [Peers -> PeerRecords])' /\ writable' \in BOOLEAN /\ gone' \in BOOLEAN
      /\ (sizes \in Seq(MessageSizes) /\ Len(sizes) <= MaxMessages)'
      /\ (gone => \E e \in Peers : ~peer[e].init)'
  BY <1>1 DEF TCPLife
<1>6. TCPLife'
  BY <1>2, <1>3, <1>4, <1>5 DEF TCPLife
<1>7. OnTheWire'
  BY <1>1, WireKept
<1> QED BY <1>6, <1>7 DEF TCPInv

LEMMA TCPStep ==
  ASSUME TCPInv, [TCPNext]_tcpVars
  PROVE  TCPInv'
<1>1. CASE ConnectTo
  BY <1>1, ConnectStep
<1>2. CASE Accept
  BY <1>2, AcceptStep
<1>3. CASE InitConnecting
  BY <1>3, InitConnectingStep
<1>4. CASE InitAccepted
  BY <1>4, InitAcceptedStep
<1>5. CASE \E e \in Peers : OnLingerTimer(e)
  BY <1>5, TimerStep
<1>6. CASE \E e \in Peers : OnException(e)
  BY <1>6, ExceptionStep
<1>7. CASE \E e \in Peers : OnReadEnd(e)
  BY <1>7, ReadEndStep
<1>8. CASE \E e \in Peers : \E linger \in BOOLEAN : Shutdown(e, linger)
  BY <1>8, ShutdownStep
<1>9. CASE OnSendStreamReady
  BY <1>9, SendStreamReadyStep
<1>10. CASE OnWriteReady
  BY <1>10, WriteReadyStep
<1>11. CASE \E size \in MessageSizes : WriteMessage(size)
  BY <1>11, WriteStep
<1>12. CASE \E c \in 1..Len(tcp) : OnReadReady(c)
  BY <1>12, ReadReadyStep
<1>13. CASE UNCHANGED tcpVars
  BY <1>13, TCPUnchanged
<1> QED BY <1>1, <1>2, <1>3, <1>4, <1>5, <1>6, <1>7, <1>8, <1>9, <1>10, <1>11, <1>12, <1>13,
           Zenon DEF TCPNext

LEMMA NewPeers ==
  ASSUME TCPInit
  PROVE  TCPLife
<1> DEFINE yes == TRUE
           no  == FALSE
<1>1. New = [made |-> no, init |-> no, state |-> "Pending", connectIssued |-> no,
             writeReady |-> no, socket |-> no, lingering |-> no, timer |-> no]
  BY DEF New
<1>2. no \in BOOLEAN /\ no = FALSE
  OBVIOUS
<1> HIDE DEF no
<1>3. New \in PeerRecords
  BY <1>1, <1>2 DEF PeerRecords, States
<1>4. /\ New.made = no /\ New.init = no /\ New.socket = no /\ New.lingering = no
      /\ New.state = "Pending" /\ New.timer = no
  BY <1>1
<1>5. Living(New) /\ ~New.init /\ ~New.lingering
  BY <1>2, <1>4 DEF Living
<1>6. /\ peer = [e \in Peers |-> New] /\ sendStream = SendStream!NewStream
      /\ sendingQueue = << >> /\ writable = FALSE /\ receivingQueue = << >> /\ sizes = << >>
      /\ gone = FALSE
  BY DEF TCPInit
<1>7. peer \in [Peers -> PeerRecords] /\ peer["A"] = New /\ peer["B"] = New
      /\ \A e \in Peers : Living(peer[e])
  BY <1>3, <1>5, <1>6 DEF Peers
<1>8. SendShape(sendStream) /\ sendStream.buffers = << >> /\ ~sendStream.shutdown
  BY <1>6, SendNew
<1>9. Pursued(peer["A"], sendStream, sendingQueue, writable)
  BY <1>4, <1>5, <1>7, <1>8 DEF Pursued
<1>10. AllCut(peer["B"], receivingQueue)
  <2>1. ~FrameWaits(receivingQueue)
    BY <1>6 DEF FrameWaits
  <2> QED BY <1>5, <1>7, <2>1 DEF AllCut
<1>11. sizes \in Seq(MessageSizes) /\ Len(sizes) <= MaxMessages
  BY <1>6, TCPMessagingAssumption
<1>12. writable \in BOOLEAN /\ gone \in BOOLEAN /\ ~gone
  BY <1>6
<1> QED BY <1>7, <1>8, <1>9, <1>10, <1>11, <1>12 DEF TCPLife

LEMMA NewWire ==
  ASSUME TCPInit
  PROVE  OnTheWire
<1> DEFINE ends == [i \in 0..0 |-> 0]
           units == << >>
           none == << >>
<1>1. /\ sendingQueue = << >> /\ tcp = << >> /\ receivingQueue = << >> /\ received = << >>
      /\ sizes = << >> /\ sendStream = SendStream!NewStream
  BY DEF TCPInit
<1>2. ends \in [0..0 -> Nat] /\ ends[0] = 0 /\ units \in Seq(Units) /\ Len(units) = 0
      /\ 1..0 = {} /\ Len(sizes) = 0 /\ 0 \in 0..0
  BY <1>1
<1> HIDE DEF ends
<1>3. IsWire(units, ends, 0)
  BY <1>2 DEF IsWire
<1>4. Piece(units, 0, 0) = << >>
  BY DEF Piece
<1>5. received \in Seq(Seq(Units)) /\ Len(received) = 0
  BY <1>1
<1>6. Cutting(units, ends, 0, receivingQueue, received, 0)
  BY <1>1, <1>2, <1>4, <1>5 DEF Cutting
<1>7. sendStream.buffers = << >> /\ ~sendStream.shutdown /\ Len(sendStream.buffers) = 0
  BY <1>1, SendNew
<1>8. Framing(units, ends, 0, sendStream, sendingQueue, 0, 0)
  BY <1>1, <1>2, <1>4, <1>7 DEF Framing
<1>9. tcp = Piece(units, 0, 0) /\ 0 <= 0 /\ 0 \in Nat
  BY <1>1, <1>4
<1> QED BY <1>3, <1>6, <1>8, <1>9, Zenon DEF OnTheWire

LEMMA TCPAlways == TCPSpec => []TCPInv
<1>1. TCPInit => TCPInv
  BY NewPeers, NewWire DEF TCPInv
<1>2. TCPInv /\ [TCPNext]_tcpVars => TCPInv'
  BY TCPStep
<1> QED BY <1>1, <1>2, PTL DEF TCPSpec

-----------------------------------------------------------------------------
(* What B handed on are the first of the messages that were written. *)
Counted ==
  /\ Len(received) \in Nat /\ Len(sizes) \in Nat /\ Len(received) <= Len(sizes)
  /\ Numbers = [i \in 1..Len(received) |-> i]

LEMMA ReceivedCounted ==
  ASSUME TCPInv
  PROVE  Counted
<1>1. TCPLife /\ OnTheWire
  BY DEF TCPInv
<1>2. sizes \in Seq(Nat) /\ Len(sizes) \in Nat
  BY <1>1, PeerFacts
<1>3. PICK n, x \in Nat : \E ends, units : /\ IsWire(units, ends, n)
                                         /\ Cutting(units, ends, n, receivingQueue, received, x)
  BY <1>1, Zenon DEF OnTheWire
<1>4. PICK ends, units : /\ IsWire(units, ends, n)
                        /\ Cutting(units, ends, n, receivingQueue, received, x)
  BY <1>3
<1>5. n \in 0..Len(sizes)
  BY <1>4 DEF IsWire
<1>6. /\ received \in Seq(Seq(Units)) /\ Len(received) <= n
      /\ \A i \in 1..Len(received) : received[i] = Message(i, sizes[i])
  BY <1>4 DEF Cutting
<1>7. Len(received) \in Nat /\ DOMAIN received = 1..Len(received)
      /\ DOMAIN sizes = 1..Len(sizes)
  BY <1>2, <1>6, LenProperties
<1>8. Len(received) <= Len(sizes)
  BY <1>2, <1>5, <1>6, <1>7
<1>9. \A i \in 1..Len(received) : i \in 1..Len(sizes)
  BY <1>2, <1>7, <1>8
<1>10. Numbers = [i \in 1..Len(received) |-> i]
  BY <1>6, <1>7, <1>9 DEF Numbers
<1> QED BY <1>2, <1>7, <1>8, <1>10 DEF Counted

(* The objects have the values the code gives their members, an ended one   *)
(* has no socket, and B never hands on more messages than A's owner wrote,  *)
(* for any messages, bounds and failures.                                   *)
THEOREM SpecTCPTypeOK == TCPSpec => []TCPTypeOK
<1>1. TCPInv => TCPTypeOK
  <2> SUFFICES ASSUME TCPInv PROVE TCPTypeOK
    OBVIOUS
  <2>1. TCPLife /\ Counted
    BY ReceivedCounted DEF TCPInv
  <2> QED BY <2>1 DEF TCPLife, Living, PeerRecords, Counted, TCPTypeOK
<1> QED BY <1>1, TCPAlways, PTL

(* Whatever calls shutdown(), fails or ends while an object lingers, the    *)
(* timer that will end it is there (cancel() and onTimer).                  *)
THEOREM SpecShutdownEnds == TCPSpec => []ShutdownEnds
<1>1. TCPInv => ShutdownEnds
  BY DEF TCPInv, TCPLife, Living, ShutdownEnds
<1> QED BY <1>1, TCPAlways, PTL

(* When both objects are connected and no call is due, everything written   *)
(* was handed on: between sendDataNow, onWriteReady and the calls of the    *)
(* send stream no message is left behind.                                   *)
THEOREM SpecNothingUnsent == TCPSpec => []NothingUnsent
<1>1. ASSUME TCPInv, SessionRests PROVE Len(received) = Len(sizes)
  <2>1. /\ TCPLife /\ OnTheWire
        /\ peer["A"].init /\ peer["A"].state = "Connected"
        /\ peer["B"].init /\ peer["B"].state = "Connected"
        /\ ~writable /\ sendStream.readerCalls["reader"] = 0 /\ tcp = << >>
    BY <1>1 DEF TCPInv, SessionRests, Peers
  <2>2. /\ sizes \in Seq(Nat) /\ Len(sizes) \in Nat /\ SendShape(sendStream)
        /\ Pursued(peer["A"], sendStream, sendingQueue, writable)
        /\ ~gone => AllCut(peer["B"], receivingQueue)
    BY <2>1, PeerFacts
  <2>3. ~gone
    BY <2>1 DEF TCPLife, Peers
  <2>4. ~FrameWaits(receivingQueue)
    BY <2>1, <2>2, <2>3 DEF AllCut
  <2>5. sendStream.buffers = << >> /\ sendingQueue = << >> /\ ~sendStream.shutdown
    BY <2>1, <2>2 DEF Pursued
  <2>6. PICK n, m, x, y \in Nat : \E ends, units :
          /\ IsWire(units, ends, n) /\ x <= y
          /\ Cutting(units, ends, n, receivingQueue, received, x)
          /\ tcp = Piece(units, x, y)
          /\ Framing(units, ends, n, sendStream, sendingQueue, m, y)
    BY <2>1 DEF OnTheWire
  <2>7. PICK ends, units :
          /\ IsWire(units, ends, n) /\ x <= y
          /\ Cutting(units, ends, n, receivingQueue, received, x)
          /\ tcp = Piece(units, x, y)
          /\ Framing(units, ends, n, sendStream, sendingQueue, m, y)
    BY <2>6
  <2> DEFINE k == Len(received)
  <2>8. m = n /\ n = Len(sizes) /\ y \in 0..ends[n] /\ sendingQueue = Piece(units, y, ends[n])
    <3>1. Len(sendStream.buffers) = 0
      BY <2>5
    <3>2. m + 0 = n /\ n = Len(sizes) /\ y \in 0..ends[m] /\ sendingQueue = Piece(units, y, ends[m])
      BY <2>5, <2>7, <3>1 DEF Framing
    <3>3. m = n
      BY <3>2
    <3> QED BY <3>2, <3>3
  <2>9. units \in Seq(Units) /\ Len(units) \in Nat /\ ends[n] = Len(units)
    BY <2>2, <2>7, WireOf
  <2>10. y = Len(units)
    <3>1. y <= Len(units)
      BY <2>8, <2>9
    <3>2. Len(Piece(units, y, Len(units))) = Len(units) - y
      <4> DEFINE w == Len(units)
      <4>1. units \in Seq(Units) /\ w \in Nat /\ y \in Nat /\ y <= w /\ w <= Len(units)
        BY <2>9, <3>1
      <4> HIDE DEF w
      <4>2. Len(Piece(units, y, w)) = w - y
        BY <4>1, PieceUnits, Zenon
      <4> QED BY <4>2 DEF w
    <3>3. Len(Piece(units, y, Len(units))) = 0
      BY <2>5, <2>8, <2>9
    <3> QED BY <2>9, <3>1, <3>2, <3>3
  <2>11. x = Len(units)
    <3>1. Len(Piece(units, x, y)) = y - x
      <4>1. units \in Seq(Units) /\ x \in Nat /\ y \in Nat /\ x <= y /\ y <= Len(units)
        BY <2>7, <2>9, <2>10
      <4> QED BY <4>1, PieceUnits, Zenon
    <3>2. Len(Piece(units, x, y)) = 0
      BY <2>1, <2>7
    <3> QED BY <2>9, <2>10, <3>1, <3>2
  <2>12. /\ k \in 0..n /\ ends[k] \in Nat /\ Len(receivingQueue) = x - ends[k]
         /\ Len(receivingQueue) >= 2 =>
              /\ k + 1 \in 1..n
              /\ receivingQueue[1][2] = sizes[k + 1] /\ sizes[k + 1] \in Nat
              /\ ends[k + 1] = ends[k] + 2 + sizes[k + 1]
    BY <2>2, <2>7, NextFrame
  <2>13. ASSUME k # n PROVE FALSE
    <3> DEFINE e == ends[k]
               f == ends[k + 1]
    <3>1. /\ k + 1 \in 0..n /\ k \in 0..n /\ n \in k + 1..n /\ k + 1 \in k..n /\ k < k + 1
      BY <2>12, <2>13
    <3>2. e \in Nat /\ f \in Nat /\ e + 2 <= f
      BY <2>2, <2>7, <3>1, EndsGrow
    <3>3. f <= Len(units)
      BY <2>2, <2>7, <3>1, EndsGrow
    <3> HIDE DEF e, f, k
    <3>4. Len(receivingQueue) = x - e /\ Len(receivingQueue) >= 2 /\ Len(receivingQueue) >= f - e
      BY <2>9, <2>11, <2>12, <3>2, <3>3 DEF e
    <3>5. receivingQueue[1][2] = sizes[k + 1] /\ sizes[k + 1] \in Nat /\ f = e + 2 + sizes[k + 1]
      BY <2>12, <3>4 DEF e, f
    <3>6. Len(receivingQueue) >= 2 + sizes[k + 1]
      BY <3>2, <3>4, <3>5
    <3>7. FrameWaits(receivingQueue)
      BY <3>4, <3>5, <3>6 DEF FrameWaits
    <3> QED BY <2>4, <3>7
  <2> QED BY <2>8, <2>13
<1>2. TCPInv => NothingUnsent
  BY <1>1 DEF NothingUnsent
<1> QED BY <1>2, TCPAlways, PTL

(* A step writes a message, hands some on, or does neither.                 *)
LEMMA TCPStepMaps ==
  ASSUME TCPInv, Counted, Counted', [TCPNext]_tcpVars
  PROVE  [TCPMessages!Next]_TCPMessages!vars
<1> DEFINE a == Len(received)
           b == Len(received')
           l == Len(sizes)
           numbers == Numbers
<1>1. /\ a \in Nat /\ l \in Nat /\ a <= l /\ numbers = [i \in 1..a |-> i]
  BY DEF Counted
<1>2. /\ b \in Nat /\ Len(sizes') \in Nat /\ b <= Len(sizes')
      /\ Numbers' = [i \in 1..b |-> i]
  BY DEF Counted
<1>3. Len(numbers) = a /\ numbers \in Seq(Nat)
  BY <1>1
<1>4. CASE \E size \in MessageSizes : WriteMessage(size)
  <2>1. PICK size \in MessageSizes : sizes' = Append(sizes, size) /\ received' = received
    BY <1>4 DEF WriteMessage
  <2>2. sizes \in Seq(MessageSizes)
    BY DEF TCPInv, TCPLife
  <2>3. Len(sizes') = l + 1
    BY <2>1, <2>2
  <2>4. Numbers' = Numbers
    BY <1>1, <1>2, <2>1
  <2>5. TCPMessages!Write
    BY <2>3, <2>4 DEF TCPMessages!Write
  <2> QED BY <2>5 DEF TCPMessages!Next
<1>5. CASE \E c \in 1..Len(tcp) : OnReadReady(c)
  <2>1. sizes' = sizes /\ a <= b
    BY <1>5, ReadReadyStep DEF OnReadReady
  <2>2. CASE a = b
    <3>1. Numbers' = Numbers
      BY <1>1, <1>2, <2>2
    <3> QED BY <2>1, <3>1 DEF TCPMessages!vars
  <2>3. CASE a # b
    <3> DEFINE n == b - a
               next == [i \in 1..n |-> a + i]
    <3>1. n \in 1..l - a
      BY <1>1, <1>2, <2>1, <2>3
    <3>2. next \in Seq(Nat) /\ Len(next) = n
      BY <1>1, <3>1
    <3> HIDE DEF numbers
    <3>3. /\ numbers \o next \in Seq(Nat) /\ Len(numbers \o next) = b
          /\ \A i \in 1..b : (numbers \o next)[i] = i
      <4> HIDE DEF next
      <4>1. /\ numbers \o next \in Seq(Nat) /\ Len(numbers \o next) = a + n
            /\ \A i \in 1..a + n : (numbers \o next)[i] = IF i <= a THEN numbers[i] ELSE next[i - a]
        <5> DEFINE new == Len(next)
                   old == Len(numbers)
        <5>1. numbers \in Seq(Nat) /\ next \in Seq(Nat) /\ old = a /\ new = n
          BY <1>3, <3>2, Zenon
        <5>2. /\ numbers \o next \in Seq(Nat) /\ Len(numbers \o next) = old + new
              /\ \A i \in 1..old + new :
                   (numbers \o next)[i] = IF i <= old THEN numbers[i] ELSE next[i - old]
          BY <5>1, ConcatProperties, Zenon
        <5> HIDE DEF old, new, a, n
        <5> QED BY <5>1, <5>2, Zenon
      <4>2. a + n = b
        BY <1>1, <1>2
      <4>3. ASSUME NEW i \in 1..b PROVE (numbers \o next)[i] = i
        <5>1. CASE i <= a
          BY <1>1, <1>2, <4>1, <4>2, <5>1
        <5>2. CASE ~(i <= a)
          <6>1. i - a \in 1..n /\ a + (i - a) = i
            BY <1>1, <1>2, <5>2
          <6>2. next[i - a] = a + (i - a)
            BY <6>1 DEF next
          <6> QED BY <4>1, <4>2, <5>2, <6>1, <6>2
        <5> QED BY <5>1, <5>2
      <4> QED BY <4>1, <4>2, <4>3
    <3>4. Numbers' \in Seq(Nat) /\ Len(Numbers') = b /\ \A i \in 1..b : Numbers'[i] = i
      BY <1>2
    <3>5. Numbers' = numbers \o next
      BY <3>3, <3>4, SeqEqual
    <3>6. Numbers' = Numbers \o [i \in 1..n |-> Len(Numbers) + i]
      BY <1>3, <3>5 DEF numbers
    <3>7. n \in 1..(Len(sizes) - Len(Numbers))
      BY <1>3, <3>1 DEF numbers
    <3> HIDE DEF n
    <3>8. TCPMessages!Read
      BY <2>1, <3>6, <3>7 DEF TCPMessages!Read
    <3> QED BY <3>8 DEF TCPMessages!Next
  <2> QED BY <2>2, <2>3
<1>6. CASE UNCHANGED <<received, sizes>>
  <2>1. Numbers' = Numbers
    BY <1>1, <1>2, <1>6
  <2> QED BY <1>6, <2>1 DEF TCPMessages!vars
<1>7. \/ \E size \in MessageSizes : WriteMessage(size)
      \/ \E c \in 1..Len(tcp) : OnReadReady(c)
      \/ UNCHANGED <<received, sizes>>
  BY DEF TCPNext, tcpVars, ConnectTo, Accept, InitConnecting, InitAccepted, OnLingerTimer,
         OnException, OnReadEnd, Shutdown, OnSendStreamReady, OnWriteReady, NothingCarried
<1> QED BY <1>4, <1>5, <1>6, <1>7

(* onReadReady hands on the messages that were written, each whole, once    *)
(* and in order, whatever pieces send() takes and TCP hands over, and       *)
(* whatever ends the session: the messages are a ReliableStream.            *)
THEOREM SpecTCPMessagesWhole == TCPSpec => TCPMessagesWhole
<1>1. TCPInit => TCPMessages!Init
  BY DEF TCPInit, TCPMessages!Init, Numbers
<1>2. TCPInv => Counted
  BY ReceivedCounted
<1>3. TCPInv /\ Counted /\ Counted' /\ [TCPNext]_tcpVars => [TCPMessages!Next]_TCPMessages!vars
  BY TCPStepMaps
<1> QED BY <1>1, <1>2, <1>3, TCPAlways, PTL DEF TCPSpec, TCPMessagesWhole, TCPMessages!Spec
=============================================================================
