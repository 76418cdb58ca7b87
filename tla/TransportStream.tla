--------------------------- MODULE TransportStream ---------------------------
(***************************************************************************)
(* The queue of buffers between a writer and a reader                      *)
(* (openpeer/services/cpp/services_TransportStream.cpp): an application    *)
(* and a reliable stream, or two layers of framing, each on a thread of    *)
(* its own. Writers and readers subscribe; they are told, by a call posted *)
(* to their queues, when there is something to read and when everything    *)
(* was read. Every operation runs under the stream's lock and is one step. *)
(***************************************************************************)
EXTENDS Integers, Sequences, SequencesExt

CONSTANTS
  Readers,      \* who may subscribe to read
  Writers,      \* who may subscribe to write
  Headers,      \* the headers a buffer may be written with
  NoHeader,     \* a null StreamHeaderPtr
  Sizes,        \* the sizes in which a writer writes
  Lengths,      \* the sizes in which a reader reads and skips
  MaxBytes,     \* bound on the bytes written
  MaxBuffers,   \* bound on the buffers waiting
  MaxWrites,    \* bound on the writes, those of size zero included
  MaxCalls      \* a subscription is renewed only below this many posted calls

ASSUME TransportStreamAssumption ==
  /\ Sizes \subseteq Nat
  /\ Lengths \subseteq Nat \ {0}
  /\ MaxBytes \in Nat
  /\ MaxBuffers \in Nat
  /\ MaxWrites \in Nat
  /\ MaxCalls \in Nat

VARIABLES
  stream,   \* the members of the object, with the calls it has posted
  written,  \* how many bytes were written; each byte is its own number
  writes,   \* how many writes there were
  taken,    \* the bytes that were read or skipped, in that order
  missed    \* a read of zero bytes took a buffer, after the readers were told

vars == <<stream, written, writes, taken, missed>>

-----------------------------------------------------------------------------
(* The buffers. "left" is what remains of a buffer beyond mRead; "calls"    *)
(* counts the notifications that were posted and not yet called.            *)

NewStream ==
  [buffers |-> << >>, blocking |-> FALSE, blocked |-> << >>, blockHeader |-> NoHeader,
   shutdown |-> FALSE, readerReady |-> FALSE, readNotified |-> FALSE,
   writeNotified |-> FALSE, readers |-> {}, writers |-> {},
   readerCalls |-> [r \in Readers |-> 0], writerCalls |-> [w \in Writers |-> 0]]

(* A call more is posted to each of some subscribers. *)
Posted(calls, to) == [x \in DOMAIN calls |-> calls[x] + (IF x \in to THEN 1 ELSE 0)]

(* What is left in some buffers, end to end. *)
Bytes(bs) == FlattenSeq([i \in DOMAIN bs |-> bs[i].left])

Before(bs, i) == Len(Bytes(SubSeq(bs, 1, i - 1)))

(* The buffers that reading n bytes uses up: a buffer of size zero too, as  *)
(* long as more is wanted when the loop gets to it.                         *)
UsedUp(bs, n) ==
  Cardinality({i \in DOMAIN bs : Before(bs, i) < n /\ Before(bs, i + 1) <= n})

(* A mutation of AfterTaking: mRead is forgotten, a part that was read of a *)
(* buffer comes again.                                                      *)
MutantAfterTaking(bs, n) == SubSeq(bs, UsedUp(bs, n) + 1, Len(bs))

(* mRead moves on in a buffer. *)
ReadOf(buffer, n) == [buffer EXCEPT !.left = SubSeq(@, n + 1, Len(@))]

AfterTaking(bs, n) ==
  LET k    == UsedUp(bs, n)
      rest == SubSeq(bs, k + 1, Len(bs))
  IN  IF rest = << >> THEN rest
      ELSE [rest EXCEPT ![1] = ReadOf(@, n - Before(bs, k + 1))]

Taking(bs, n) ==
  LET all == Bytes(bs) IN SubSeq(all, 1, IF n < Len(all) THEN n ELSE Len(all))

-----------------------------------------------------------------------------
(* Operations on the object. *)

(* Mutations of NotifySubscribers: a read does not make another              *)
(* notification of the readers due; a write does not make another of the     *)
(* writers due.                                                              *)
MutantNotifyReadOnce(s, afterRead, afterWrite) ==
  LET ready == s.readerReady \/ afterRead
      told  == s.readNotified /\ ~afterWrite
      tell  == s.buffers # << >> /\ ready /\ ~told
  IN  [s EXCEPT !.readerReady = ready, !.readNotified = told \/ tell,
                !.readerCalls = IF tell THEN Posted(@, s.readers) ELSE @]

MutantNotifyWriteOnce(s, afterRead, afterWrite) ==
  LET ready       == s.readerReady \/ afterRead
      readTold    == s.readNotified /\ ~afterRead /\ ~afterWrite
      tellReaders == s.buffers # << >> /\ ready /\ ~readTold
      tellWriters == s.buffers = << >> /\ ~s.writeNotified
  IN  [s EXCEPT !.readerReady = ready,
                !.readNotified = readTold \/ tellReaders,
                !.writeNotified = @ \/ tellWriters,
                !.readerCalls = IF tellReaders THEN Posted(@, s.readers) ELSE @,
                !.writerCalls = IF tellWriters THEN Posted(@, s.writers) ELSE @]

(* A read shows that the reader is ready; a read and a write each make a    *)
(* new notification due.                                                    *)
NotifySubscribers(s, afterRead, afterWrite) ==
  LET ready       == s.readerReady \/ afterRead
      readTold    == s.readNotified /\ ~afterRead /\ ~afterWrite
      writeTold   == s.writeNotified /\ ~afterWrite
      tellReaders == s.buffers # << >> /\ ready /\ ~readTold
      tellWriters == s.buffers = << >> /\ ~writeTold
  IN  [s EXCEPT !.readerReady = ready,
                !.readNotified = readTold \/ tellReaders,
                !.writeNotified = writeTold \/ tellWriters,
                !.readerCalls = IF tellReaders THEN Posted(@, s.readers) ELSE @,
                !.writerCalls = IF tellWriters THEN Posted(@, s.writers) ELSE @]

Push(s, data, header) ==
  NotifySubscribers(
    [s EXCEPT !.buffers = Append(@, [left |-> data, header |-> header])], FALSE, TRUE)

(* write: while the stream is blocked the bytes are put together, under the *)
(* first header there is.                                                   *)
Written(s, data, header) ==
  IF s.shutdown THEN s
  ELSE IF s.blocking
    THEN [s EXCEPT !.blocked = @ \o data,
                   !.blockHeader = IF @ = NoHeader THEN header ELSE @]
  ELSE Push(s, data, header)

(* block(true) *)
BlockedFrom(s) ==
  IF s.shutdown \/ s.blocking THEN s
  ELSE [s EXCEPT !.blocking = TRUE, !.blocked = << >>, !.blockHeader = NoHeader]

(* block(false): everything written meanwhile becomes one buffer. *)
Unblocked(s) ==
  LET off == [s EXCEPT !.blocking = FALSE, !.blocked = << >>, !.blockHeader = NoHeader]
  IN  IF s.shutdown \/ ~s.blocking THEN s
      ELSE IF s.blocked = << >> /\ s.blockHeader = NoHeader THEN off
      ELSE Push(off, s.blocked, s.blockHeader)

(* notifyReaderReadyToRead *)
ReaderReady(s) ==
  IF s.shutdown THEN s
  ELSE NotifySubscribers([s EXCEPT !.readerReady = TRUE], FALSE, FALSE)

(* read and skip of n bytes, n not zero. *)
AfterRead(s, n) ==
  IF s.shutdown THEN s
  ELSE NotifySubscribers([s EXCEPT !.buffers = AfterTaking(@, n)], TRUE, FALSE)

(* read of the next buffer, or of what is left of it. *)
AfterReadNext(s) ==
  IF s.shutdown \/ s.buffers = << >> THEN s
  ELSE NotifySubscribers([s EXCEPT !.buffers = Tail(@)], TRUE, FALSE)

(* read of zero bytes: takes a buffer of size zero, and tells nobody. *)
AfterReadZero(s) ==
  IF ~s.shutdown /\ s.buffers # << >> /\ Head(s.buffers).left = << >>
    THEN [s EXCEPT !.buffers = Tail(@)] ELSE s

(* A mutation of WithReader: who subscribes late is told nothing. *)
MutantWithReader(s, r) ==
  IF s.shutdown THEN s ELSE [s EXCEPT !.readers = @ \cup {r}]

(* subscribe: who subscribes late is told at once. *)
WithReader(s, r) ==
  IF s.shutdown THEN s
  ELSE [s EXCEPT !.readers = @ \cup {r},
          !.readerCalls =
            IF s.buffers # << >> /\ s.readerReady THEN Posted(@, {r}) ELSE @]

WithWriter(s, w) ==
  IF s.shutdown THEN s
  ELSE [s EXCEPT !.writers = @ \cup {w},
          !.writerCalls =
            IF s.buffers = << >> /\ s.readerReady THEN Posted(@, {w}) ELSE @]

(* cancel *)
CancelledStream(s) ==
  [s EXCEPT !.shutdown = TRUE, !.readers = {}, !.writers = {}, !.buffers = << >>]

-----------------------------------------------------------------------------
Init ==
  /\ \E rs \in SUBSET Readers, ws \in SUBSET Writers :
       stream = [NewStream EXCEPT !.readers = rs, !.writers = ws]
  /\ written = 0
  /\ writes = 0
  /\ taken = << >>
  /\ missed = FALSE

(* Every other change to the buffers tells the readers again. *)
ToldAgain == missed' = (missed /\ stream'.buffers = stream.buffers)

Write ==
  \E n \in Sizes, h \in Headers \cup {NoHeader} :
    /\ written + n <= MaxBytes
    /\ Len(stream.buffers) < MaxBuffers
    /\ writes < MaxWrites
    /\ stream' = Written(stream, [i \in 1..n |-> written + i], h)
    /\ written' = IF stream.shutdown THEN written ELSE written + n
    /\ writes' = writes + 1
    /\ ToldAgain
    /\ UNCHANGED taken

Block ==
  /\ stream' = BlockedFrom(stream)
  /\ UNCHANGED <<written, writes, taken, missed>>

Unblock ==
  /\ stream' = Unblocked(stream)
  /\ ToldAgain
  /\ UNCHANGED <<written, writes, taken>>

NotifyReaderReadyToRead ==
  /\ stream' = ReaderReady(stream)
  /\ UNCHANGED <<written, writes, taken, missed>>

(* Each way of reading as an operator on the stream the reader finds. *)

ReadBytes(s, n) ==
  /\ stream' = AfterRead(s, n)
  /\ taken' = IF s.shutdown THEN taken ELSE taken \o Taking(s.buffers, n)
  /\ ToldAgain

ReadNext(s) ==
  /\ stream' = AfterReadNext(s)
  /\ taken' = IF s.shutdown \/ s.buffers = << >> THEN taken
              ELSE taken \o Head(s.buffers).left
  /\ ToldAgain

ReadZero(s) ==
  /\ stream' = AfterReadZero(s)
  /\ missed' = (missed \/ stream'.buffers # stream.buffers)
  /\ UNCHANGED taken

Read ==
  /\ UNCHANGED <<written, writes>>
  /\ \/ \E n \in Lengths : ReadBytes(stream, n)
     \/ ReadNext(stream)
     \/ ReadZero(stream)

(* A call that was posted to a reader is made. *)
Called(s, r) == [s EXCEPT !.readerCalls[r] = @ - 1]

(* getNextReadSizeInBytes says zero. *)
NothingNext(s) == s.buffers # << >> => Head(s.buffers).left = << >>

(* onTransportStreamReaderReady: a reader that was told takes the next      *)
(* buffer, or as many bytes as getNextReadSizeInBytes says.                 *)
OnReaderReady(r) ==
  LET s == Called(stream, r)
  IN  /\ stream.readerCalls[r] > 0
      /\ UNCHANGED <<written, writes>>
      /\ \/ ReadNext(s)
         \/ ~NothingNext(s) /\ ReadBytes(s, Len(Head(s.buffers).left))
         \/ NothingNext(s) /\ ReadZero(s)

(* onTransportStreamWriterReady *)
OnWriterReady(w) ==
  /\ stream.writerCalls[w] > 0
  /\ stream' = [stream EXCEPT !.writerCalls[w] = @ - 1]
  /\ UNCHANGED <<written, writes, taken, missed>>

Subscribe ==
  /\ \/ \E r \in Readers \ stream.readers :
          stream.readerCalls[r] < MaxCalls /\ stream' = WithReader(stream, r)
     \/ \E w \in Writers \ stream.writers :
          stream.writerCalls[w] < MaxCalls /\ stream' = WithWriter(stream, w)
  /\ UNCHANGED <<written, writes, taken, missed>>

(* A subscription is cancelled; what was posted to it may still arrive. *)
Unsubscribe ==
  /\ \/ \E r \in stream.readers : stream' = [stream EXCEPT !.readers = @ \ {r}]
     \/ \E w \in stream.writers : stream' = [stream EXCEPT !.writers = @ \ {w}]
  /\ UNCHANGED <<written, writes, taken, missed>>

Cancel ==
  /\ stream' = CancelledStream(stream)
  /\ UNCHANGED <<written, writes, taken, missed>>

Next ==
  \/ Write \/ Block \/ Unblock \/ NotifyReaderReadyToRead \/ Read
  \/ \E r \in Readers : OnReaderReady(r)
  \/ \E w \in Writers : OnWriterReady(w)
  \/ Subscribe \/ Unsubscribe \/ Cancel

Spec == Init /\ [][Next]_vars

(* What is posted to a message queue is called some time. *)
FairSpec == Spec /\ \A r \in Readers : WF_vars(OnReaderReady(r))

-----------------------------------------------------------------------------
(* Properties. *)

(* The reader is handed the bytes that were written, each once and in their *)
(* order, however reads cut across the buffers and whatever was held back   *)
(* by a block: what was taken, what waits and what is blocked make up what  *)
(* was written (mRead of read and skip, the queue of block).                *)
BytesKept ==
  ~stream.shutdown =>
    taken \o Bytes(stream.buffers) \o stream.blocked = [i \in 1..written |-> i]

(* Nobody who waits for data is forgotten: while there is something to read *)
(* every reader has a call posted to it, even one that subscribed late or   *)
(* whose last read left data behind (the flags of notifySubscribers). A read *)
(* of zero bytes breaks this, until the next write or read.                 *)
ReadersTold ==
  ~missed /\ stream.readerReady /\ stream.buffers # << >> =>
    \A r \in stream.readers : stream.readerCalls[r] > 0

(* Whoever empties the stream, every writer has a call posted to it that    *)
(* says that there is room: the read that takes the last buffer posts it,   *)
(* unless it is a read of zero bytes.                                       *)
WritersTold ==
  [][ /\ stream.buffers # << >>
      /\ stream'.buffers = << >>
      /\ ~stream'.shutdown
      /\ ~missed'
      => \A w \in stream'.writers : stream'.writerCalls[w] > 0 ]_vars

(* A reader that takes what it is told of, one buffer each time, gets       *)
(* everything: a byte that waits, the reader ready and the stream not       *)
(* blocked, is taken, unless meanwhile the stream is cancelled, nobody      *)
(* reads any more, or a read of zero bytes took the notification with it.   *)
EventuallyRead ==
  \A n \in 1..MaxBytes :
    written >= n /\ stream.readerReady /\ ~stream.blocking
      ~> \/ Len(taken) >= n
         \/ stream.shutdown \/ stream.blocking
         \/ stream.readers = {}
         \/ missed
=============================================================================
