---------------------------- MODULE TCPMessaging ----------------------------
(* Messages over TCP (openpeer/services/cpp/services_TCPMessaging.cpp): A   *)
(* connects and sends, B accepts and receives.  Each object is called by    *)
(* its socket, its transport stream and its linger timer on the services'   *)
(* queue, while connect() and accept() may run on another thread.           *)
(*                                                                          *)
(* Frames carry no channel number here.  The socket (zsLib, not part of the *)
(* repository) says that it can be written to once after each connect() and *)
(* each send(), and takes as much of what it is given as it likes.          *)
EXTENDS Naturals, Sequences, FiniteSetsExt

CONSTANTS
  MessageSizes,   (* in units                                               *)
  MaxMessageSize, (* what B takes: mMaxMessageSizeInBytes                   *)
  MaxMessages,    (* bound: messages written                                *)
  MayFail         (* "accept": accept() may fail, "socket": either end may  *)

ASSUME TCPMessagingAssumption ==
  MessageSizes \subseteq Nat /\ MaxMessages \in Nat /\ MaxMessageSize \in Nat

VARIABLES
  peer,           (* the objects                                            *)
  sendStream,     (* mSendStream of A, a record of TransportStream          *)
  sendingQueue,   (* mSendingQueue of A                                     *)
  writable,       (* A's socket will call onWriteReady                      *)
  tcp,            (* what TCP carries from A to B                           *)
  receivingQueue, (* mReceivingQueue of B                                   *)
  received,       (* history: the messages B wrote to its receive stream    *)
  sizes,          (* history: the messages A's owner wrote                  *)
  gone            (* a null subscription was used: the process is gone      *)

tcpVars == <<peer, sendStream, sendingQueue, writable, tcp, receivingQueue,
             received, sizes, gone>>

Peers == {"A", "B"}
States == {"Pending", "Connected", "ShuttingDown", "Shutdown"}

SendStream == INSTANCE TransportStream WITH
  Readers <- {"reader"}, Writers <- {}, Headers <- {}, NoHeader <- "none",
  Sizes <- {}, Lengths <- {}, MaxBytes <- 0, MaxBuffers <- 0, MaxWrites <- 0, MaxCalls <- 0,
  stream <- sendStream, written <- 0, writes <- 0, taken <- << >>, missed <- FALSE

-----------------------------------------------------------------------------
(* Frames *)

(* Of size n, unit p of the k-th message; a DWORD is two units here. *)
Message(k, n) == [p \in 1..n |-> <<k, p>>]

Frame(buffer) == << <<0, Len(buffer.left)>>, <<0, Len(buffer.left)>> >> \o buffer.left

(* The queue after each of the first buffers of the stream s, and how much  *)
(* there is to send then                                                    *)
QueueWith(s, j) ==
  LET queue[i \in 0..Len(s.buffers)] ==
        IF i = 0 THEN sendingQueue ELSE queue[i - 1] \o Frame(s.buffers[i])
  IN  queue[j]

Queued(s, j) == Len(QueueWith(s, j))

(* sendDataNow reads a buffer when all before it was sent; the last one     *)
(* read is what the socket did not take in full.                            *)
BuffersRead(s, sent) ==
  Min({j \in 0..Len(s.buffers) : Queued(s, j) > sent \/ j = Len(s.buffers)})

(* the mutant of Unsent: what was taken of the last buffer read is forgotten *)
MutantUnsent(q, sent) == IF sent > 0 /\ sent < Len(q) THEN SubSeq(q, sent, Len(q)) ELSE << >>

(* What send() leaves of q is queued. *)
Unsent(q, sent) == SubSeq(q, sent + 1, Len(q))

StreamAfter(s, j) ==
  LET after[i \in 0..j] == IF i = 0 THEN s ELSE SendStream!AfterReadNext(after[i - 1])
  IN  after[j]

(* The frame at the head of a queue is there in full. *)
FrameWaits(q) == Len(q) >= 2 /\ Len(q) >= 2 + q[1][2]

(* One turn of the loop of onReadReady, as long as no frame is too large    *)
Parsed(r) ==
  IF ~FrameWaits(r.queue) \/ r.queue[1][2] > MaxMessageSize THEN r
  ELSE [queue |-> SubSeq(r.queue, 3 + r.queue[1][2], Len(r.queue)),
        got   |-> Append(r.got, SubSeq(r.queue, 3, 2 + r.queue[1][2]))]

ParseAll(q) ==
  LET parsed[i \in 0..MaxMessages] ==
        IF i = 0 THEN [queue |-> q, got |-> received] ELSE Parsed(parsed[i - 1])
  IN  parsed[MaxMessages]

TooLarge(q) == FrameWaits(q) /\ q[1][2] > MaxMessageSize

-----------------------------------------------------------------------------
(* The life of an object *)

New ==
  [made |-> FALSE, init |-> FALSE, state |-> "Pending", connectIssued |-> FALSE,
   writeReady |-> FALSE, socket |-> FALSE, lingering |-> FALSE, timer |-> FALSE]

(* cancel(): with a linger timer the end is left to onTimer. *)
CancelledPeer(p) ==
  IF p.lingering THEN [p EXCEPT !.state = "ShuttingDown"]
  ELSE [p EXCEPT !.state = "Shutdown", !.socket = FALSE]

(* ... and what it does to the rest: without init() there is no             *)
(* subscription to cancel.                                                  *)
CancelRest(e) ==
  IF peer[e].lingering THEN UNCHANGED <<sendStream, gone>>
  ELSE /\ gone' = (gone \/ ~peer[e].init)
       /\ sendStream' = IF e = "A" THEN SendStream!CancelledStream(sendStream) ELSE sendStream

(* shutdown(lingerTime): a negative time means none *)
Lingering(p) == IF p.lingering THEN p ELSE [p EXCEPT !.lingering = TRUE, !.timer = TRUE]

Linger(p) == CancelledPeer(Lingering(p))

(* setState(Connected) asks the send stream for data. *)
AskForData == SendStream!ReaderReady(sendStream)

NothingCarried == UNCHANGED <<sendingQueue, writable, tcp, receivingQueue, received, sizes>>

(* connect(): the socket may fail at once *)
ConnectTo ==
  /\ ~gone /\ ~peer["A"].made
  /\ LET p == [New EXCEPT !.made = TRUE, !.connectIssued = TRUE, !.socket = TRUE] IN
       \/ /\ peer' = [peer EXCEPT !["A"] = p]
          /\ writable' = TRUE
       \/ /\ "socket" \in MayFail
          /\ peer' = [peer EXCEPT !["A"] = Linger(p)]
          /\ UNCHANGED writable
  /\ UNCHANGED <<sendStream, sendingQueue, tcp, receivingQueue, received, sizes, gone>>

(* accept(): a socket that cannot be accepted shuts the object down. *)
Accept ==
  /\ ~gone /\ ~peer["B"].made
  /\ \/ peer' = [peer EXCEPT !["B"] = [New EXCEPT !.made = TRUE, !.socket = TRUE]]
     \/ /\ "accept" \in MayFail
        /\ peer' = [peer EXCEPT !["B"] = Linger([New EXCEPT !.made = TRUE])]
  /\ UNCHANGED <<sendStream, gone>> /\ NothingCarried

(* init(), the last call of connect() *)
InitConnecting ==
  /\ ~gone /\ peer["A"].made /\ ~peer["A"].init
  /\ peer' = [peer EXCEPT !["A"].init = TRUE]
  /\ sendStream' = SendStream!WithReader(sendStream, "reader")
  /\ UNCHANGED gone /\ NothingCarried

(* init() and setState(Connected) at the end of accept() *)
InitAccepted ==
  /\ ~gone /\ peer["B"].made /\ ~peer["B"].init
  /\ peer' = [peer EXCEPT !["B"] = [@ EXCEPT !.init = TRUE, !.state = "Connected"]]
  /\ UNCHANGED <<sendStream, gone>> /\ NothingCarried

(* shutdown() *)
Shutdown(e, linger) ==
  /\ ~gone /\ peer[e].init /\ peer[e].state # "Shutdown"
  /\ IF linger
     THEN peer' = [peer EXCEPT ![e] = Linger(@)] /\ UNCHANGED <<sendStream, gone>>
     ELSE peer' = [peer EXCEPT ![e] = CancelledPeer(@)] /\ CancelRest(e)
  /\ NothingCarried

(* the mutant of TimerFired: mLingerTimer is kept *)
MutantTimerFired(p) == [p EXCEPT !.timer = FALSE]

(* mLingerTimer is reset before cancel(). *)
TimerFired(p) == [p EXCEPT !.timer = FALSE, !.lingering = FALSE]

(* onTimer *)
OnLingerTimer(e) ==
  /\ ~gone /\ peer[e].timer
  /\ peer' = [peer EXCEPT ![e] = CancelledPeer(TimerFired(@))]
  /\ gone' = (gone \/ ~peer[e].init)
  /\ sendStream' = IF e = "A" THEN SendStream!CancelledStream(sendStream) ELSE sendStream
  /\ NothingCarried

(* onException, or another failure of the socket: setError and cancel *)
OnException(e) ==
  /\ ~gone /\ "socket" \in MayFail /\ peer[e].socket
  /\ peer' = [peer EXCEPT ![e] = CancelledPeer(@)]
  /\ CancelRest(e)
  /\ NothingCarried

-----------------------------------------------------------------------------
(* Sending *)

(* the mutant of NothingSent: mTCPWriteReady stays reset *)
MutantNothingSent(p) == p

(* Nothing was sent: the socket will not call again. *)
NothingSent(p) == [p EXCEPT !.writeReady = TRUE]

(* sendDataNow of p, with the stream s to read; the socket takes as much as *)
(* it likes.  Without a call of send() there will be no onWriteReady.       *)
SendDataNow(p, s, called) ==
  LET all == Queued(s, Len(s.buffers)) IN
  IF p.state = "Shutdown" \/ ~p.socket \/ ~p.writeReady \/ all = 0
  THEN /\ peer' = [peer EXCEPT !["A"] =
                     IF p.writeReady THEN NothingSent([p EXCEPT !.writeReady = FALSE]) ELSE p]
       /\ sendStream' = s
       /\ writable' = called
       /\ UNCHANGED <<sendingQueue, tcp>>
  ELSE \E sent \in 0..all :
       LET read == BuffersRead(s, sent) IN
         /\ peer' = [peer EXCEPT !["A"] = [p EXCEPT !.writeReady = FALSE]]
         /\ sendStream' = StreamAfter(s, read)
         /\ sendingQueue' = Unsent(QueueWith(s, read), sent)
         /\ tcp' = tcp \o SubSeq(QueueWith(s, read), 1, sent)
         /\ writable' = TRUE

(* onTransportStreamReaderReady *)
OnSendStreamReady ==
  /\ ~gone /\ sendStream.readerCalls["reader"] > 0
  /\ SendDataNow(peer["A"], SendStream!Called(sendStream, "reader"), writable)
  /\ UNCHANGED <<receivingQueue, received, sizes, gone>>

(* onWriteReady: the first one is the answer to connect(). *)
OnWriteReady ==
  /\ ~gone /\ writable /\ peer["A"].socket
  /\ LET p == peer["A"]
         answer == p.connectIssued /\ p.state # "ShuttingDown"
     IN  IF answer
         THEN SendDataNow([p EXCEPT !.connectIssued = FALSE, !.state = "Connected",
                                    !.writeReady = TRUE], AskForData, FALSE)
         ELSE SendDataNow([p EXCEPT !.writeReady = TRUE], sendStream, FALSE)
  /\ UNCHANGED <<receivingQueue, received, sizes, gone>>

(* The owner of A writes a message. *)
WriteMessage(size) ==
  /\ ~gone /\ Len(sizes) < MaxMessages
  /\ sizes' = Append(sizes, size)
  /\ sendStream' = SendStream!Written(sendStream, Message(Len(sizes'), size), "none")
  /\ UNCHANGED <<peer, sendingQueue, writable, tcp, receivingQueue, received, gone>>

-----------------------------------------------------------------------------
(* Receiving *)

Reads(e) == ~gone /\ peer[e].socket /\ peer[e].state \notin {"ShuttingDown", "Shutdown"}

(* onReadReady takes what there is and cuts it into messages, up to one     *)
(* that is too large.                                                       *)
OnReadReady(n) ==
  /\ Reads("B") /\ n <= Len(tcp)
  /\ LET parsed == ParseAll(receivingQueue \o SubSeq(tcp, 1, n)) IN
       /\ receivingQueue' = parsed.queue
       /\ received' = parsed.got
       /\ IF TooLarge(parsed.queue)
          THEN peer' = [peer EXCEPT !["B"] = CancelledPeer(@)] /\ CancelRest("B")
          ELSE UNCHANGED <<peer, sendStream, gone>>
  /\ tcp' = SubSeq(tcp, n + 1, Len(tcp))
  /\ UNCHANGED <<sendingQueue, writable, sizes>>

(* onReadReady reads nothing: the other end closed its socket. *)
OnReadEnd(e) ==
  /\ Reads(e) /\ (e = "B" => tcp = << >>)
  /\ \E o \in Peers \ {e} : peer[o].made /\ ~peer[o].socket
  /\ peer' = [peer EXCEPT ![e] = CancelledPeer(@)]
  /\ CancelRest(e)
  /\ NothingCarried

TCPInit ==
  /\ peer = [e \in Peers |-> New]
  /\ sendStream = SendStream!NewStream
  /\ sendingQueue = << >> /\ writable = FALSE
  /\ tcp = << >> /\ receivingQueue = << >>
  /\ received = << >> /\ sizes = << >>
  /\ gone = FALSE

TCPNext ==
  \/ ConnectTo \/ Accept \/ InitConnecting \/ InitAccepted
  \/ \E e \in Peers :
       \/ OnLingerTimer(e) \/ OnException(e) \/ OnReadEnd(e)
       \/ \E linger \in BOOLEAN : Shutdown(e, linger)
  \/ OnSendStreamReady \/ OnWriteReady
  \/ \E size \in MessageSizes : WriteMessage(size)
  \/ \E n \in 1..Len(tcp) : OnReadReady(n)

TCPSpec == TCPInit /\ [][TCPNext]_tcpVars
-----------------------------------------------------------------------------

TCPTypeOK ==
  /\ peer \in [Peers -> [made : BOOLEAN, init : BOOLEAN, state : States,
                        connectIssued : BOOLEAN, writeReady : BOOLEAN, socket : BOOLEAN,
                        lingering : BOOLEAN, timer : BOOLEAN]]
  /\ \A e \in Peers : peer[e].state = "Shutdown" => ~peer[e].socket
  /\ sizes \in Seq(MessageSizes) /\ Len(received) <= Len(sizes)

(* The messages B hands on are those that were written at A, each whole,    *)
(* once and in order, whatever pieces the socket takes and TCP hands over,  *)
(* and whatever ends the session.                                           *)
Numbers ==
  [i \in DOMAIN received |->
     IF i \in DOMAIN sizes /\ received[i] = Message(i, sizes[i]) THEN i ELSE 0]

TCPMessages == INSTANCE ReliableStream WITH written <- Len(sizes), read <- Numbers

TCPMessagesWhole == TCPMessages!Spec

(* A session that is up never rests with a message unsent: with nothing     *)
(* called, nothing to be called and nothing on its way everything was       *)
(* handed on.  mTCPWriteReady is reset before it is known whether send()    *)
(* will be called, and onWriteReady comes only after a send().              *)
SessionRests ==
  /\ \A e \in Peers : peer[e].init /\ peer[e].state = "Connected"
  /\ ~writable /\ sendStream.readerCalls["reader"] = 0 /\ tcp = << >>

NothingUnsent == SessionRests => Len(received) = Len(sizes)

(* An object that shuts down has a timer that will end it: no other event   *)
(* does, and the reference it keeps to itself would stay for ever.          *)
ShutdownEnds ==
  \A e \in Peers : peer[e].state = "ShuttingDown" => peer[e].timer
=============================================================================
