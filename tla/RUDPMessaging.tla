---------------------------- MODULE RUDPMessaging ----------------------------
(* Messages over a reliable stream                                          *)
(* (openpeer/services/cpp/services_RUDPMessaging.cpp), in one direction: A  *)
(* puts the size before each message its application writes, B cuts what    *)
(* the channel hands it, in pieces of any length, into messages again.      *)
(*                                                                          *)
(* Four transport streams are in between, each a record of TransportStream: *)
(*   application -> outerSend -> A -> wireSend -> channel                   *)
(*               -> wireReceive -> B -> outerReceive -> application         *)
(* A and B act only when a stream calls them, on their queues.  The channel *)
(* is what RUDPChannelPair shows it to be: nothing lost, nothing reordered, *)
(* until one of its ends is cancelled and both streams there with it.       *)
EXTENDS Naturals, Sequences, SequencesExt

CONSTANTS
  Sizes,          (* of messages, in units                                  *)
  MaxMessages,    (* bound: messages written                                *)
  MaxChunk,       (* bound: units the channel takes or hands over at once   *)
  MayEnd          (* bound: the ends at which the session is ended          *)

VARIABLES
  io,             (* the four streams, and what B wrote for its application *)
  transit,        (* what the channel has taken and not handed over         *)
  channel,        (* the state of its two ends, and its posted callbacks    *)
  messaging,      (* the two objects                                        *)
  sizes,          (* history: the messages written that are not empty       *)
  writes          (* how many were written                                  *)

vars == <<io, transit, channel, messaging, sizes, writes>>

Ends == {"A", "B"}
States == {"Connecting", "Connected", "ShuttingDown", "Shutdown"}

T == INSTANCE TransportStream WITH
  Readers <- {"reader"}, Writers <- {"writer"}, Headers <- {}, NoHeader <- "none",
  Sizes <- {}, Lengths <- {}, MaxBytes <- 0, MaxBuffers <- 0, MaxWrites <- 0, MaxCalls <- 0,
  stream <- io.outerSend, written <- 0, writes <- 0, taken <- << >>, missed <- FALSE

-----------------------------------------------------------------------------
(* Messages and frames.  A DWORD is two units here, so that it can be cut.  *)

Message(n, size) == [p \in 1..size |-> <<n, p>>]

Header(size) == << <<"high", size>>, <<"low", size>> >>

Frame(message) == Header(Len(message)) \o message

(* The number of a message that was written, or none *)
NumberOf(message) ==
  IF \E n \in DOMAIN sizes : message = Message(n, sizes[n]) THEN message[1][1] ELSE 0

Available(s) == Len(T!Bytes(s.buffers))

(* stepSendData: each buffer of the application is a message. *)
SendOne(s, buffer) ==
  [s EXCEPT !.outerSend = T!AfterReadNext(@),
            !.wireSend  = T!Written(@, Frame(buffer.left), "none")]

StepSendData(s, m) ==
  IF ~m.informed THEN s ELSE FoldLeft(SendOne, s, s.outerSend.buffers)

(* The size that is peeked at *)
NextSize(s) == T!Bytes(s.wireReceive.buffers)[1][2]

(* the mutant of FrameWaits: the size counts as part of the message *)
MutantFrameWaits(s) ==
  Available(s.wireReceive) >= 2 /\ Available(s.wireReceive) >= NextSize(s)

FrameWaits(s) ==
  Available(s.wireReceive) >= 2 /\ Available(s.wireReceive) >= 2 + NextSize(s)

(* One turn of stepReceiveData: an empty message is not passed on. *)
ReceiveOne(s) ==
  LET size    == NextSize(s)
      body    == T!AfterRead(s.wireReceive, 2)
      message == T!Taking(body.buffers, size)
  IN  IF size = 0 THEN [s EXCEPT !.wireReceive = body]
      ELSE [s EXCEPT !.wireReceive  = T!AfterRead(body, size),
                     !.outerReceive = T!Written(@, message, "none"),
                     !.delivered    = Append(@, NumberOf(message))]

StepReceiveData(s, m) ==
  IF ~m.informed THEN s
  ELSE FoldLeft(LAMBDA t, k : IF FrameWaits(t) THEN ReceiveOne(t) ELSE t,
                s, [k \in 1..MaxMessages |-> k])

(* step() of the two objects *)
StepA(s, m) == IF m.state = "Shutdown" THEN s ELSE StepSendData(s, m)
StepB(s, m) == IF m.state = "Shutdown" THEN s ELSE StepReceiveData(s, m)

-----------------------------------------------------------------------------
(* init(), after the channel was given the streams *)
InitA ==
  /\ ~messaging["A"].init
  /\ messaging' = [messaging EXCEPT !["A"].init = TRUE]
  /\ io' = [io EXCEPT !.wireSend  = T!WithWriter(@, "writer"),
                      !.outerSend = T!WithReader(@, "reader")]
  /\ UNCHANGED <<transit, channel, sizes, writes>>

InitB ==
  /\ ~messaging["B"].init
  /\ messaging' = [messaging EXCEPT !["B"].init = TRUE]
  /\ io' = [io EXCEPT !.wireReceive  = T!WithReader(@, "reader"),
                      !.outerReceive = T!WithWriter(@, "writer")]
  /\ UNCHANGED <<transit, channel, sizes, writes>>

(* onTransportStreamReaderReady of outerSend at A, of wireReceive at B *)
OnReaderReadyA ==
  /\ messaging["A"].init /\ io.outerSend.readerCalls["reader"] > 0
  /\ io' = StepA([io EXCEPT !.outerSend = T!Called(@, "reader")], messaging["A"])
  /\ UNCHANGED <<transit, channel, messaging, sizes, writes>>

OnReaderReadyB ==
  /\ messaging["B"].init /\ io.wireReceive.readerCalls["reader"] > 0
  /\ io' = StepB([io EXCEPT !.wireReceive = T!Called(@, "reader")], messaging["B"])
  /\ UNCHANGED <<transit, channel, messaging, sizes, writes>>

WriterCalled(s) == [s EXCEPT !.writerCalls["writer"] = @ - 1]

(* the mutant of Informed: the reader of the other side is not asked *)
MutantInformed(s) == s

(* Who can write on wants to read: notifyReaderReadyToRead. *)
Informed(s) == T!ReaderReady(s)

(* onTransportStreamWriterReady of wireSend at A, of outerReceive at B      *)
OnWriterReadyA ==
  /\ messaging["A"].init /\ io.wireSend.writerCalls["writer"] > 0
  /\ messaging' = [messaging EXCEPT !["A"].informed = TRUE]
  /\ io' = StepA([io EXCEPT !.wireSend = WriterCalled(@), !.outerSend = Informed(@)],
                 messaging'["A"])
  /\ UNCHANGED <<transit, channel, sizes, writes>>

OnWriterReadyB ==
  /\ messaging["B"].init /\ io.outerReceive.writerCalls["writer"] > 0
  /\ messaging' = [messaging EXCEPT !["B"].informed = TRUE]
  /\ io' = StepB([io EXCEPT !.outerReceive = WriterCalled(@), !.wireReceive = Informed(@)],
                 messaging'["B"])
  /\ UNCHANGED <<transit, channel, sizes, writes>>

(* cancel(): over once the channel is *)
Cancelled(m, channelState) ==
  IF m.state = "Shutdown" THEN m
  ELSE [m EXCEPT !.state = IF channelState = "Shutdown" THEN "Shutdown" ELSE "ShuttingDown"]

(* the mutant of ShutdownOf: a channel that shuts down is shut down again *)
MutantShutdownOf(c) ==
  IF c.state = "Shutdown" THEN c
  ELSE [c EXCEPT !.state = "ShuttingDown", !.posted = Append(@, "ShuttingDown")]

(* cancel() of the channel, and its setState: each state is told once. *)
ShutdownOf(c) ==
  IF c.state \in {"ShuttingDown", "Shutdown"} THEN c
  ELSE [c EXCEPT !.state = "ShuttingDown", !.posted = Append(@, "ShuttingDown")]

(* shutdown(), and what it makes of the channel *)
Shutdown(e) ==
  /\ messaging[e].init /\ messaging[e].state # "Shutdown"
  /\ messaging' = [messaging EXCEPT ![e] = Cancelled(@, channel[e].state)]
  /\ channel' = [channel EXCEPT ![e] = ShutdownOf(@)]
  /\ UNCHANGED <<io, transit, sizes, writes>>

(* onRDUPChannelStateChanged; an end of the channel shuts it down in full.  *)
OnChannelStateChanged(e) ==
  /\ messaging[e].init /\ channel[e].posted # << >>
  /\ LET state == Head(channel[e].posted)
         called == [channel[e] EXCEPT !.posted = Tail(@)]
         ends == state # "Connected" /\ messaging[e].state # "Shutdown"
     IN  /\ messaging' =
              IF ends THEN [messaging EXCEPT ![e] = Cancelled(@, channel[e].state)]
              ELSE IF messaging[e].state = "Connecting"
              THEN [messaging EXCEPT ![e].state = "Connected"]
              ELSE messaging
         /\ channel' = [channel EXCEPT ![e] = IF ends THEN ShutdownOf(called) ELSE called]
  /\ UNCHANGED <<io, transit, sizes, writes>>

-----------------------------------------------------------------------------
(* The applications and the channel *)

(* The application at A writes a message of one buffer. *)
Write(size) ==
  /\ writes < MaxMessages
  /\ writes' = writes + 1
  /\ sizes' = IF size = 0 THEN sizes ELSE Append(sizes, size)
  /\ io' = [io EXCEPT !.outerSend = T!Written(@, Message(Len(sizes'), size), "none")]
  /\ UNCHANGED <<transit, channel, messaging>>

(* The application at B is ready, and takes what it is handed. *)
ReadyToRead ==
  /\ ~io.outerReceive.readerReady
  /\ io' = [io EXCEPT !.outerReceive = T!ReaderReady(@)]
  /\ UNCHANGED <<transit, channel, messaging, sizes, writes>>

Read ==
  /\ io.outerReceive.buffers # << >>
  /\ io' = [io EXCEPT !.outerReceive = T!AfterReadNext(@)]
  /\ UNCHANGED <<transit, channel, messaging, sizes, writes>>

(* RUDPChannelStream::setStreams at A asks for data. *)
SetStreams ==
  /\ ~io.wireSend.readerReady
  /\ io' = [io EXCEPT !.wireSend = T!ReaderReady(@)]
  /\ UNCHANGED <<transit, channel, messaging, sizes, writes>>

(* Both ends of the channel connect, and tell. *)
Connect ==
  /\ \A e \in Ends : channel[e].state = "Connecting"
  /\ channel' = [e \in Ends |-> [state |-> "Connected", posted |-> <<"Connected">>]]
  /\ UNCHANGED <<io, transit, messaging, sizes, writes>>

(* Packets take as many units as there is room for. *)
Carry(n) ==
  /\ io.wireSend.readerReady /\ n <= Available(io.wireSend)
  /\ channel["A"].state \in {"Connected", "ShuttingDown"}
  /\ transit' = transit \o T!Taking(io.wireSend.buffers, n)
  /\ io' = [io EXCEPT !.wireSend = T!AfterRead(@, n)]
  /\ UNCHANGED <<channel, messaging, sizes, writes>>

HandOver(n) ==
  /\ n <= Len(transit) /\ channel["B"].state \in {"Connected", "ShuttingDown"}
  /\ io' = [io EXCEPT !.wireReceive = T!Written(@, SubSeq(transit, 1, n), "none")]
  /\ transit' = SubSeq(transit, n + 1, Len(transit))
  /\ UNCHANGED <<channel, messaging, sizes, writes>>

(* An end of the channel is over, for whatever reason, and cancels its      *)
(* streams with all that is in them.                                        *)
EndChannel(e) ==
  /\ channel[e].state # "Shutdown"
  /\ channel' = [channel EXCEPT ![e] = [state |-> "Shutdown", posted |-> Append(@.posted, "Shutdown")]]
  /\ io' = IF e = "A" THEN [io EXCEPT !.wireSend = T!CancelledStream(@)]
           ELSE [io EXCEPT !.wireReceive = T!CancelledStream(@)]
  /\ UNCHANGED <<transit, messaging, sizes, writes>>

Init ==
  /\ io = [outerSend |-> T!NewStream, wireSend |-> T!NewStream,
           wireReceive |-> T!NewStream, outerReceive |-> T!NewStream, delivered |-> << >>]
  /\ transit = << >>
  /\ channel = [e \in Ends |-> [state |-> "Connecting", posted |-> << >>]]
  /\ messaging = [e \in Ends |-> [init |-> FALSE, state |-> "Connecting", informed |-> FALSE]]
  /\ sizes = << >>
  /\ writes = 0

Callbacks ==
  \/ OnReaderReadyA \/ OnReaderReadyB \/ OnWriterReadyA \/ OnWriterReadyB

Carrying == \E n \in 1..MaxChunk : Carry(n)
HandingOver == \E n \in 1..MaxChunk : HandOver(n)

Next ==
  \/ InitA \/ InitB \/ Callbacks
  \/ ReadyToRead \/ Read \/ SetStreams \/ Carrying \/ HandingOver
  \/ \E size \in Sizes : Write(size)
  \/ Connect \/ \E e \in Ends : OnChannelStateChanged(e)
  \/ \E e \in MayEnd : Shutdown(e) \/ EndChannel(e)

Spec == Init /\ [][Next]_vars

-----------------------------------------------------------------------------

TypeOK ==
  /\ DOMAIN io = {"outerSend", "wireSend", "wireReceive", "outerReceive", "delivered"}
  /\ io.delivered \in Seq(0..MaxMessages)
  /\ channel \in [Ends -> [state : States, posted : Seq(States)]]
  /\ \A e \in Ends : Len(channel[e].posted) <= 3
  /\ messaging \in [Ends -> [init : BOOLEAN, state : States, informed : BOOLEAN]]
  /\ sizes \in Seq(Sizes \ {0}) /\ writes \in 0..MaxMessages

(* The messages handed to the application at B are those written at A that  *)
(* are not empty, each whole, once and in order, however the channel cuts   *)
(* sizes and messages into pieces: what waits to be complete is only looked *)
(* at (peek), and taken in one go.                                          *)
Messages == INSTANCE ReliableStream WITH written <- Len(sizes), read <- io.delivered

MessagesWhole == Messages!Spec

(* Nothing is called any more, nothing is under way, nothing left to set up *)
Quiet ==
  /\ \A e \in Ends : messaging[e].init /\ channel[e].state = "Connected"
  /\ io.wireSend.readerReady /\ io.outerReceive.readerReady
  /\ io.wireSend.buffers = << >> /\ transit = << >>
  /\ io.outerSend.readerCalls["reader"] = 0 /\ io.wireReceive.readerCalls["reader"] = 0
  /\ io.wireSend.writerCalls["writer"] = 0 /\ io.outerReceive.writerCalls["writer"] = 0

(* No message stays behind, in whatever order the objects, the channel and  *)
(* the application subscribe and say that they are ready: when the last     *)
(* posted call was made and the channel has carried what it could, B handed *)
(* over all that was written.  A call lost, of those that the reader of one *)
(* stream waits for before it reads another, would leave it there for ever. *)
NoneLeftBehind ==
  Quiet /\ (\A e \in Ends : messaging[e].state # "Shutdown") =>
    Len(io.delivered) = Len(sizes)
=============================================================================
