---------------------------- MODULE MCParts ----------------------------
(* The parts that are checked for safety alone, each by itself: the         *)
(* acknowledgement vector, messages over a reliable stream and over TCP,    *)
(* published documents, and which call of a location is heard.  "at" is the *)
(* one that moves.                                                          *)
EXTENDS RUDPVector, PublicationRepository, CallTransport, TCPMessaging

VARIABLES
  at,
  io, transit, channel, messaging, written, writes            (* RUDPMessaging *)

rudpVars == <<io, transit, channel, messaging, written, writes>>

(* Messages of none and one unit, in pieces of up to three; one of the ends *)
(* may end                                                                  *)
RUDP == INSTANCE RUDPMessaging WITH
  Sizes <- {0, 1}, MaxMessages <- 2, MaxChunk <- 3, MayEnd <- {"A", "B"},
  sizes <- written

(* Over TCP, messages of none to two units, of which B takes those of up to *)
(* one; either socket may fail, and accept().                               *)

(* The documents have three versions, two fetches and a connection that is  *)
(* lost once.  One call is placed, which may be hung up, and one comes in;  *)
(* one of them is put on hold or stepped once more.                         *)

MCInit ==
  /\ RUDP!Init /\ TCPInit /\ Init /\ PublicationInit /\ CallInit
  /\ at \in {"vector", "rudpA", "rudpB", "tcp", "publication", "calls"}
  /\ at # "vector" => gsnfr = 0 /\ status = << >> /\ ~xp

OnlyVector ==
  /\ at = "vector"
  /\ UNCHANGED <<at, rudpVars, tcpVars, publicationVars, callVars>>
OnlyRUDP ==
  /\ at \in {"rudpA", "rudpB"}
  /\ UNCHANGED <<at, vars, tcpVars, publicationVars, callVars>>
OnlyTCP ==
  /\ at = "tcp"
  /\ UNCHANGED <<at, vars, rudpVars, publicationVars, callVars>>
OnlyPublication ==
  /\ at = "publication"
  /\ UNCHANGED <<at, vars, rudpVars, tcpVars, callVars>>
OnlyCalls ==
  /\ at = "calls" /\ ~transport.thrown
  /\ UNCHANGED <<at, vars, rudpVars, tcpVars, publicationVars>>

(* The end that may end *)
RUDPEnd == IF at = "rudpA" THEN "A" ELSE "B"

MCNext ==
  \/ OnlyVector /\ Encode
  \/ OnlyVector /\ Finalize
  \/ OnlyVector /\ Receive
  \/ OnlyVector /\ Decode
  \/ OnlyVector /\ NoMoreData
  \/ OnlyRUDP /\ RUDP!InitA
  \/ OnlyRUDP /\ RUDP!InitB
  \/ OnlyRUDP /\ RUDP!OnReaderReadyA
  \/ OnlyRUDP /\ RUDP!OnReaderReadyB
  \/ OnlyRUDP /\ RUDP!OnWriterReadyA
  \/ OnlyRUDP /\ RUDP!OnWriterReadyB
  \/ OnlyRUDP /\ RUDP!ReadyToRead
  \/ OnlyRUDP /\ RUDP!Read
  \/ OnlyRUDP /\ RUDP!SetStreams
  \/ OnlyRUDP /\ RUDP!Carrying
  \/ OnlyRUDP /\ RUDP!HandingOver
  \/ OnlyRUDP /\ \E size \in {0, 1} : RUDP!Write(size)
  \/ OnlyRUDP /\ RUDP!Connect
  \/ OnlyRUDP /\ \E e \in {"A", "B"} : RUDP!OnChannelStateChanged(e)
  \/ OnlyRUDP /\ RUDP!Shutdown(RUDPEnd)
  \/ OnlyRUDP /\ RUDP!EndChannel(RUDPEnd)
  \/ OnlyTCP /\ ConnectTo
  \/ OnlyTCP /\ Accept
  \/ OnlyTCP /\ InitConnecting
  \/ OnlyTCP /\ InitAccepted
  \/ OnlyTCP /\ \E e \in Peers : OnLingerTimer(e)
  \/ OnlyTCP /\ \E e \in Peers : OnException(e)
  \/ OnlyTCP /\ \E e \in Peers : OnReadEnd(e)
  \/ OnlyTCP /\ \E e \in Peers, linger \in BOOLEAN : Shutdown(e, linger)
  \/ OnlyTCP /\ OnSendStreamReady
  \/ OnlyTCP /\ OnWriteReady
  \/ OnlyTCP /\ \E size \in MessageSizes : WriteMessage(size)
  \/ OnlyTCP /\ \E n \in 1..Len(tcp) : OnReadReady(n)
  \/ OnlyPublication /\ \E diff \in BOOLEAN : Update(diff)
  \/ OnlyPublication /\ Publish
  \/ OnlyPublication /\ OnSubscribe
  \/ OnlyPublication /\ OnGet
  \/ OnlyPublication /\ Fetch
  \/ OnlyPublication /\ OnGetResult
  \/ OnlyPublication /\ OnMessageMonitorTimedOut
  \/ OnlyPublication /\ OnPublishNotify
  \/ OnlyPublication /\ Connect
  \/ OnlyPublication /\ Disconnect
  \/ OnlyPublication /\ \E e \in {"P", "S"} : OnDisconnected(e)
  \/ OnlyPublication /\ \E e \in {"P", "S"} : OnTimer(e)
  \/ OnlyCalls /\ \E c \in {"c1", "c2"} : Create(c)
  \/ OnlyCalls /\ Answer("c2")
  \/ OnlyCalls /\ LocationReady("c2")
  \/ OnlyCalls /\ \E c \in {"c1", "c2"}, hold \in BOOLEAN : Hold(c, hold)
  \/ OnlyCalls /\ \E c \in {"c1", "c2"} : Wake(c)
  \/ OnlyCalls /\ \E c \in {"c1", "c2"} : Step(c)
  \/ OnlyCalls /\ EndStep
  \/ OnlyCalls /\ OnHangup("c1")
  \/ OnlyCalls /\ CancelLosesFocus
  \/ OnlyCalls /\ CancelCloses
  \/ OnlyCalls /\ OnSetFocus
  \/ OnlyCalls /\ GiveFocus
  \/ OnlyCalls /\ NotifyLostFocus
  \/ OnlyCalls /\ OnStart
  \/ OnlyCalls /\ EngineStarted
  \/ OnlyCalls /\ OnStop
  \/ OnlyCalls /\ EngineStopped

MCSpec == MCInit /\ [][MCNext]_
  <<at, vars, rudpVars, tcpVars, publicationVars, callVars>>

-----------------------------------------------------------------------------
(* Properties: the parts that do not move are as Init has them.             *)

(* The variables of every part have their types. *)
PartsTyped ==
  /\ at \in {"rudpA", "rudpB"} => RUDP!TypeOK
  /\ at = "tcp" => TCPTypeOK
  /\ at = "publication" => PublicationTypeOK
  /\ at = "calls" => CallTypeOK

(* RUDPMessaging: the messages that arrive are those written, each whole,   *)
(* once and in order.                                                       *)
RUDPMessagesWhole == RUDP!MessagesWhole

(* RUDPMessaging: nothing stays behind when no call is left to be made.     *)
NoneLeftBehind == at \in {"rudpA", "rudpB"} => RUDP!NoneLeftBehind
=============================================================================
