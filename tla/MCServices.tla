----------------------------- MODULE MCServices -----------------------------
(* The parts in which something must happen in the end, each model-checked  *)
(* by itself: the stream of buffers, whose readers come and go, and those   *)
(* that answer a request once.  "at" is the one that moves.  No action that *)
(* is assumed fair can happen in the initial state of a part, so that the   *)
(* parts that do not move are treated fairly.                               *)
EXTENDS TransportStream, STUNDiscovery, MessageMonitor

VARIABLES
  at,
  requests, answer, expiry, sent, heard, died                 (* STUNRequester *)

streamVars == vars
ownVars == <<requests, answer, expiry, sent, heard, died>>

(* Two requests of any owner, whose answers come on a thread of their own *)
Own == INSTANCE STUNRequester WITH
  Requesters <- {"r1", "r2"}, MaxTries <- 1, MaxRestarts <- 1, SharedQueue <- FALSE,
  stun <- requests, answering <- answer, expiring <- expiry, wire <- sent,
  told <- heard, crashed <- died

(* The discovery: two servers that name each other, and a third that has no *)
(* port; a lookup may give no address that can be used.  And two requests   *)
(* of the stack, each answered twice.                                       *)
MCLookups == {<<"s1">>, <<"p", "s2", "s1">>, <<"p">>}

MCInit ==
  /\ Init
  /\ \/ at = "stream"
     \/ at \in {"requester", "discovery", "monitor"} /\ stream = NewStream
  /\ Own!RequesterInit
  /\ DiscoveryInit
  /\ MonitorInit

OnlyStream == at = "stream" /\ UNCHANGED <<at, ownVars, discoveryVars, monitorVars>>
OnlyOwn == at = "requester" /\ UNCHANGED <<at, streamVars, discoveryVars, monitorVars>>
OnlyDiscovery == at = "discovery" /\ UNCHANGED <<at, streamVars, ownVars, monitorVars>>
OnlyMonitor == at = "monitor" /\ UNCHANGED <<at, streamVars, ownVars, discoveryVars>>

MCNext ==
  \/ OnlyStream /\ Write
  \/ OnlyStream /\ Block
  \/ OnlyStream /\ Unblock
  \/ OnlyStream /\ NotifyReaderReadyToRead
  \/ OnlyStream /\ Read
  \/ OnlyStream /\ \E r \in Readers : OnReaderReady(r)
  \/ OnlyStream /\ \E w \in Writers : OnWriterReady(w)
  \/ OnlyStream /\ Subscribe
  \/ OnlyStream /\ Unsubscribe
  \/ OnlyStream /\ Cancel
  \/ OnlyOwn /\ Own!Answering
  \/ OnlyOwn /\ Own!Expiring
  \/ OnlyOwn /\ \E accepts \in BOOLEAN : Own!CallDelegate(accepts)
  \/ OnlyOwn /\ \E r \in {"r1", "r2"} : Own!SendPacket(r)
  \/ OnlyOwn /\ \E r \in {"r1", "r2"} : Own!OnTimer(r)
  \/ OnlyOwn /\ \E r \in {"r1", "r2"} : Own!OnMaxTimer(r)
  \/ OnlyOwn /\ \E r \in {"r1", "r2"} : Own!FindRequester(r)
  \/ OnlyOwn /\ \E r \in {"r1", "r2"} : Own!CreateRequest(r)
  \/ OnlyOwn /\ \E r \in {"r1", "r2"} : Own!CancelRequester(r)
  \/ OnlyOwn /\ \E r \in {"r1", "r2"} : Own!RetryRequestNow(r)
  \/ OnlyOwn /\ \E r \in {"r1", "r2"} : Own!HearTimedOut(r)
  \/ OnlyDiscovery /\ CreateDiscovery
  \/ OnlyDiscovery /\ CancelDiscovery
  \/ OnlyDiscovery /\ Requesting
  \/ OnlyDiscovery /\ PostedCall
  \/ OnlyDiscovery /\ Answered
  \/ OnlyMonitor /\ OnAutoHandleFailureResult
  \/ OnlyMonitor /\ OnHandleMessage
  \/ OnlyMonitor /\ \E handled \in BOOLEAN : DelegateReturns(handled)
  \/ OnlyMonitor /\ \E m \in {"m1", "m2"} : Monitor(m)
  \/ OnlyMonitor /\ \E m \in {"m1", "m2"} : MessageSent(m)
  \/ OnlyMonitor /\ \E m \in {"m1", "m2"} : NotifyMessageSendFailed(m)
  \/ OnlyMonitor /\ \E m \in {"m1", "m2"} : HandleMessageReceived(m)
  \/ OnlyMonitor /\ \E m \in {"m1", "m2"} : OnMonitorTimer(m)
  \/ OnlyMonitor /\ \E m \in {"m1", "m2"} : CancelMonitor(m)

MCSpec ==
  /\ MCInit /\ [][MCNext]_<<at, streamVars, ownVars, discoveryVars, monitorVars>>
  /\ \A r \in Readers : WF_vars(OnReaderReady(r))
  /\ Own!RequesterFairness
  /\ DiscoveryFairness
  /\ MonitorFairness

-----------------------------------------------------------------------------
(* The variables of every part have their types, and the manager of the     *)
(* requests of any owner finds exactly those that wait.                     *)
ServicesTyped ==
  /\ Own!RequesterTypeOK /\ Own!ManagerKnowsWaiting
  /\ DiscoveryTypeOK
  /\ MonitorTypeOK

(* STUNRequester: every request of any owner ends.                          *)
OwnRequestsEnd == Own!EveryRequestEnds
=============================================================================
