---------------------------- MODULE STUNDiscovery ----------------------------
(* The discovery of one's mapped address with the help of STUN servers      *)
(* (openpeer/services/cpp/services_STUNDiscovery.cpp), over the requester:  *)
(* servers come from a DNS lookup and from other servers, one is asked at   *)
(* a time.                                                                  *)
EXTENDS STUNRequester, Sequences

CONSTANTS
  Servers,        (* addresses with a port                                  *)
  Portless,       (* addresses without one                                  *)
  Lookups         (* what the SRV lookup may return: sequences of addresses *)

None == "no server"

(* None stands for no server and for no request. *)
ASSUME DiscoveryAssumption ==
  /\ None \notin Servers \cup Requesters
  /\ Lookups \subseteq Seq(Servers \cup Portless)

VARIABLES
  discovery,      (* the object                                             *)
  asked           (* history: the server each request went to               *)

discoveryVars == <<requesterVars, discovery, asked>>

Unused(s) == {r \in Requesters : ~s.requester[r].created}

(* A bound: a step is only taken while there is a request left to make.     *)
RequestsLeft == Unused(stun) # {}

Fresh(s) == CHOOSE r \in Unused(s) : TRUE

(* hasContactedServerBefore *)
Contacted(d, server) == server \in d.contacted

(* The SRV results from which step() takes the next: those without port and *)
(* those contacted before are passed over.                                  *)
Usable(d) == {i \in 1..Len(d.srv) : d.srv[i] \in Servers /\ ~Contacted(d, d.srv[i])}

FirstUsable(d) == CHOOSE i \in Usable(d) : \A j \in Usable(d) : i <= j

(* cancel(): the delegate goes, and with it the requester *)
Cancelled(d) ==
  [d EXCEPT !.delegate = FALSE, !.query = FALSE, !.srv = << >>,
            !.request = None, !.contacted = {}]

(* The delegate is told, with an address or without one. *)
Completed(d, mapped) ==
  [Cancelled(d) EXCEPT !.mapped = mapped, !.state = "completed"]

(* step(), and the requester created by it.  A request that waits stops it  *)
(* no earlier than a server has been chosen.                                *)
StepDiscovery(d, s) ==
  LET exhausted == d.server = None /\ Usable(d) = {}
      chosen    == IF d.server # None THEN d
                   ELSE [d EXCEPT !.server = d.srv[FirstUsable(d)],
                                  !.srv = SubSeq(@, FirstUsable(d) + 1, Len(@)),
                                  !.contacted = @ \cup {d.srv[FirstUsable(d)]}]
  IN  IF ~d.delegate \/ d.query THEN [d |-> d, s |-> s]
      ELSE IF exhausted
      THEN [d |-> Completed(d, FALSE), s |-> s]
      ELSE IF d.request # None
      THEN [d |-> chosen, s |-> s]
      ELSE [d |-> [chosen EXCEPT !.request = Fresh(s)], s |-> Create(s, Fresh(s))]

(* the mutant of Alternate: the server is not remembered *)
MutantAlternate(d, server) ==
  IF server \in Servers /\ ~Contacted(d, server)
  THEN [d EXCEPT !.server = server]
  ELSE [d EXCEPT !.server = None]

(* the answer TryAlternate: a server that has a port and was not contacted *)
Alternate(d, server) ==
  IF server \in Servers /\ ~Contacted(d, server)
  THEN [d EXCEPT !.server = server, !.contacted = @ \cup {server}]
  ELSE [d EXCEPT !.server = None]

Responses ==
  {[kind |-> "mapped"], [kind |-> "malformed"], [kind |-> "error"]} \cup
  [kind : {"alternate"}, server : Servers \cup Portless]

(* handleSTUNRequesterResponse for the current request, and whether the     *)
(* response is accepted: one that has an error code but is no error         *)
(* response is not.                                                         *)
AfterResponse(d, s, response) ==
  CASE response.kind = "malformed" -> [d |-> d, s |-> s]
    [] response.kind = "mapped" ->
         [d |-> Completed(d, TRUE), s |-> s]
    [] response.kind = "alternate" ->
         StepDiscovery([Alternate(d, response.server) EXCEPT !.request = None], s)
    [] OTHER -> StepDiscovery([d EXCEPT !.server = None, !.request = None], s)

Accepts(response) == response.kind # "malformed"

-----------------------------------------------------------------------------

(* create() with a lookup to be made, or with its result.  The lookup's     *)
(* answer is posted.                                                        *)
CreateDiscovery ==
  /\ ~crashed /\ RequestsLeft /\ discovery.state = "none"
  /\ LET new == [discovery EXCEPT !.state = "created", !.delegate = TRUE] IN
       \/ /\ discovery' = [new EXCEPT !.query = TRUE]
          /\ UNCHANGED <<stun, asked>>
       \/ \E srv \in Lookups :
            LET after == StepDiscovery([new EXCEPT !.srv = srv], stun) IN
              /\ discovery' = after.d /\ stun' = after.s
              /\ asked' = IF after.d.request = None THEN asked
                          ELSE [asked EXCEPT ![after.d.request] = after.d.server]
  /\ UNCHANGED <<answering, expiring, wire, told, crashed>>

(* From what step() made of the object, the histories of servers asked.     *)
Apply(after) ==
  /\ discovery' = after.d
  /\ asked' = IF after.d.request = None \/ after.d.request = discovery.request THEN asked
              ELSE [asked EXCEPT ![after.d.request] = after.d.server]

(* onLookupCompleted of the current query; a failed lookup gives no server. *)
OnLookupCompleted ==
  /\ ~crashed /\ AnswersFree /\ TimersFree /\ RequestsLeft
  /\ discovery.query
  /\ \E srv \in Lookups \cup {<< >>} :
       LET after == StepDiscovery([discovery EXCEPT !.srv = srv, !.query = FALSE], stun) IN
         Apply(after) /\ stun' = after.s
  /\ UNCHANGED <<answering, expiring, wire, told, crashed>>

(* onSTUNRequesterSendPacket: only the current request is sent.             *)
SendRequest(r) ==
  /\ ~crashed /\ AnswersFree /\ TimersFree
  /\ r \in stun.sendPosted
  /\ stun' = [stun EXCEPT !.sendPosted = @ \ {r}]
  /\ wire' = IF r = discovery.request THEN wire \cup {r} ELSE wire
  /\ UNCHANGED <<answering, expiring, told, crashed, discovery, asked>>

(* the mutant of HandleResponse: any request's answer counts as the current one's *)
MutantHandleResponse(response) ==
  /\ ~crashed /\ RequestsLeft
  /\ answering.pc = "calling" /\ answering.delegate
  /\ LET r       == answering.r
         current == TRUE
         after   == IF current THEN AfterResponse(discovery, stun, response)
                               ELSE [d |-> discovery, s |-> stun]
         taken   == ~current \/ Accepts(response)
     IN  /\ Apply(after) /\ stun' = after.s
         /\ answering' = IF taken THEN [pc |-> "accepted", r |-> r] ELSE Idle
         /\ told' = IF taken THEN [told EXCEPT ![r] = @ \cup {"answered"}] ELSE told
  /\ UNCHANGED <<expiring, wire, crashed>>

(* handleSTUNRequesterResponse; a request that is not the current one is    *)
(* accepted so as to be done with.                                          *)
HandleResponse(response) ==
  /\ ~crashed /\ RequestsLeft
  /\ answering.pc = "calling" /\ answering.delegate
  /\ LET r       == answering.r
         current == r = discovery.request
         after   == IF current THEN AfterResponse(discovery, stun, response)
                               ELSE [d |-> discovery, s |-> stun]
         taken   == ~current \/ Accepts(response)
     IN  /\ Apply(after) /\ stun' = after.s
         /\ answering' = IF taken THEN [pc |-> "accepted", r |-> r] ELSE Idle
         /\ told' = IF taken THEN [told EXCEPT ![r] = @ \cup {"answered"}] ELSE told
  /\ UNCHANGED <<expiring, wire, crashed>>

(* the mutant of OnRequestTimedOut: no step() *)
MutantOnRequestTimedOut(r) ==
  /\ ~crashed /\ AnswersFree /\ TimersFree /\ RequestsLeft
  /\ r \in stun.timeoutPosted
  /\ LET heard == [stun EXCEPT !.timeoutPosted = @ \ {r}]
         after == IF r = discovery.request
                  THEN [d |-> [discovery EXCEPT !.server = None, !.request = None], s |-> heard]
                  ELSE [d |-> discovery, s |-> heard]
     IN  Apply(after) /\ stun' = after.s
  /\ UNCHANGED <<answering, expiring, wire, told, crashed>>

(* onSTUNRequesterTimedOut: the next server is asked.                       *)
OnRequestTimedOut(r) ==
  /\ ~crashed /\ AnswersFree /\ TimersFree /\ RequestsLeft
  /\ r \in stun.timeoutPosted
  /\ LET heard == [stun EXCEPT !.timeoutPosted = @ \ {r}]
         after == IF r = discovery.request
                  THEN StepDiscovery([discovery EXCEPT !.server = None, !.request = None], heard)
                  ELSE [d |-> discovery, s |-> heard]
     IN  Apply(after) /\ stun' = after.s
  /\ UNCHANGED <<answering, expiring, wire, told, crashed>>

(* cancel(), from any thread *)
CancelDiscovery ==
  /\ ~crashed /\ discovery.delegate
  /\ discovery' = [Cancelled(discovery) EXCEPT !.state = "cancelled"]
  /\ stun' = IF discovery.request = None THEN stun ELSE InternalCancel(stun, discovery.request)
  /\ UNCHANGED <<answering, expiring, wire, told, crashed, asked>>

DiscoveryInit ==
  /\ RequesterInit
  /\ discovery = [state |-> "none", delegate |-> FALSE, query |-> FALSE, srv |-> << >>,
                  server |-> None, request |-> None, contacted |-> {},
                  mapped |-> FALSE]
  /\ asked = [r \in Requesters |-> None]

Requesting ==
  /\ \/ Handling
     \/ \E r \in Requesters : OnTimer(r) \/ OnMaxTimer(r) \/ FindRequester(r)
  /\ UNCHANGED <<discovery, asked>>

PostedCall ==
  \/ OnLookupCompleted
  \/ \E r \in Requesters : SendRequest(r) \/ OnRequestTimedOut(r)

Answered == \E response \in Responses : HandleResponse(response)

DiscoveryNext == CreateDiscovery \/ CancelDiscovery \/ Requesting \/ PostedCall \/ Answered

DiscoverySpec == DiscoveryInit /\ [][DiscoveryNext]_discoveryVars

(* The handlers go on, and what is due is not put off for ever by the rest. *)
Due ==
  \/ OnLookupCompleted
  \/ \E r \in Requesters :
       \/ OnMaxTimer(r) /\ UNCHANGED <<discovery, asked>>
       \/ OnRequestTimedOut(r)

DiscoveryFairness ==
  /\ WF_discoveryVars(Answered \/ (Handling /\ UNCHANGED <<discovery, asked>>))
  /\ SF_discoveryVars(Due)

-----------------------------------------------------------------------------

DiscoveryTypeOK ==
  /\ RequesterTypeOK
  /\ discovery.server \in Servers \cup {None}
  /\ discovery.request \in Requesters \cup {None}
  /\ discovery.contacted \subseteq Servers
  /\ discovery.state \in {"none", "created", "completed", "cancelled"}

(* No server is asked twice, however the lookup and the answers TryAlternate *)
(* name each other's servers: two servers that do would keep a client busy  *)
(* for ever.                                                                *)
NoServerAskedTwice ==
  \A r, q \in Requesters : asked[r] # None /\ asked[r] = asked[q] => r = q

(* The delegate is told once, and not after cancel() returned, although     *)
(* answers already on their way to the requester still come.                *)
Outcome == INSTANCE OneOutcome WITH
  outcome <- IF discovery.state = "created" THEN "pending" ELSE discovery.state

OneOutcomeOnly == Outcome!Spec

(* Every discovery comes to an end. *)
DiscoveryEnds ==
  (discovery.state = "created") ~> (~discovery.delegate \/ crashed)
=============================================================================
