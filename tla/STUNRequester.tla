---------------------------- MODULE STUNRequester ----------------------------
(* STUN requests and the manager that hands answers to them                 *)
(* (openpeer/services/cpp: services_STUNRequester.cpp and                   *)
(* services_STUNRequesterManager.cpp).                                      *)
(*                                                                          *)
(* A requester sends its packet, again whenever its timer fires, and is     *)
(* given up when a second timer does.  Its queue runs the timers and the    *)
(* owner's callbacks; the answer is handled on the thread that read the     *)
(* socket, which is the same queue when SharedQueue; cancel() and           *)
(* retryRequestNow() come from any thread.                                  *)
(*                                                                          *)
(* Identifiers are those of requests: each has a transaction of its own, so *)
(* the key of the manager's map is the requester.                           *)
EXTENDS Naturals, FiniteSets

CONSTANTS
  Requesters,     (* requests that are made                                 *)
  MaxTries,       (* MAX_RETRANSMIT_STUN_ATTEMPTS                           *)
  MaxRestarts,    (* bound: calls of retryRequestNow per request            *)
  SharedQueue     (* answers and timers come on one queue                   *)

VARIABLES
  stun,           (* the requesters, the manager's map, what is posted      *)
  answering,      (* the call of handleSTUNPacket under way                 *)
  expiring,       (* the requester in the second half of onTimer, or "none" *)
  wire,           (* requests that reached their server                     *)
  told,           (* history: what each owner was told                      *)
  crashed         (* a reset delegate was called: the process is gone       *)

requesterVars == <<stun, answering, expiring, wire, told, crashed>>

Requester ==
  [created : BOOLEAN, delegate : BOOLEAN, try : 0..MaxTries,
   timer : BOOLEAN, maxTimer : BOOLEAN, sends : 0..MaxTries, restarts : 0..MaxRestarts]

NotCreated ==
  [created |-> FALSE, delegate |-> FALSE, try |-> 0,
   timer |-> FALSE, maxTimer |-> FALSE, sends |-> 0, restarts |-> 0]

Idle == [pc |-> "idle"]

-----------------------------------------------------------------------------
(* What the methods make of one requester ...                               *)

(* the timers that step() sets, and the send when none was running *)
Timed(q) ==
  [q EXCEPT !.maxTimer = TRUE, !.timer = TRUE, !.sends = IF q.timer THEN @ ELSE @ + 1]

Ended(q) == [q EXCEPT !.delegate = FALSE, !.timer = FALSE, !.maxTimer = FALSE]

Restarted(q) ==
  [q EXCEPT !.try = 0, !.timer = FALSE, !.maxTimer = FALSE, !.sends = 0, !.restarts = @ + 1]

Tried(q) == [q EXCEPT !.timer = FALSE, !.try = @ + 1]

(* ... and of the manager's map and what is posted to the owner as well.    *)

(* step(): without a retransmission timer the packet is sent and one set.   *)
Step(s, r) ==
  IF ~s.requester[r].delegate THEN s
  ELSE [s EXCEPT !.requester[r] = Timed(@),
                 !.sendPosted = IF s.requester[r].timer THEN @ ELSE @ \cup {r}]

(* create(): monitorStart, then the first step *)
Create(s, r) ==
  Step([s EXCEPT !.requester[r] = [NotCreated EXCEPT !.created = TRUE, !.delegate = TRUE],
                 !.registered = @ \cup {r}], r)

(* the mutant of InternalCancel: the map keeps the requester *)
MutantInternalCancel(s, r) == [s EXCEPT !.requester[r] = Ended(@)]

(* internalCancel(): the manager forgets the requester when its delegate    *)
(* goes.                                                                    *)
InternalCancel(s, r) ==
  [s EXCEPT !.requester[r] = Ended(@),
            !.registered = IF s.requester[r].delegate THEN @ \ {r} ELSE @]

(* the mutant of RetryNow: the timers are cancelled and nothing set instead *)
MutantRetryNow(s, r) == [s EXCEPT !.requester[r] = Restarted(@)]

(* retryRequestNow(): from the first try, with both timers started anew *)
RetryNow(s, r) == Step([s EXCEPT !.requester[r] = Restarted(@)], r)

(* the mutant of Retransmit: one try more than meant *)
MutantRetransmit(s, r) ==
  LET counted == [s EXCEPT !.requester[r] = Tried(@)]
  IN  IF counted.requester[r].try > MaxTries THEN counted ELSE Step(counted, r)

(* onTimer with the retransmission timer: after the last try no timer is    *)
(* set, and only mMaxTimeTimer is left to end the request.                  *)
Retransmit(s, r) ==
  LET counted == [s EXCEPT !.requester[r] = Tried(@)]
  IN  IF counted.requester[r].try >= MaxTries THEN counted ELSE Step(counted, r)

-----------------------------------------------------------------------------
(* The queue and the socket                                                 *)

AnswersFree == SharedQueue => answering.pc = "idle"
TimersFree  == SharedQueue => expiring = "none"

(* The owner's onSTUNRequesterSendPacket puts the packet on the wire.       *)
SendPacket(r) ==
  /\ ~crashed /\ AnswersFree /\ TimersFree
  /\ r \in stun.sendPosted
  /\ stun' = [stun EXCEPT !.sendPosted = @ \ {r}]
  /\ wire' = wire \cup {r}
  /\ UNCHANGED <<answering, expiring, told, crashed>>

OnTimer(r) ==
  /\ ~crashed /\ AnswersFree /\ TimersFree
  /\ stun.requester[r].timer
  /\ stun' = Retransmit(stun, r)
  /\ UNCHANGED <<answering, expiring, wire, told, crashed>>

(* onTimer with mMaxTimeTimer leaves its first locked section here ...      *)
OnMaxTimer(r) ==
  /\ ~crashed /\ AnswersFree
  /\ expiring = "none"
  /\ stun.requester[r].maxTimer
  /\ expiring' = r
  /\ UNCHANGED <<stun, answering, wire, told, crashed>>

(* ... tells the owner, if it is still there, in a second one, and cancels  *)
(* the request in a third.                                                  *)
TellTimedOut ==
  /\ ~crashed
  /\ expiring \in Requesters /\ expiring \notin stun.givingUp
  /\ stun' = [stun EXCEPT !.givingUp = {expiring},
                          !.timeoutPosted = IF stun.requester[expiring].delegate
                                            THEN @ \cup {expiring} ELSE @]
  /\ told' = IF stun.requester[expiring].delegate
             THEN [told EXCEPT ![expiring] = @ \cup {"timed out"}] ELSE told
  /\ UNCHANGED <<answering, expiring, wire, crashed>>

GiveUp ==
  /\ ~crashed
  /\ expiring \in stun.givingUp
  /\ stun' = [InternalCancel(stun, expiring) EXCEPT !.givingUp = {}]
  /\ expiring' = "none"
  /\ UNCHANGED <<answering, wire, told, crashed>>

(* STUNRequesterManager::handleSTUNPacket: the requester is looked up under *)
(* the manager's lock ...                                                   *)
FindRequester(r) ==
  /\ ~crashed /\ TimersFree
  /\ answering.pc = "idle"
  /\ r \in wire /\ r \in stun.registered
  /\ answering' = [pc |-> "found", r |-> r]
  /\ UNCHANGED <<stun, expiring, wire, told, crashed>>

(* ... and called without it.  The packet may turn out not to be a valid    *)
(* response; else the delegate is copied, whether it is there or not.       *)
CheckResponse(valid) ==
  /\ ~crashed
  /\ answering.pc = "found"
  /\ answering' = IF valid
                  THEN [pc |-> "calling", r |-> answering.r,
                        delegate |-> stun.requester[answering.r].delegate]
                  ELSE Idle
  /\ UNCHANGED <<stun, expiring, wire, told, crashed>>

(* A delegate that was reset in between is called all the same.             *)
CallNobody ==
  /\ ~crashed
  /\ answering.pc = "calling" /\ ~answering.delegate
  /\ crashed' = TRUE
  /\ UNCHANGED <<stun, answering, expiring, wire, told>>

(* The owner is asked with no lock held, and may refuse the response.       *)
CallDelegate(accepts) ==
  /\ ~crashed
  /\ answering.pc = "calling" /\ answering.delegate
  /\ answering' = IF accepts THEN [pc |-> "accepted", r |-> answering.r] ELSE Idle
  /\ told' = IF accepts THEN [told EXCEPT ![answering.r] = @ \cup {"answered"}] ELSE told
  /\ UNCHANGED <<stun, expiring, wire, crashed>>

(* the mutant of FinishAnswer: the answered request is not cancelled *)
MutantFinishAnswer ==
  /\ ~crashed
  /\ answering.pc = "accepted"
  /\ answering' = Idle
  /\ UNCHANGED <<stun, expiring, wire, told, crashed>>

(* What is left of the two handlers: the request is over.  The manager's    *)
(* own erase finds nothing any more.                                        *)
FinishAnswer ==
  /\ ~crashed
  /\ answering.pc = "accepted"
  /\ stun' = InternalCancel(stun, answering.r)
  /\ answering' = Idle
  /\ UNCHANGED <<expiring, wire, told, crashed>>

-----------------------------------------------------------------------------
(* An owner that may do anything                                            *)

CreateRequest(r) ==
  /\ ~crashed
  /\ ~stun.requester[r].created
  /\ stun' = Create(stun, r)
  /\ UNCHANGED <<answering, expiring, wire, told, crashed>>

CancelRequester(r) ==
  /\ ~crashed
  /\ stun.requester[r].delegate
  /\ stun' = InternalCancel(stun, r)
  /\ UNCHANGED <<answering, expiring, wire, told, crashed>>

RetryRequestNow(r) ==
  /\ ~crashed
  /\ stun.requester[r].delegate /\ stun.requester[r].restarts < MaxRestarts
  /\ stun' = RetryNow(stun, r)
  /\ UNCHANGED <<answering, expiring, wire, told, crashed>>

(* The owner's onSTUNRequesterTimedOut *)
HearTimedOut(r) ==
  /\ ~crashed /\ AnswersFree /\ TimersFree
  /\ r \in stun.timeoutPosted
  /\ stun' = [stun EXCEPT !.timeoutPosted = @ \ {r}]
  /\ UNCHANGED <<answering, expiring, wire, told, crashed>>

RequesterInit ==
  /\ stun = [requester |-> [r \in Requesters |-> NotCreated], registered |-> {},
             sendPosted |-> {}, timeoutPosted |-> {}, givingUp |-> {}]
  /\ answering = Idle
  /\ expiring = "none"
  /\ wire = {}
  /\ told = [r \in Requesters |-> {}]
  /\ crashed = FALSE

Answering ==
  \/ \E valid \in BOOLEAN : CheckResponse(valid)
  \/ CallNobody \/ FinishAnswer

Expiring == TellTimedOut \/ GiveUp

Handling == Answering \/ Expiring

RequesterNext ==
  \/ Handling
  \/ \E accepts \in BOOLEAN : CallDelegate(accepts)
  \/ \E r \in Requesters :
       \/ SendPacket(r) \/ OnTimer(r) \/ OnMaxTimer(r) \/ FindRequester(r)
       \/ CreateRequest(r) \/ CancelRequester(r) \/ RetryRequestNow(r) \/ HearTimedOut(r)

RequesterSpec == RequesterInit /\ [][RequesterNext]_requesterVars

(* Timers fire, the queue is served, and a handler that began goes on.      *)
RequesterFairness ==
  /\ WF_requesterVars(Answering \/ \E accepts \in BOOLEAN : CallDelegate(accepts))
  /\ WF_requesterVars(Expiring)
  /\ SF_requesterVars(\E r \in Requesters : OnMaxTimer(r))

FairRequesterSpec == RequesterSpec /\ RequesterFairness
-----------------------------------------------------------------------------

RequesterTypeOK ==
  /\ stun \in [requester : [Requesters -> Requester], registered : SUBSET Requesters,
               sendPosted : SUBSET Requesters, timeoutPosted : SUBSET Requesters,
               givingUp : SUBSET Requesters]
  /\ answering = Idle \/ answering.r \in Requesters
  /\ expiring \in Requesters \cup {"none"}
  /\ wire \subseteq Requesters
  /\ told \in [Requesters -> SUBSET {"answered", "timed out"}]
  /\ crashed \in BOOLEAN

(* The manager's map holds the requesters that wait and no other: an entry  *)
(* too many is never removed, one too few makes an answer be dropped.       *)
ManagerKnowsWaiting ==
  stun.registered = {r \in Requesters : stun.requester[r].delegate}

(* An owner whose callbacks run on the queue that reads the socket hears    *)
(* one end of a request, although neither onTimer nor handleSTUNPacket      *)
(* keeps its lock while it tells.                                           *)
ToldOneEnd ==
  SharedQueue => \A r \in Requesters : Cardinality(told[r]) <= 1

(* Every request ends: answered, given up or cancelled.  When the last try  *)
(* was made onTimer sets no further timer and relies on mMaxTimeTimer.      *)
EveryRequestEnds ==
  \A r \in Requesters :
    stun.requester[r].created ~> (~stun.requester[r].delegate \/ crashed)

=============================================================================
