--------------------------- MODULE MessageDelivery ---------------------------
(* Messages of a conversation between the ends of a thread: the end that    *)
(* hosts it and its guests (openpeer/core/cpp: core_ConversationThread.cpp, *)
(* core_ConversationThreadHost.cpp with PeerContact and PeerLocation,       *)
(* core_ConversationThreadSlave.cpp, and the messages and receipts of the   *)
(* documents of core_IConversationThreadParser.cpp).                        *)
(*                                                                          *)
(* Nothing is sent: the host publishes a document with every message of the *)
(* thread, each guest one with its own, and a receipt in a document names   *)
(* the last message that its publisher has taken from the other, which      *)
(* stands for those before it.  An end looks for a contact that has not     *)
(* acknowledged a message, and gives the message to the application to be   *)
(* pushed when the contact cannot be found or stays silent.                 *)
EXTENDS Naturals, Sequences, FiniteSets, SequencesExt, Functions

CONSTANTS
  Locations,      (* the locations that take part, each of another contact  *)
  Host,           (* the one whose application starts the conversation      *)
  Senders,        (* those whose applications send messages                 *)
  MaxMessages,    (* bound: messages that each of them sends                *)
  MaxBreaks,      (* bound: connections lost                                *)
  MayRestart      (* whether the host may be started anew, once             *)

ASSUME DeliveryAssumption == Host \in Locations /\ MaxMessages \in Nat

VARIABLES
  doc,            (* the documents: of thread t, by end e                   *)
  side,           (* what end e keeps about end x in thread t               *)
  told,           (* per end: mMessageDeliveryStates of ConversationThread  *)
  got,            (* per end: mReceivedOrPushedMessages, those received     *)
  reached,        (* history: who was ever given which message              *)
  up,             (* the pairs of ends that are connected                   *)
  looking,        (* who looks for whom                                     *)
  sent,           (* per end: the messages sent so far                      *)
  breaks,         (* bounded: connections lost so far                       *)
  restarted       (* whether the host was started anew                      *)

deliveryVars == <<doc, side, told, got, reached, up, looking, sent, breaks, restarted>>

Messages == Senders \X (1 .. MaxMessages)

(* A thread is named after its host; only the thread of Host is open.       *)
Threads == IF MayRestart THEN Locations ELSE {Host}

(* End e about end x in thread t: of the host, a PeerContact with its       *)
(* PeerLocation; of a guest, the ConversationThreadSlave.                   *)
Sides == {s \in Threads \X Locations \X Locations : s[2] # s[3] /\ s[1] \in {s[2], s[3]}}
Documents == Threads \X Locations

Thread(s) == s[1]
Self(s) == s[2]
Other(s) == s[3]
Hosting(s) == Self(s) = Thread(s)
Own(s) == <<Thread(s), Self(s)>>
Theirs(s) == <<Thread(s), Other(s)>>
Pair(s) == {Self(s), Other(s)}

Unpublished == [published |-> FALSE, messages |-> << >>, receipts |-> {}]

NewSide ==
  [seen |-> Unpublished,        (* mSlaveThread of the host, mHostThread of a guest *)
   acked |-> {},                (* PeerLocation::mMessageDeliveryStates *)
   state |-> [m \in Messages |-> "None"],
   subscribed |-> FALSE, timer |-> FALSE,
   wake |-> "No",               (* "Step", or "Located": a location changed *)
   pushed |-> << >>, converted |-> FALSE]

DeliveryInit ==
  /\ doc = [d \in Documents |-> Unpublished]
  /\ side = [s \in Sides |-> NewSide]
  /\ told = [e \in Locations |-> [m \in Messages |-> "None"]]
  /\ got = [e \in Locations |-> {}]
  /\ reached = {}
  /\ up \in SUBSET {{e, x} : e, x \in Locations} /\ \A p \in up : Cardinality(p) = 2
  /\ looking = {}
  /\ sent = [e \in Senders |-> 0]
  /\ breaks = 0
  /\ restarted = FALSE

-----------------------------------------------------------------------------
(* Documents *)

(* What of a sequence is in S, in its order                                 *)
Only(s, S) ==
  LET only[n \in 0 .. Len(s)] ==
        IF n = 0 THEN << >>
        ELSE IF s[n] \in S THEN Append(only[n - 1], s[n]) ELSE only[n - 1]
  IN  only[Len(s)]

(* A mutation of Adding: what is in the document already is added again.    *)
MutantAdding(messages, more) == messages \o more

(* addMessages: those that are in the document already are left out. *)
Adding(messages, more) ==
  messages \o Only(more, ToSet(more) \ ToSet(messages))

(* messagedChanged: what a document has that was not seen in it before *)
Changed(seen, d) == Only(d.messages, ToSet(d.messages) \ ToSet(seen.messages))

(* A receipt that is new for this end, of a message in its document *)
NewReceipts(messages, acknowledged, receipts) ==
  (receipts \cap ToSet(messages)) \ acknowledged

(* From the message of a receipt back to the first that was acknowledged    *)
(* before                                                                   *)
CoveredBy(messages, acknowledged, receipts) ==
  {messages[i] : i \in
    {i \in DOMAIN messages :
      \E k \in i .. Len(messages) :
        /\ messages[k] \in receipts
        /\ \A j \in i .. k : messages[j] \notin acknowledged}}

-----------------------------------------------------------------------------
(* What is told to the application: a state only ever rises *)

Rank(state) ==
  CASE state = "None" -> 0 [] state = "Discovering" -> 1
    [] state = "UserNotAvailable" -> 2 [] state = "Delivered" -> 3

Raised(states, messages, state) ==
  [m \in Messages |->
    IF m \in messages /\ Rank(state) > Rank(states[m]) THEN state ELSE states[m]]

(* notifyMessageDeliveryStateChanged is called for every message that a     *)
(* receipt covers, each time with the ID of the receipt.                    *)
ToldOf(receipts, covered) == receipts

-----------------------------------------------------------------------------
(* step(): look for the other end, wait for it, or give up *)

(* The last message decides whether the other end must be looked for, and   *)
(* whether it is waited for.                                                *)
Undelivered(messages, state) ==
  messages # << >> /\ state[Last(messages)] # "Delivered"

(* A mutation of Waits: a message that was looked at once needs no timer.   *)
MutantWaits(messages, state) ==
  messages # << >> /\ state[Last(messages)] = "None"

Waits(messages, state) ==
  Undelivered(messages, state) /\ state[Last(messages)] # "UserNotAvailable"

Resolved(state) == state \in {"Delivered", "UserNotAvailable"}

(* A mutation of Outstanding: messages that a later receipt covers are      *)
(* taken for undelivered, as their own state says.                          *)
MutantOutstanding(messages, state) ==
  {i \in DOMAIN messages : ~Resolved(state[messages[i]])}

(* From the back of the list to the first message that is settled *)
Outstanding(messages, state) ==
  {i \in DOMAIN messages : \A k \in i .. Len(messages) : ~Resolved(state[messages[k]])}

(* Those given up: nobody to be found, or silent for 30 seconds, as the     *)
(* first "late" messages of the list are by now.                            *)
GivenUp(messages, state, hopeless, late) ==
  {i \in Outstanding(messages, state) :
    hopeless \/ (i <= late /\ state[messages[i]] = "Discovering")}

Hopeless(s) == Pair(s) \notin up /\ <<Self(s), Other(s)>> \notin looking

(* The side after a step, given its document's messages *)
Stepped(s, sd, messages, late) ==
  LET subscribes == Undelivered(messages, sd.state)
      given == IF subscribes THEN GivenUp(messages, sd.state, Hopeless(s), late) ELSE {}
      visited == IF subscribes THEN Outstanding(messages, sd.state) ELSE {}
      gone == {messages[i] : i \in given}
      seenNow == {messages[i] : i \in visited}
  IN  [sd EXCEPT
        !.subscribed = subscribes,
        !.timer = Waits(messages, sd.state),
        !.wake = IF subscribes /\ ~sd.subscribed
                   THEN IF Pair(s) \in up THEN "Located" ELSE "Step"
                   ELSE "No",
        !.state = [m \in Messages |->
                    IF m \in gone THEN "UserNotAvailable"
                    ELSE IF m \in seenNow THEN "Discovering" ELSE @[m]],
        !.pushed = @ \o Reverse(Only(messages, gone))]

GoneNow(sd, stepped) ==
  ToSet(SubSeq(stepped.pushed, Len(sd.pushed) + 1, Len(stepped.pushed)))

Nudged(sd) == [sd EXCEPT !.wake = IF @ = "No" THEN "Step" ELSE @]

-----------------------------------------------------------------------------
(* ConversationThreadHost *)

Contacts(t) == {s \in Sides : Thread(s) = t /\ Hosting(s)}

(* The receipts that the host publishes: of the last message of each guest. *)
Gathered(t, sides) ==
  {Last(sides[s].seen.messages) : s \in {s \in Contacts(t) : sides[s].seen.messages # << >>}}

(* step() of the host, given its document and what it keeps *)
HostStepped(t, d, sides) ==
  LET receipts == Gathered(t, sides)
  IN  /\ doc' = [doc EXCEPT ![<<t, t>>] =
                  [d EXCEPT !.receipts = IF receipts = {} THEN @ ELSE receipts]]
      /\ side' = [s \in Sides |-> IF s \in Contacts(t) THEN Nudged(sides[s]) ELSE sides[s]]

(* The application of e sends its next message. *)
NextMessage(e) == <<e, sent[e] + 1>>

Sends(e) ==
  /\ e \in Senders /\ sent[e] < MaxMessages
  /\ sent' = [sent EXCEPT ![e] = @ + 1]
  /\ told' = [told EXCEPT ![e][NextMessage(e)] = "Discovering"]
  /\ UNCHANGED <<got, reached, up, looking, breaks, restarted>>

(* sendMessage at the host, which makes the thread when it has none *)
HostSends ==
  /\ ~restarted
  /\ Sends(Host)
  /\ LET d == doc[<<Host, Host>>]
     IN  HostStepped(Host,
           [d EXCEPT !.published = TRUE, !.messages = Adding(@, <<NextMessage(Host)>>)], side)

(* A fetch of a guest's document is complete: its messages are given to the *)
(* application and put in the host's document, for the other guests; its    *)
(* receipt acknowledges messages of the host's document.                    *)
OnSlavePublicationUpdated(s) ==
  LET t == Thread(s)
      theirs == doc[Theirs(s)]
      new == Changed(side[s].seen, theirs)
      d == [doc[Own(s)] EXCEPT !.messages = Adding(@, new)]
      receipts == NewReceipts(d.messages, side[s].acked, theirs.receipts)
      covered == CoveredBy(d.messages, side[s].acked, receipts)
      tell == {m \in ToldOf(receipts, covered) : side[s].state[m] # "Delivered"}
      sd == [side[s] EXCEPT !.seen = theirs, !.acked = @ \cup covered,
                            !.state = Raised(@, tell, "Delivered")]
  IN  /\ Hosting(s) /\ Pair(s) \in up
      /\ doc[Own(s)].published /\ theirs.published /\ theirs # side[s].seen
      /\ got' = [got EXCEPT ![t] = @ \cup ToSet(new)]
      /\ reached' = reached \cup {<<t, m>> : m \in ToSet(new)}
      /\ told' = [told EXCEPT ![t] = Raised(@, tell, "Delivered")]
      /\ HostStepped(t, d, [side EXCEPT ![s] = sd])
      /\ UNCHANGED <<up, looking, sent, breaks, restarted>>

(* PeerContact::step, on a wake, a timer or an event of the subscription *)
ContactSteps(s, late) ==
  LET after == Stepped(s, side[s], doc[Own(s)].messages, late)
  IN  /\ Hosting(s) /\ doc[Own(s)].published
      /\ side' = [side EXCEPT ![s] = after]
      /\ told' = [told EXCEPT ![Self(s)] =
                   Raised(@, GoneNow(side[s], after), "UserNotAvailable")]
      /\ UNCHANGED <<doc, got, reached, up, looking, sent, breaks, restarted>>

-----------------------------------------------------------------------------
(* ConversationThreadSlave *)

(* A mutation of Unknown: only the last of the new messages is given to the *)
(* application.                                                             *)
MutantUnknown(new, own) ==
  IF new = << >> THEN {} ELSE {Last(new)} \ ToSet(own.messages)

(* The new messages of the host's document that are not this guest's *)
Unknown(new, own) == ToSet(new) \ ToSet(own.messages)

(* sendMessage at a guest, in the thread of the host as long as it is open *)
GuestSends(s) ==
  /\ Thread(s) = Host /\ ~Hosting(s)
  /\ side[s].seen.published /\ ~side[s].converted
  /\ Sends(Self(s))
  /\ doc' = [doc EXCEPT ![Own(s)].messages = Adding(@, <<NextMessage(Self(s))>>)]
  /\ side' = [side EXCEPT ![s] = Nudged(@)]

(* A fetch of the host's document is complete; step() comes at its end. *)
OnHostPublicationUpdated(s, late) ==
  LET e == Self(s)
      theirs == doc[Theirs(s)]
      own == doc[Own(s)]
      new == Changed(side[s].seen, theirs)
      known == {m \in Messages : side[s].state[m] = "Delivered"}
      receipts == NewReceipts(own.messages, known, theirs.receipts)
      covered == CoveredBy(own.messages, known, receipts)
      sd == [side[s] EXCEPT !.seen = theirs, !.state = Raised(@, covered, "Delivered")]
      after == Stepped(s, sd, own.messages, late)
  IN  /\ ~Hosting(s) /\ Pair(s) \in up
      /\ theirs.published /\ theirs # side[s].seen
      /\ got' = [got EXCEPT ![e] = @ \cup Unknown(new, own)]
      /\ reached' = reached \cup {<<e, m>> : m \in Unknown(new, own)}
      /\ doc' = [doc EXCEPT ![Own(s)] =
                  [own EXCEPT !.published = TRUE,
                              !.receipts = IF new = << >> THEN @ ELSE {Last(new)}]]
      /\ side' = [side EXCEPT ![s] = [after EXCEPT !.wake =
                    IF @ = "No" THEN side[s].wake ELSE @]]
      /\ told' = [told EXCEPT ![e] =
                   Raised(Raised(@, ToldOf(receipts, covered), "Delivered"),
                          GoneNow(sd, after), "UserNotAvailable")]
      /\ UNCHANGED <<up, looking, sent, breaks, restarted>>

(* The host is there, but not where its thread was: it was started anew.    *)
(* Every message of the thread goes into a closed thread of this end's own, *)
(* unless the last one of its own was delivered.                            *)
Converts(s) ==
  /\ ~Hosting(s) /\ side[s].wake = "Located" /\ Pair(s) \in up
  /\ restarted /\ Thread(s) = Host
  /\ doc[Own(s)].published /\ ~side[s].converted
  /\ Undelivered(doc[Own(s)].messages, side[s].state)

ClosedHost(s) ==
  [published |-> TRUE, receipts |-> {},
   messages |-> Adding(side[s].seen.messages, doc[Own(s)].messages)]

(* step, after the check for a host that was started anew *)
GuestSteps(s, late) ==
  LET e == Self(s)
      sd == [side[s] EXCEPT !.converted = @ \/ Converts(s)]
      after == Stepped(s, sd, doc[Own(s)].messages, late)
      sides == [side EXCEPT ![s] = after]
  IN  /\ ~Hosting(s) /\ doc[Own(s)].published
      /\ IF Converts(s)
           THEN HostStepped(e, ClosedHost(s), sides)
           ELSE doc' = doc /\ side' = sides
      /\ told' = [told EXCEPT ![e] = Raised(@, GoneNow(sd, after), "UserNotAvailable")]
      /\ UNCHANGED <<got, reached, up, looking, sent, breaks, restarted>>

-----------------------------------------------------------------------------
(* Steps *)

Exists(s) == doc[Own(s)].published

(* late: 30 seconds are over for that many of the messages. *)
Steps(s, late) == IF Hosting(s) THEN ContactSteps(s, late) ELSE GuestSteps(s, late)

(* onWake, and what the subscription tells *)
OnWake(s) ==
  /\ side[s].wake # "No" /\ Exists(s)
  /\ \E late \in 0 .. Len(doc[Own(s)].messages) : Steps(s, late)

(* onTimer, once a second *)
OnTimer(s) ==
  /\ side[s].timer /\ Exists(s)
  /\ \E late \in 0 .. Len(doc[Own(s)].messages) : Steps(s, late)

(* onTimer when the 30 seconds are over for all that wait *)
OnTimerLate(s) ==
  side[s].timer /\ Exists(s) /\ Steps(s, Len(doc[Own(s)].messages))

-----------------------------------------------------------------------------
(* External: the account, which looks for peers and connects to them        *)

(* Events of a subscription, for those of a set of sides that have one *)
Telling(sides, told_, wake) ==
  [s \in Sides |->
    IF s \in told_ /\ sides[s].subscribed
      THEN IF wake = "Located" THEN [sides[s] EXCEPT !.wake = "Located"] ELSE Nudged(sides[s])
      ELSE sides[s]]

About(e, x) == {s \in Sides : Self(s) = e /\ Other(s) = x}

Find(e, x) ==
  /\ e # x /\ {e, x} \notin up /\ <<e, x>> \notin looking
  /\ \E s \in About(e, x) : side[s].subscribed
  /\ looking' = looking \cup {<<e, x>>}
  /\ side' = Telling(side, About(e, x), "Step")
  /\ UNCHANGED <<doc, told, got, reached, up, sent, breaks, restarted>>

FindEnds(e, x) ==
  /\ <<e, x>> \in looking
  /\ looking' = looking \ {<<e, x>>}
  /\ side' = Telling(side, About(e, x), "Step")
  /\ UNCHANGED <<doc, told, got, reached, up, sent, breaks, restarted>>

Connect(e, x) ==
  /\ <<e, x>> \in looking
  /\ up' = up \cup {{e, x}}
  /\ looking' = looking \ {<<e, x>>, <<x, e>>}
  /\ side' = Telling(side, About(e, x) \cup About(x, e), "Located")
  /\ UNCHANGED <<doc, told, got, reached, sent, breaks, restarted>>

(* notifyPeerDisconnected: the host drops the location of the guest.        *)
Dropped(sides, lost) ==
  [s \in Sides |->
    IF s \in lost /\ Hosting(s)
      THEN IF sides[s].seen.published
             THEN Nudged([sides[s] EXCEPT !.seen = Unpublished, !.acked = {}])
             ELSE sides[s]
      ELSE sides[s]]

Disconnect(e, x) ==
  /\ {e, x} \in up /\ breaks < MaxBreaks
  /\ breaks' = breaks + 1
  /\ up' = up \ {{e, x}}
  /\ LET lost == About(e, x) \cup About(x, e)
     IN  side' = Telling(Dropped(side, lost), lost, "Step")
  /\ UNCHANGED <<doc, told, got, reached, looking, sent, restarted>>

(* The application of the host is started anew: it knows of nothing.        *)
Restart ==
  /\ MayRestart /\ ~restarted /\ doc[<<Host, Host>>].published
  /\ restarted' = TRUE
  /\ doc' = [d \in Documents |-> IF d[2] = Host THEN Unpublished ELSE doc[d]]
  /\ up' = {p \in up : Host \notin p}
  /\ looking' = {l \in looking : l[1] # Host}
  /\ LET lost == {s \in Sides : Other(s) = Host /\ Pair(s) \in up}
         sides == Telling(Dropped(side, lost), lost, "Step")
     IN  side' = [s \in Sides |-> IF Self(s) = Host THEN NewSide ELSE sides[s]]
  /\ told' = [told EXCEPT ![Host] = [m \in Messages |-> "None"]]
  /\ got' = [got EXCEPT ![Host] = {}]
  /\ UNCHANGED <<reached, sent, breaks>>

DeliveryNext ==
  \/ HostSends
  \/ \E s \in Sides : GuestSends(s)
  \/ \E s \in Sides : OnSlavePublicationUpdated(s)
  \/ \E s \in Sides : \E late \in 0 .. Len(doc[Own(s)].messages) :
       OnHostPublicationUpdated(s, late)
  \/ \E s \in Sides : OnWake(s)
  \/ \E s \in Sides : OnTimer(s)
  \/ \E e, x \in Locations : Find(e, x)
  \/ \E e, x \in Locations : FindEnds(e, x)
  \/ \E e, x \in Locations : Connect(e, x)
  \/ \E e, x \in Locations : Disconnect(e, x)
  \/ Restart

DeliveryFairness == \A s \in Sides : WF_deliveryVars(OnWake(s)) /\ WF_deliveryVars(OnTimerLate(s))

DeliverySpec == DeliveryInit /\ [][DeliveryNext]_deliveryVars /\ DeliveryFairness

-----------------------------------------------------------------------------
(* Properties *)

States == {"None", "Discovering", "UserNotAvailable", "Delivered"}

DeliveryTypeOK ==
  /\ \A d \in Documents :
       /\ doc[d].messages \in Seq(Messages) /\ IsInjective(doc[d].messages)
       /\ doc[d].receipts \subseteq Messages
  /\ \A s \in Sides :
       /\ side[s].acked \subseteq Messages
       /\ side[s].state \in [Messages -> States]
       /\ side[s].wake \in {"No", "Step", "Located"}
       /\ side[s].subscribed \in BOOLEAN /\ side[s].timer \in BOOLEAN
  /\ told \in [Locations -> [Messages -> States]]
  /\ \A e \in Locations : got[e] \subseteq Messages

(* What the last document read acknowledged, and all that comes before it   *)
Covered(s) ==
  {m \in Messages :
    \E i, k \in DOMAIN doc[Own(s)].messages :
      i <= k /\ doc[Own(s)].messages[i] = m
             /\ side[s].state[doc[Own(s)].messages[k]] = "Delivered"}

(* What counts as delivered to the other end was given to its application,  *)
(* or comes from it: a receipt stands for all the messages before it.       *)
DeliveredIsReceived ==
  \A s \in Sides : \A m \in Covered(s) \cup side[s].acked :
    m[1] = Other(s) \/ <<Other(s), m>> \in reached

(* What a step gives to the application to be pushed                        *)
PushedNow(s) ==
  ToSet(SubSeq(side'[s].pushed, Len(side[s].pushed) + 1, Len(side'[s].pushed)))

(* In another thread with the same contact, some of it was pushed before or *)
(* is acknowledged.                                                         *)
MetElsewhere(s, messages) ==
  \E r \in About(Self(s), Other(s)) \ {s} :
    messages \cap (ToSet(side[r].pushed) \cup Covered(r)) # {}

PushesOutstanding(s) ==
  /\ IsInjective(side'[s].pushed)
  /\ PushedNow(s) \cap Covered(s) = {}
  /\ MetElsewhere(s, PushedNow(s)) =>
       \E g \in About(Self(s), Other(s)) : side[g].converted

(* In a thread, a message is given up once for each contact, and never when *)
(* the contact acknowledged it there, or one that comes after it.  Nor is   *)
(* it given up when another thread gave it up for the same contact or has   *)
(* it acknowledged, but at a guest that has moved its messages to a closed  *)
(* thread of its own: its slave goes on in the thread of the host, and      *)
(* notifyMessagePush does not look at what was pushed before.               *)
PushesOnlyOutstanding ==
  [][\A s \in Sides :
      Len(side'[s].pushed) > Len(side[s].pushed) => PushesOutstanding(s)]_deliveryVars

(* Every message of a document is acknowledged by the other end or given to *)
(* the application to push, even if connections are lost and the host is    *)
(* started anew.                                                            *)
EverythingSettles ==
  <>[](\A s \in Sides :
        LET messages == doc[Own(s)].messages
        IN  Exists(s) => ToSet(messages) \subseteq
              Covered(s) \cup {m \in Messages : side[s].state[m] = "UserNotAvailable"})

(* "this message is now considered acknowledged so tell the master thread   *)
(* of the new state" (ConversationThreadHost::PeerLocation, and the Slave): *)
(* what an end holds for acknowledged is Delivered for the application.     *)
AcknowledgedIsTold ==
  \A s \in Sides : \A m \in side[s].acked \cup Covered(s) :
    told[Self(s)][m] = "Delivered"
=============================================================================
