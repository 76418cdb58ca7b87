----------------------------- MODULE CoreProofs -----------------------------
(* The ends of a call agree once everything has settled, for every number  *)
(* of locations that ring and of hangups and connections that fail.  And,  *)
(* for any locations and messages of a conversation: what counts as        *)
(* delivered to an end was given to its application, and what is given up  *)
(* in a thread was outstanding there, and is given up once; and in another *)
(* thread too only by a guest that moved its messages to one of its own.   *)
EXTENDS CallDialogs, MessageDelivery, SequenceTheorems, WellFoundedInduction, TLAPS

-----------------------------------------------------------------------------
(* Types. *)

CallStates == {None, "Preparing", "Placed", "Incoming", "Open", "Closing", "Closed"}
ClosedReasons == {None, "User", "Decline"}

CallRecords ==
  [state : CallStates, reason : ClosedReasons, picked : Ends \cup {None}, dialog : BOOLEAN,
   told : BOOLEAN, answered : BOOLEAN, closedTime : {"never", "running", "past"},
   timer : BOOLEAN]

DialogRecords == [state : CallStates, reason : ClosedReasons, callee : Ends \cup {None}]

LocationRecords == [state : {None, "Pending", "Ready"}, dialog : DialogRecords]

TypeInv ==
  /\ call \in [Ends -> CallRecords]
  /\ published \in [Ends -> DialogRecords]
  /\ DOMAIN location = Ends /\ DOMAIN seen = Ends
  /\ \A e \in Ends : /\ location[e] \in [OtherEnds(e) -> LocationRecords]
                     /\ seen[e] \in [OtherEnds(e) -> DialogRecords]
                     /\ call[e].picked \in OtherEnds(e) \cup {None}
  /\ wake \subseteq Ends /\ handled \subseteq Called

(* What an end publishes is the state of its call: from when the caller     *)
(* places it, and one called has told that it prepares, until the dialog of *)
(* a closed call is removed.                                                *)
PublishedIsTrue(e) ==
  LET c == call[e]
      d == published[e]
  IN  /\ d # NoDialog => d.state = c.state /\ c.state # None
      /\ d = NoDialog => \/ c.state \in {None, "Closed"}
                         \/ c.state = "Preparing" /\ ~c.told /\ e # Caller
      /\ d.state = "Closed" => d.reason = c.reason
      /\ c.state \in {"Placed", "Incoming", "Open", "Closing"} => c.dialog
      /\ e = Caller /\ c.state # None => c.dialog
      /\ e = Caller /\ c.picked # None =>
           d.callee = c.picked /\ c.state \in {"Open", "Closing"}

(* A call that is closed has let go of everything, and one that is not made *)
(* yet has nothing.                                                         *)
NothingHeld(e) ==
  /\ call[e].state \in {None, "Closed"} =>
       call[e].picked = None /\ \A x \in OtherEnds(e) : location[e][x] = NoLocation
  /\ call[e].state = None => published[e] = NoDialog /\ ~call[e].told

(* Nobody knows of a call that was not placed.                              *)
NotPlaced ==
  call[Caller].state = None =>
    \A b \in Called : /\ call[b].state = None
                      /\ seen[Caller][b] = NoDialog /\ seen[b][Caller] = NoDialog

(* An open call has a picked location, or the reason to close it.           *)
PickedOrOver ==
  call[Caller].state = "Open" /\ call[Caller].picked = None => call[Caller].reason # None

CallerStates == {None, "Preparing", "Placed", "Open", "Closing", "Closed"}
CalledStates == {None, "Preparing", "Incoming", "Open", "Closing", "Closed"}

(* An end that is called makes no second call of the dialog of the first,   *)
(* makes a location of the caller as it picks it, and once it has answered  *)
(* stays in the call until that closes, whoever still knows it as open.     *)
HasAnswered(b) == call[b].state \in {"Open", "Closing", "Closed"}

Rings(b) ==
  /\ b \notin handled /\ call[b].state # None =>
       call[Caller].state = "Closed" /\ published[Caller] = NoDialog
  /\ call[b].reason = None /\ call[b].picked = None /\ call[b].state # "Closing" =>
       location[b][Caller] = NoLocation
  /\ call[b].state = "Open" => call[b].answered
  /\ \/ seen[Caller][b].state = "Open" \/ location[Caller][b].dialog.state = "Open"
     \/ call[Caller].picked = b
     => HasAnswered(b)

Ongoing(e) == call[e].state \in {"Preparing", "Placed", "Incoming", "Open"}

(* An end that is called and has nothing to wake up for has found nothing   *)
(* that would close its call in the dialog of the caller that it has.       *)
CalledInStep(b) ==
  b \notin wake /\ Ongoing(b) =>
    /\ seen[b][Caller] # NoDialog
    /\ ~Over(seen[b][Caller])
    /\ seen[b][Caller].callee \in {None, b}

(* Nor has the caller: it has picked a location and that one is in the      *)
(* call, or there is none to pick, none left to remove, and no reason to    *)
(* close.                                                                   *)
CallerInStep ==
  Caller \notin wake /\ Ongoing(Caller) =>
    IF call[Caller].state = "Open"
    THEN /\ call[Caller].picked # None
         /\ seen[Caller][call[Caller].picked] # NoDialog
         /\ ~Over(seen[Caller][call[Caller].picked])
    ELSE /\ \A b \in Called : location[Caller][b] # NoLocation =>
              /\ ~Over(seen[Caller][b])
              /\ ~(location[Caller][b].state = "Ready" /\ seen[Caller][b].state = "Open")
         /\ "Decline" \notin ReasonsElsewhere(Caller)
         /\ OverElsewhere(Caller) # {} /\ (\A b \in Called : location[Caller][b] = NoLocation) =>
              call[Caller].timer

(* The dialog of a closed call is removed when the caller has dealt with it.*)
Removable(b) == call[b].state = "Closed" /\ published[b] = NoDialog

RemovedIsDone(b) ==
  Removable(b) /\ call[Caller].state \in {"Preparing", "Placed"} =>
    /\ location[Caller][b] = NoLocation
    /\ seen[Caller][b] = NoDialog \/ Over(seen[Caller][b])

AllRemoved ==
  (\A b \in Called : Removable(b)) => call[Caller].state \in {"Open", "Closing", "Closed"}

DialogInv ==
  /\ TypeInv
  /\ call[Caller].state \in CallerStates
  /\ \A b \in Called : call[b].state \in CalledStates
  /\ \A e \in Ends : PublishedIsTrue(e) /\ NothingHeld(e)
  /\ NotPlaced
  /\ PickedOrOver
  /\ \A b \in Called : Rings(b) /\ CalledInStep(b) /\ RemovedIsDone(b)
  /\ CallerInStep
  /\ AllRemoved

-----------------------------------------------------------------------------
(* The operators of the model. *)

(* None of the ends called is the caller, and there is one.                 *)
LEMMA TheCalled ==
  /\ Called # {} /\ Caller \notin Called /\ None \notin Called /\ None # Caller
  /\ Ends = {Caller} \cup Called
  /\ OtherEnds(Caller) = Called
  /\ \A b \in Called : OtherEnds(b) = {Caller}
  /\ Len(Callees) \in Nat
  /\ \A i \in 1..Len(Callees) : Callees[i] \in Called
  /\ \A b \in Called : \E i \in 1..Len(Callees) : b = Callees[i]
<1>1. /\ Callees \in Seq(Called) /\ Callees # << >>
      /\ Caller \notin Called /\ None \notin Called
  BY CalleesAssumption DEF Called, Caller, None
<1>2. Len(Callees) \in Nat /\ DOMAIN Callees = 1..Len(Callees)
  BY <1>1
<1>3. Called = {Callees[i] : i \in 1..Len(Callees)}
  BY <1>2 DEF Called, ToSet
<1>4. Called # {}
  <2>1. Len(Callees) # 0
    BY <1>1
  <2>2. Callees[1] \in Called
    BY <1>2, <1>3, <2>1
  <2> QED BY <2>2
<1>5. None # Caller
  BY DEF None, Caller
<1> HIDE DEF Called
<1> QED BY <1>1, <1>2, <1>3, <1>4, <1>5 DEF Ends, OtherEnds

(* A set of positions that is not empty has a first.                        *)
LEMMA FirstPosition ==
  ASSUME NEW S \in SUBSET Nat, S # {}
  PROVE  \E i \in S : \A j \in S : i <= j
<1>1. PICK i \in S : \A j \in S : ~(<<j, i>> \in OpToRel(<, Nat))
  BY NatLessThanWellFounded, WFMin
<1>2. ASSUME NEW j \in S PROVE i <= j
  <2>1. j \in Nat /\ i \in Nat /\ <<j, i>> \in Nat \X Nat
    OBVIOUS
  <2>2. j < i => <<j, i>> \in OpToRel(<, Nat)
    BY <2>1 DEF OpToRel
  <2>3. ~(j < i)
    BY <1>1, <2>2
  <2> QED BY <2>1, <2>3
<1> QED BY <1>2

(* Who is picked has answered; nobody has, when none is picked.             *)
LEMMA FirstAnsweredIs ==
  ASSUME NEW known
  PROVE  /\ FirstAnswered(known) = 0 => \A b \in Called : ~Answered(known[b])
         /\ FirstAnswered(known) # 0 =>
              /\ Callees[FirstAnswered(known)] \in Called
              /\ Answered(known[Callees[FirstAnswered(known)]])
<1> DEFINE I == {i \in 1..Len(Callees) : Answered(known[Callees[i]])}
<1>1. FirstAnswered(known) =
        IF I # {} THEN CHOOSE x \in I : \A y \in I : x <= y ELSE 0
  BY DEF FirstAnswered, SelectInSeq, Min
<1>2. I \in SUBSET Nat
  OBVIOUS
<1> USE TheCalled
<1>3. CASE I = {}
  BY <1>1, <1>3
<1>4. CASE I # {}
  <2> HIDE DEF I
  <2>1. \E x \in I : \A y \in I : x <= y
    BY <1>2, <1>4, FirstPosition
  <2>2. FirstAnswered(known) \in I
    BY <1>1, <1>4, <2>1
  <2> QED BY <2>2 DEF I
<1> QED BY <1>3, <1>4

LEMMA NothingRemoved ==
  ASSUME NEW known, FirstAnswered(known) = 0, Removed(known) = {}
  PROVE  \A b \in Called : known[b] # NoLocation => ~Over(known[b].dialog)
<1> SUFFICES ASSUME NEW b \in Called, known[b] # NoLocation, Over(known[b].dialog)
             PROVE  b \in Removed(known)
  OBVIOUS
<1>1. PICK i \in 1..Len(Callees) : b = Callees[i]
  BY TheCalled
<1> QED BY <1>1 DEF Removed

(* What rewriting a field of a call does to the others.                     *)
LEMMA CallFields ==
  ASSUME NEW c \in CallRecords
  PROVE  /\ c.state \in CallStates /\ c.reason \in ClosedReasons
         /\ c.picked \in Ends \cup {None} /\ c.dialog \in BOOLEAN /\ c.told \in BOOLEAN
         /\ c.answered \in BOOLEAN /\ c.closedTime \in {"never", "running", "past"}
         /\ c.timer \in BOOLEAN
         /\ DOMAIN c = {"state", "reason", "picked", "dialog", "told", "answered",
                        "closedTime", "timer"}
BY DEF CallRecords

LEMMA PlacedFields ==
  ASSUME NEW c \in CallRecords
  PROVE  LET u == [c EXCEPT !.state = "Preparing", !.dialog = TRUE]
         IN  /\ u \in CallRecords /\ u.state = "Preparing" /\ u.reason = c.reason
             /\ u.picked = c.picked /\ u.dialog /\ u.told = c.told
BY DEF CallRecords, CallStates

LEMMA PastFields ==
  ASSUME NEW c \in CallRecords
  PROVE  LET u == [c EXCEPT !.closedTime = "past", !.timer = FALSE]
         IN  /\ u \in CallRecords /\ u.state = c.state /\ u.reason = c.reason
             /\ u.picked = c.picked /\ u.dialog = c.dialog /\ u.told = c.told
BY DEF CallRecords

LEMMA AnsweredFields ==
  ASSUME NEW c \in CallRecords
  PROVE  LET u == [c EXCEPT !.answered = TRUE]
         IN  /\ u \in CallRecords /\ u.state = c.state /\ u.reason = c.reason
             /\ u.picked = c.picked /\ u.dialog = c.dialog /\ u.told = c.told
             /\ u.answered
BY DEF CallRecords

LEMMA CancelledFields ==
  ASSUME NEW c \in CallRecords, NEW reason \in ClosedReasons
  PROVE  LET u == Cancelled(c, reason)
             v == Cancelled([c EXCEPT !.dialog = TRUE], reason)
         IN  /\ u \in CallRecords /\ u.state = "Closing" /\ u.picked = c.picked
             /\ u.dialog = c.dialog
             /\ v \in CallRecords /\ v.state = "Closing" /\ v.picked = c.picked
             /\ v.dialog
BY DEF CallRecords, CallStates, Cancelled, WithReason

LEMMA FailedFields ==
  ASSUME NEW c \in CallRecords
  PROVE  LET u == [WithReason(c, "User") EXCEPT !.picked = None]
         IN  /\ u \in CallRecords /\ u.state = c.state /\ u.reason # None
             /\ u.picked = None /\ u.dialog = c.dialog /\ u.told = c.told
             /\ u.answered = c.answered
BY DEF CallRecords, ClosedReasons, WithReason, None

LEMMA ClosedFields ==
  ASSUME NEW c \in CallRecords
  PROVE  LET u == [c EXCEPT !.state = "Closed", !.timer = FALSE]
             v == [u EXCEPT !.picked = None]
         IN  /\ u \in CallRecords /\ u.state = "Closed" /\ u.reason = c.reason
             /\ u.picked = c.picked /\ u.dialog = c.dialog /\ u.told = c.told
             /\ v \in CallRecords /\ v.state = "Closed" /\ v.reason = c.reason
             /\ v.picked = None /\ v.dialog = c.dialog /\ v.told = c.told
BY DEF CallRecords, CallStates

LEMMA RingingFields ==
  ASSUME NEW c \in CallRecords
  PROVE  LET u == [c EXCEPT !.state = "Preparing"]
         IN  /\ u \in CallRecords /\ u.state = "Preparing" /\ u.reason = c.reason
             /\ u.picked = c.picked /\ u.dialog = c.dialog /\ u.told = c.told
             /\ u.answered = c.answered
BY DEF CallRecords, CallStates

LEMMA TimedFields ==
  ASSUME NEW c \in CallRecords, NEW e, NEW known
  PROVE  LET u == Timed(e, c, known)
         IN  /\ u \in CallRecords /\ u.state = c.state /\ u.reason = c.reason
             /\ u.picked = c.picked /\ u.dialog = c.dialog /\ u.told = c.told
             /\ u.answered = c.answered
             /\ e # Caller => u = c
             /\ e = Caller /\ c.picked = None /\ OverElsewhere(e) # {} /\
                (\A x \in Called : known[x] = NoLocation) => u.timer
BY DEF CallRecords, Timed

LEMMA SteppedCalledFields ==
  ASSUME NEW c \in CallRecords, NEW known
  PROVE  LET u == StepOfCalled(c, known)
         IN  /\ u \in CallRecords /\ u.reason = c.reason /\ u.picked = Caller
             /\ u.dialog /\ u.told /\ u.answered = c.answered
             /\ \/ u.state = c.state
                \/ u.state = IF c.answered THEN "Open" ELSE "Incoming"
BY DEF CallRecords, CallStates, StepOfCalled, Ends

(* Records keep their types as their fields are rewritten, and a call that  *)
(* is published with a new state is published with that state.              *)
LEMMA DialogOfIs ==
  ASSUME NEW e, NEW state \in CallStates, NEW reason \in ClosedReasons,
         NEW callee \in Ends \cup {None}
  PROVE  LET d == DialogOf(e, state, reason, callee)
         IN  /\ d \in DialogRecords /\ d.state = state /\ d.callee = callee
             /\ state = "Closed" => d.reason = reason
             /\ state # None => d # NoDialog
BY DEF DialogOf, DialogRecords, ClosedReasons, NoDialog, None

LEMMA NoDialogIs ==
  /\ NoDialog \in DialogRecords /\ NoDialog.state = None
  /\ NoLocation \in LocationRecords /\ NoLocation.state = None /\ NoLocation.dialog = NoDialog
  /\ ~Over(NoDialog)
BY DEF NoDialog, NoLocation, DialogRecords, LocationRecords, CallStates, ClosedReasons, None, Over

LEMMA PublishIs ==
  ASSUME TypeInv, NEW e \in Ends, NEW c \in CallRecords, Publish(e, c), c.state # None,
         c.picked \in Ends \cup {None}
  PROVE  \E d \in DialogRecords :
           /\ published' = [published EXCEPT ![e] = d]
           /\ c.dialog /\ (c.state # call[e].state \/ c.told # call[e].told) =>
                /\ d.state = c.state /\ d # NoDialog
                /\ d.state = "Closed" => d.reason = c.reason
                /\ e = Caller => d.callee = c.picked
           /\ ~(c.dialog /\ (c.state # call[e].state \/ c.told # call[e].told)) =>
                d = published[e]
<1> DEFINE news == c.dialog /\ (c.state # call[e].state \/ c.told # call[e].told)
           n == DialogOf(e, c.state, c.reason, IF e = Caller THEN c.picked ELSE e)
<1>1. CASE news
  <2>1. published' = [published EXCEPT ![e] = n]
    BY <1>1 DEF Publish
  <2>2. c.state \in CallStates /\ c.reason \in ClosedReasons
    BY DEF CallRecords
  <2>3. /\ n \in DialogRecords /\ n.state = c.state /\ (e = Caller => n.callee = c.picked)
        /\ c.state = "Closed" => n.reason = c.reason
        /\ n # NoDialog
    BY <2>2, DialogOfIs
  <2> QED BY <1>1, <2>1, <2>3
<1>2. CASE ~news
  <2>1. published' = published
    BY <1>2 DEF Publish
  <2>2. published = [published EXCEPT ![e] = published[e]] /\ published[e] \in DialogRecords
    BY DEF TypeInv
  <2> QED BY <1>2, <2>1, <2>2
<1> QED BY <1>1, <1>2

-----------------------------------------------------------------------------
(* What an end's own invariants depend on. *)

LEMMA SameInStep ==
  ASSUME NEW b \in Called, CalledInStep(b), b \notin wake' => b \notin wake,
         seen'[b] = seen[b], call'[b].state = call[b].state \/ ~Ongoing(b)'
  PROVE  CalledInStep(b)'
BY DEF CalledInStep, Ongoing

LEMMA SameCallerInStep ==
  ASSUME CallerInStep, Caller \notin wake' => Caller \notin wake,
         seen'[Caller] = seen[Caller],
         location'[Caller] = location[Caller],
         ~Ongoing(Caller)' \/ call'[Caller] = call[Caller]
  PROVE  CallerInStep'
BY DEF CallerInStep, Ongoing, ReasonsElsewhere, OverElsewhere, Replies

(* Whoever closes a call, and why: it is published as one that closes.      *)
LEMMA CancelledInv ==
  ASSUME DialogInv, NEW e \in Ends, Ongoing(e), NEW c \in CallRecords,
         c.state = "Closing", c.dialog, c.picked = call[e].picked,
         call' = [call EXCEPT ![e] = c], Publish(e, c), wake' \in {wake, wake \ {e}},
         UNCHANGED <<location, seen, handled>>
  PROVE  DialogInv'
<1> USE TheCalled, NoDialogIs
<1>1. PICK d \in DialogRecords : /\ published' = [published EXCEPT ![e] = d]
                                 /\ d.state = "Closing" /\ d # NoDialog
                                 /\ e = Caller => d.callee = c.picked
  <2>1. TypeInv /\ c.state # None /\ call[e].state # "Closing"
        /\ c.picked \in Ends \cup {None}
    BY DEF DialogInv, Ongoing, None, TypeInv
  <2> QED BY <2>1, PublishIs
<1>2. /\ \A y \in Ends : y # e => call'[y] = call[y] /\ published'[y] = published[y]
      /\ call'[e] = c /\ published'[e] = d
  BY <1>1 DEF DialogInv, TypeInv
<1>3. TypeInv'
  BY <1>1 DEF DialogInv, TypeInv
<1>4. /\ call'[Caller].state \in CallerStates
      /\ \A b \in Called : call'[b].state \in CalledStates
  BY <1>2 DEF DialogInv, CallerStates, CalledStates
<1>5. \A y \in Ends : PublishedIsTrue(y)' /\ NothingHeld(y)'
  BY <1>1, <1>2 DEF DialogInv, PublishedIsTrue, NothingHeld, None
<1>6. NotPlaced' /\ PickedOrOver'
  BY <1>2 DEF DialogInv, NotPlaced, PickedOrOver, None, Ongoing
<1>7. ASSUME NEW b \in Called PROVE Rings(b)' /\ CalledInStep(b)' /\ RemovedIsDone(b)'
  <2>1. Rings(b)'
    BY <1>1, <1>2 DEF DialogInv, Rings, HasAnswered, Ongoing, None
  <2>2. CalledInStep(b)'
    <3>1. CASE b = e
      BY <1>1, <1>2, <3>1 DEF CalledInStep, Ongoing
    <3>2. CASE b # e
      <4>1. CalledInStep(b) /\ call'[b] = call[b] /\ seen' = seen /\ (b \notin wake' => b \notin wake)
        BY <1>2, <3>2 DEF DialogInv
      <4> QED BY <4>1, SameInStep
    <3> QED BY <3>1, <3>2
  <2>3. RemovedIsDone(b)'
    BY <1>1, <1>2 DEF DialogInv, RemovedIsDone, Removable, Ongoing
  <2> QED BY <2>1, <2>2, <2>3
<1>8. CallerInStep'
  <2>1. CASE e = Caller
    BY <1>1, <1>2, <2>1 DEF CallerInStep, Ongoing
  <2>2. CASE e # Caller
    <3>1. /\ CallerInStep /\ call'[Caller] = call[Caller] /\ seen' = seen
          /\ location' = location /\ (Caller \notin wake' => Caller \notin wake)
      BY <1>2, <2>2 DEF DialogInv
    <3> QED BY <3>1, SameCallerInStep
  <2> QED BY <2>1, <2>2
<1>9. AllRemoved'
  BY <1>1, <1>2 DEF DialogInv, AllRemoved, Removable, Ongoing
<1> QED BY <1>3, <1>4, <1>5, <1>6, <1>7, <1>8, <1>9 DEF DialogInv

-----------------------------------------------------------------------------
(* The application and the connections. *)

LEMMA PlaceCallInv ==
  ASSUME DialogInv, PlaceCall
  PROVE  DialogInv'
<1> USE TheCalled, NoDialogIs
<1> DEFINE c == [call[Caller] EXCEPT !.state = "Preparing", !.dialog = TRUE]
           d == DialogOf(Caller, "Preparing", None, None)
<1>1. /\ call[Caller].state = None /\ call' = [call EXCEPT ![Caller] = c]
      /\ published' = [published EXCEPT ![Caller] = d]
      /\ UNCHANGED <<location, seen, wake, handled>>
  BY DEF PlaceCall, DialogInv, TypeInv
<1>2. d \in DialogRecords /\ d.state = "Preparing" /\ d # NoDialog
  <2>1. "Preparing" \in CallStates /\ None \in ClosedReasons /\ "Preparing" # None
    BY DEF CallStates, ClosedReasons, None
  <2> QED BY <2>1, DialogOfIs
<1>3. /\ c \in CallRecords /\ c.state = "Preparing" /\ c.dialog
      /\ c.picked = call[Caller].picked
  BY PlacedFields DEF DialogInv, TypeInv
<1>4. c.picked = None
  BY <1>1, <1>3 DEF DialogInv, NothingHeld
<1> HIDE DEF c, d
<1>5. /\ \A b \in Called : call'[b] = call[b] /\ published'[b] = published[b]
      /\ call'[Caller] = c /\ published'[Caller] = d
  BY <1>1 DEF DialogInv, TypeInv
<1>6. TypeInv'
  BY <1>1, <1>2, <1>3 DEF DialogInv, TypeInv
<1>7. /\ call'[Caller].state \in CallerStates
      /\ \A b \in Called : call'[b].state \in CalledStates
  BY <1>3, <1>5 DEF DialogInv, CallerStates
<1>8. \A y \in Ends : PublishedIsTrue(y)' /\ NothingHeld(y)'
  BY <1>1, <1>2, <1>3, <1>4, <1>5 DEF DialogInv, PublishedIsTrue, NothingHeld, None
<1>9. NotPlaced' /\ PickedOrOver'
  BY <1>3, <1>5 DEF NotPlaced, PickedOrOver, None
<1>10. /\ \A b \in Called : /\ call[b].state = None /\ seen[Caller][b] = NoDialog
                            /\ location[Caller][b] = NoLocation
  BY <1>1 DEF DialogInv, NotPlaced, NothingHeld
<1>11. ASSUME NEW b \in Called PROVE Rings(b)' /\ CalledInStep(b)' /\ RemovedIsDone(b)'
  <2>1. Rings(b)'
    BY <1>1, <1>3, <1>4, <1>5, <1>10 DEF DialogInv, Rings, NothingHeld, None
  <2>2. CalledInStep(b)' /\ RemovedIsDone(b)'
    BY <1>5, <1>10 DEF CalledInStep, RemovedIsDone, Removable, Ongoing, None
  <2> QED BY <2>1, <2>2
<1>12. CallerInStep'
  <2>1. OverElsewhere(Caller)' = {}
    BY <1>1, <1>10 DEF OverElsewhere, Replies
  <2>2. ReasonsElsewhere(Caller)' = {}
    BY <2>1 DEF ReasonsElsewhere
  <2> QED BY <1>1, <1>3, <1>5, <1>10, <2>1, <2>2 DEF CallerInStep
<1>13. AllRemoved'
  BY <1>5, <1>10 DEF AllRemoved, Removable, None
<1> QED BY <1>6, <1>7, <1>8, <1>9, <1>11, <1>12, <1>13 DEF DialogInv

LEMMA TimePassesInv ==
  ASSUME DialogInv, TimePasses
  PROVE  DialogInv'
<1> USE TheCalled, NoDialogIs
<1> DEFINE c == [call[Caller] EXCEPT !.closedTime = "past", !.timer = FALSE]
<1>1. /\ call' = [call EXCEPT ![Caller] = c]
      /\ wake' = IF call[Caller].timer THEN wake \cup {Caller} ELSE wake
      /\ UNCHANGED <<location, published, seen, handled>>
  BY DEF TimePasses, DialogInv, TypeInv
<1>2. /\ c \in CallRecords /\ c.state = call[Caller].state
      /\ c.picked = call[Caller].picked /\ c.reason = call[Caller].reason
      /\ c.dialog = call[Caller].dialog /\ c.told = call[Caller].told
  BY PastFields DEF DialogInv, TypeInv
<1> HIDE DEF c
<1>3. call'[Caller] = c /\ \A b \in Called : call'[b] = call[b]
  BY <1>1 DEF DialogInv, TypeInv
<1>4. TypeInv'
  BY <1>1, <1>2 DEF DialogInv, TypeInv
<1>5. /\ call'[Caller].state \in CallerStates
      /\ \A b \in Called : call'[b].state \in CalledStates
  BY <1>2, <1>3 DEF DialogInv
<1>6. \A y \in Ends : PublishedIsTrue(y)' /\ NothingHeld(y)'
  BY <1>1, <1>2, <1>3 DEF DialogInv, PublishedIsTrue, NothingHeld
<1>7. NotPlaced' /\ PickedOrOver' /\ AllRemoved'
  BY <1>1, <1>2, <1>3 DEF DialogInv, NotPlaced, PickedOrOver, AllRemoved, Removable
<1>8. ASSUME NEW b \in Called PROVE Rings(b)' /\ CalledInStep(b)' /\ RemovedIsDone(b)'
  <2>1. Rings(b)'
    BY <1>1, <1>2, <1>3 DEF DialogInv, Rings, HasAnswered
  <2>2. CalledInStep(b)'
    BY <1>1, <1>3 DEF DialogInv, CalledInStep, Ongoing
  <2>3. RemovedIsDone(b)'
    BY <1>1, <1>2, <1>3 DEF DialogInv, RemovedIsDone, Removable
  <2> QED BY <2>1, <2>2, <2>3
<1>9. CallerInStep'
  <2>1. OverElsewhere(Caller)' = OverElsewhere(Caller)
    BY <1>1, <1>2, <1>3 DEF OverElsewhere, Replies
  <2>2. ReasonsElsewhere(Caller)' = ReasonsElsewhere(Caller)
    BY <1>1, <2>1 DEF ReasonsElsewhere
  <2>3. CallerInStep
    BY DEF DialogInv
  <2> HIDE DEF TypeInv
  <2> QED BY <1>1, <1>2, <1>3, <2>1, <2>2, <2>3 DEF CallerInStep, Ongoing
<1> QED BY <1>4, <1>5, <1>6, <1>7, <1>8, <1>9 DEF DialogInv

LEMMA AnswerInv ==
  ASSUME DialogInv, NEW e \in Ends, Answer(e)
  PROVE  DialogInv'
<1> USE TheCalled, NoDialogIs
<1> DEFINE c == [call[e] EXCEPT !.answered = TRUE]
<1>1. /\ call' = [call EXCEPT ![e] = c] /\ wake' = wake \cup {e}
      /\ UNCHANGED <<location, published, seen, handled>>
  BY DEF Answer, DialogInv, TypeInv
<1>2. /\ c \in CallRecords /\ c.state = call[e].state
      /\ c.picked = call[e].picked /\ c.reason = call[e].reason
      /\ c.dialog = call[e].dialog /\ c.told = call[e].told
      /\ c.answered
  BY AnsweredFields DEF DialogInv, TypeInv
<1>3. e # Caller
  BY DEF Answer, DialogInv, CallerStates, None
<1> HIDE DEF c
<1>4. call'[e] = c /\ \A y \in Ends : y # e => call'[y] = call[y]
  BY <1>1 DEF DialogInv, TypeInv
<1>5. TypeInv'
  BY <1>1, <1>2 DEF DialogInv, TypeInv
<1>6. /\ call'[Caller].state \in CallerStates
      /\ \A b \in Called : call'[b].state \in CalledStates
  BY <1>2, <1>4 DEF DialogInv
<1>7. \A y \in Ends : PublishedIsTrue(y)' /\ NothingHeld(y)'
  BY <1>1, <1>2, <1>4 DEF DialogInv, PublishedIsTrue, NothingHeld
<1>8. NotPlaced' /\ PickedOrOver' /\ AllRemoved'
  BY <1>1, <1>2, <1>3, <1>4 DEF DialogInv, NotPlaced, PickedOrOver, AllRemoved, Removable
<1>9. ASSUME NEW b \in Called PROVE Rings(b)' /\ CalledInStep(b)' /\ RemovedIsDone(b)'
  <2>1. Rings(b)'
    BY <1>1, <1>2, <1>3, <1>4 DEF DialogInv, Rings, HasAnswered
  <2>2. CalledInStep(b)'
    BY <1>1, <1>2, <1>4 DEF DialogInv, CalledInStep, Ongoing
  <2>3. RemovedIsDone(b)'
    BY <1>1, <1>2, <1>3, <1>4 DEF DialogInv, RemovedIsDone, Removable
  <2> QED BY <2>1, <2>2, <2>3
<1>10. CallerInStep'
  <2>1. /\ CallerInStep /\ call'[Caller] = call[Caller] /\ seen' = seen
        /\ location' = location /\ (Caller \notin wake' => Caller \notin wake)
    BY <1>1, <1>3, <1>4 DEF DialogInv
  <2> QED BY <2>1, SameCallerInStep
<1> QED BY <1>5, <1>6, <1>7, <1>8, <1>9, <1>10 DEF DialogInv

LEMMA HangupInv ==
  ASSUME DialogInv, NEW e \in Ends, NEW reason \in Reasons(e), Hangup(e, reason)
  PROVE  DialogInv'
<1> DEFINE c == Cancelled(call[e], reason)
<1>1. /\ call' = [call EXCEPT ![e] = c] /\ Publish(e, c)
      /\ UNCHANGED <<location, seen, wake, handled>>
  BY DEF Hangup
<1>2. Ongoing(e) /\ call[e].dialog
  BY TheCalled DEF Hangup, Presented, DialogInv, PublishedIsTrue, Ongoing, None
<1>3. c \in CallRecords /\ c.state = "Closing" /\ c.picked = call[e].picked /\ c.dialog
  <2>1. reason \in ClosedReasons /\ call[e] \in CallRecords
    BY DEF Reasons, ClosedReasons, DialogInv, TypeInv
  <2> QED BY <1>2, <2>1, CancelledFields
<1> HIDE DEF c
<1> QED BY <1>1, <1>2, <1>3, CancelledInv

LEMMA LocationReadyInv ==
  ASSUME DialogInv, NEW e \in Ends, NEW x \in OtherEnds(e), LocationReady(e, x)
  PROVE  DialogInv'
<1> USE TheCalled, NoDialogIs
<1> DEFINE l == [location[e][x] EXCEPT !.state = "Ready"]
<1>1. /\ location' = [location EXCEPT ![e] = [@ EXCEPT ![x] = l]]
      /\ location[e][x].state = "Pending" /\ wake' = wake \cup {e}
      /\ UNCHANGED <<call, published, seen, handled>>
  BY DEF LocationReady, DialogInv, TypeInv
<1>2. l \in LocationRecords /\ l.state = "Ready" /\ l.dialog = location[e][x].dialog
  <2>1. location[e][x] \in LocationRecords
    BY DEF DialogInv, TypeInv
  <2> QED BY <2>1 DEF LocationRecords
<1>3. location[e][x] # NoLocation
  BY <1>1 DEF None
<1> HIDE DEF l
<1>4. /\ location'[e] = [location[e] EXCEPT ![x] = l]
      /\ \A y \in Ends : y # e => location'[y] = location[y]
  BY <1>1 DEF DialogInv, TypeInv
<1>5. /\ location'[e][x] = l
      /\ \A y \in OtherEnds(e) : y # x => location'[e][y] = location[e][y]
      /\ location'[e] \in [OtherEnds(e) -> LocationRecords]
  BY <1>2, <1>4 DEF DialogInv, TypeInv
<1>6. TypeInv'
  BY <1>1, <1>4, <1>5 DEF DialogInv, TypeInv
<1>7. \A y \in Ends : PublishedIsTrue(y)' /\ NothingHeld(y)'
  BY <1>1, <1>3, <1>4, <1>5 DEF DialogInv, PublishedIsTrue, NothingHeld
<1>8. NotPlaced' /\ PickedOrOver' /\ AllRemoved'
  BY <1>1 DEF DialogInv, NotPlaced, PickedOrOver, AllRemoved, Removable
<1>9. ASSUME NEW b \in Called PROVE Rings(b)' /\ CalledInStep(b)' /\ RemovedIsDone(b)'
  <2>1. Rings(b)'
    BY <1>1, <1>2, <1>3, <1>4, <1>5 DEF DialogInv, Rings, HasAnswered
  <2>2. CalledInStep(b)'
    BY <1>1 DEF DialogInv, CalledInStep, Ongoing
  <2>3. RemovedIsDone(b)'
    BY <1>1, <1>3, <1>4, <1>5 DEF DialogInv, RemovedIsDone, Removable
  <2> QED BY <2>1, <2>2, <2>3
<1>10. CallerInStep'
  <2>1. CASE e = Caller
    BY <1>1, <2>1 DEF CallerInStep
  <2>2. CASE e # Caller
    <3>1. /\ CallerInStep /\ call' = call /\ seen' = seen
          /\ location'[Caller] = location[Caller] /\ (Caller \notin wake' => Caller \notin wake)
      BY <1>1, <1>4, <2>2 DEF DialogInv
    <3> QED BY <3>1, SameCallerInStep
  <2> QED BY <2>1, <2>2
<1>11. /\ call'[Caller].state \in CallerStates
       /\ \A b \in Called : call'[b].state \in CalledStates
  BY <1>1 DEF DialogInv
<1> QED BY <1>6, <1>7, <1>8, <1>9, <1>10, <1>11 DEF DialogInv

LEMMA LocationFailsInv ==
  ASSUME DialogInv, NEW e \in Ends, NEW x \in OtherEnds(e), LocationFails(e, x)
  PROVE  DialogInv'
<1> USE TheCalled, NoDialogIs
<1> DEFINE c == IF call[e].picked = x
                THEN [WithReason(call[e], "User") EXCEPT !.picked = None] ELSE call[e]
<1>1. /\ location' = [location EXCEPT ![e] = [@ EXCEPT ![x] = NoLocation]]
      /\ location[e][x].state # None /\ wake' = wake \cup {e}
      /\ call' = [call EXCEPT ![e] = c]
      /\ UNCHANGED <<published, seen, handled>>
  BY DEF LocationFails, DialogInv, TypeInv
<1>2. /\ c \in CallRecords /\ c.state = call[e].state
      /\ c.dialog = call[e].dialog /\ c.told = call[e].told
      /\ c.answered = call[e].answered
      /\ \/ c.picked = call[e].picked /\ c.picked # x /\ c.reason = call[e].reason
         \/ c.picked = None /\ c.reason # None
  <2>1. call[e] \in CallRecords
    BY DEF DialogInv, TypeInv
  <2> QED BY <2>1, FailedFields
<1>3. location[e][x] # NoLocation
  BY <1>1
<1> HIDE DEF c
<1>4. /\ location'[e] = [location[e] EXCEPT ![x] = NoLocation]
      /\ \A y \in Ends : y # e => location'[y] = location[y] /\ call'[y] = call[y]
      /\ call'[e] = c
  BY <1>1 DEF DialogInv, TypeInv
<1>5. /\ location'[e][x] = NoLocation
      /\ \A y \in OtherEnds(e) : y # x => location'[e][y] = location[e][y]
      /\ location'[e] \in [OtherEnds(e) -> LocationRecords]
  BY <1>4 DEF DialogInv, TypeInv
<1>6. TypeInv'
  BY <1>1, <1>2, <1>4, <1>5 DEF DialogInv, TypeInv
<1>7. \A y \in Ends : PublishedIsTrue(y)' /\ NothingHeld(y)'
  BY <1>1, <1>2, <1>3, <1>4, <1>5 DEF DialogInv, PublishedIsTrue, NothingHeld, None
<1>8. NotPlaced' /\ PickedOrOver' /\ AllRemoved'
  BY <1>1, <1>2, <1>4 DEF DialogInv, NotPlaced, PickedOrOver, AllRemoved, Removable
<1>9. ASSUME NEW b \in Called PROVE Rings(b)' /\ CalledInStep(b)' /\ RemovedIsDone(b)'
  <2>1. Rings(b)'
    BY <1>1, <1>2, <1>3, <1>4, <1>5 DEF DialogInv, Rings, HasAnswered, None
  <2>2. CalledInStep(b)'
    BY <1>1, <1>2, <1>4 DEF DialogInv, CalledInStep, Ongoing
  <2>3. RemovedIsDone(b)'
    BY <1>1, <1>2, <1>4, <1>5 DEF DialogInv, RemovedIsDone, Removable
  <2> QED BY <2>1, <2>2, <2>3
<1>10. CallerInStep'
  <2>1. CASE e = Caller
    BY <1>1, <2>1 DEF CallerInStep
  <2>2. CASE e # Caller
    <3>1. /\ CallerInStep /\ call'[Caller] = call[Caller] /\ seen' = seen
          /\ location'[Caller] = location[Caller] /\ (Caller \notin wake' => Caller \notin wake)
      BY <1>1, <1>4, <2>2 DEF DialogInv
    <3> QED BY <3>1, SameCallerInStep
  <2> QED BY <2>1, <2>2
<1>11. /\ call'[Caller].state \in CallerStates
       /\ \A b \in Called : call'[b].state \in CalledStates
  BY <1>2, <1>4 DEF DialogInv
<1> QED BY <1>6, <1>7, <1>8, <1>9, <1>10, <1>11 DEF DialogInv

LEMMA CancelClosesInv ==
  ASSUME DialogInv, NEW e \in Ends, CancelCloses(e)
  PROVE  DialogInv'
<1> USE TheCalled, NoDialogIs
<1> DEFINE p == [call[e] EXCEPT !.state = "Closed", !.timer = FALSE]
           c == [p EXCEPT !.picked = None]
           none == [x \in OtherEnds(e) |-> NoLocation]
<1>1. /\ call[e].state = "Closing" /\ call' = [call EXCEPT ![e] = c] /\ Publish(e, p)
      /\ location' = [location EXCEPT ![e] = none]
      /\ UNCHANGED <<seen, wake, handled>>
  BY DEF CancelCloses
<1>2. call[e] \in CallRecords /\ call[e].dialog
  BY <1>1 DEF DialogInv, TypeInv, PublishedIsTrue
<1>3. /\ p \in CallRecords /\ p.state = "Closed" /\ p.dialog
      /\ p.reason = call[e].reason /\ p.picked = call[e].picked
      /\ c \in CallRecords /\ c.state = "Closed" /\ c.dialog
      /\ c.reason = call[e].reason /\ c.picked = None
  BY <1>2, ClosedFields
<1> HIDE DEF p, c
<1>4. PICK d \in DialogRecords : /\ published' = [published EXCEPT ![e] = d]
                                 /\ d.state = "Closed" /\ d # NoDialog /\ d.reason = c.reason
  <2>1. TypeInv /\ p.state # None /\ p.state # call[e].state /\ p.picked \in Ends \cup {None}
    BY <1>1, <1>3 DEF DialogInv, None, CallRecords
  <2> QED BY <1>1, <1>3, <2>1, PublishIs
<1>5. /\ call'[e] = c /\ published'[e] = d /\ location'[e] = none
      /\ \A y \in Ends : y # e => /\ call'[y] = call[y] /\ published'[y] = published[y]
                                  /\ location'[y] = location[y]
  BY <1>1, <1>4 DEF DialogInv, TypeInv
<1>6. \A x \in OtherEnds(e) : location'[e][x] = NoLocation
  BY <1>5
<1>7. TypeInv'
  <2>1. none \in [OtherEnds(e) -> LocationRecords]
    OBVIOUS
  <2> HIDE DEF none
  <2> QED BY <1>1, <1>3, <1>4, <1>5, <2>1 DEF DialogInv, TypeInv
<1> HIDE DEF none
<1>8. \A y \in Ends : PublishedIsTrue(y)' /\ NothingHeld(y)'
  BY <1>3, <1>4, <1>5, <1>6, SMTT(60) DEF DialogInv, PublishedIsTrue, NothingHeld, None
<1>9. NotPlaced' /\ PickedOrOver' /\ AllRemoved'
  BY <1>1, <1>3, <1>4, <1>5 DEF DialogInv, NotPlaced, PickedOrOver, AllRemoved, Removable, None
<1>10. ASSUME NEW b \in Called PROVE Rings(b)' /\ CalledInStep(b)' /\ RemovedIsDone(b)'
  <2>1. Rings(b)'
    BY <1>1, <1>3, <1>4, <1>5, <1>6 DEF DialogInv, Rings, HasAnswered, None
  <2>2. CalledInStep(b)'
    BY <1>1, <1>3, <1>5 DEF DialogInv, CalledInStep, Ongoing
  <2>3. RemovedIsDone(b)'
    BY <1>1, <1>3, <1>4, <1>5 DEF DialogInv, RemovedIsDone, Removable
  <2> QED BY <2>1, <2>2, <2>3
<1>11. CallerInStep'
  <2>1. CASE e = Caller
    BY <1>3, <1>5, <2>1 DEF CallerInStep, Ongoing
  <2>2. CASE e # Caller
    <3>1. /\ CallerInStep /\ call'[Caller] = call[Caller] /\ seen' = seen
          /\ location'[Caller] = location[Caller] /\ (Caller \notin wake' => Caller \notin wake)
      BY <1>1, <1>5, <2>2 DEF DialogInv
    <3> QED BY <3>1, SameCallerInStep
  <2> QED BY <2>1, <2>2
<1>12. /\ call'[Caller].state \in CallerStates
       /\ \A b \in Called : call'[b].state \in CalledStates
  BY <1>3, <1>5 DEF DialogInv, CallerStates, CalledStates
<1> QED BY <1>7, <1>8, <1>9, <1>10, <1>11, <1>12 DEF DialogInv

-----------------------------------------------------------------------------
(* The documents. *)

LEMMA ReplicateToCallerInv ==
  ASSUME DialogInv, NEW x \in Called, Replicate(Caller, x)
  PROVE  DialogInv'
<1> USE TheCalled, NoDialogIs
<1>1. /\ seen[Caller][x] # published[x]
      /\ seen' = [seen EXCEPT ![Caller] = [@ EXCEPT ![x] = published[x]]]
      /\ wake' = wake \cup {Caller}
      /\ UNCHANGED <<call, location, published, handled>>
  BY DEF Replicate, DialogInv, TypeInv
<1>2. /\ seen'[Caller] = [seen[Caller] EXCEPT ![x] = published[x]]
      /\ \A b \in Called : seen'[b] = seen[b]
  BY <1>1 DEF DialogInv, TypeInv
<1>3. /\ seen'[Caller][x] = published[x]
      /\ \A b \in Called : b # x => seen'[Caller][b] = seen[Caller][b]
      /\ seen'[Caller] \in [Called -> DialogRecords]
  BY <1>2 DEF DialogInv, TypeInv
<1>4. TypeInv'
  BY <1>1, <1>2, <1>3 DEF DialogInv, TypeInv
<1>5. \A y \in Ends : PublishedIsTrue(y)' /\ NothingHeld(y)'
  BY <1>1 DEF DialogInv, PublishedIsTrue, NothingHeld
<1>6. NotPlaced'
  BY <1>1, <1>2, <1>3 DEF DialogInv, NotPlaced, NothingHeld
<1>7. PickedOrOver' /\ AllRemoved' /\ CallerInStep'
  BY <1>1 DEF DialogInv, PickedOrOver, AllRemoved, Removable, CallerInStep
<1>8. ASSUME NEW b \in Called PROVE Rings(b)' /\ CalledInStep(b)' /\ RemovedIsDone(b)'
  <2>1. Rings(b)'
    BY <1>1, <1>3 DEF DialogInv, Rings, HasAnswered, PublishedIsTrue, None
  <2>2. CalledInStep(b)'
    BY <1>1, <1>2 DEF DialogInv, CalledInStep, Ongoing
  <2>3. RemovedIsDone(b)'
    BY <1>1, <1>3 DEF DialogInv, RemovedIsDone, Removable
  <2> QED BY <2>1, <2>2, <2>3
<1>9. /\ call'[Caller].state \in CallerStates
      /\ \A b \in Called : call'[b].state \in CalledStates
  BY <1>1 DEF DialogInv
<1> QED BY <1>4, <1>5, <1>6, <1>7, <1>8, <1>9 DEF DialogInv

LEMMA ReplicateToCalledInv ==
  ASSUME DialogInv, NEW e \in Called, Replicate(e, Caller)
  PROVE  DialogInv'
<1> USE TheCalled, NoDialogIs
<1> DEFINE made == published[Caller] # NoDialog /\ e \notin handled
           c == IF made THEN [call[e] EXCEPT !.state = "Preparing"] ELSE call[e]
<1>1. /\ seen[e][Caller] # published[Caller]
      /\ seen' = [seen EXCEPT ![e] = [@ EXCEPT ![Caller] = published[Caller]]]
      /\ wake' = wake \cup {e}
      /\ handled' = IF published[Caller] = NoDialog THEN handled \ {e} ELSE handled \cup {e}
      /\ UNCHANGED <<location, published>>
  BY DEF Replicate, DialogInv, TypeInv
<1>2. call' = [call EXCEPT ![e] = c]
  <2>1. call = [call EXCEPT ![e] = call[e]]
    BY DEF DialogInv, TypeInv
  <2> QED BY <2>1 DEF Replicate, DialogInv, TypeInv
<1>3. /\ c \in CallRecords /\ c.reason = call[e].reason /\ c.picked = call[e].picked
      /\ c.dialog = call[e].dialog /\ c.told = call[e].told
      /\ c.answered = call[e].answered
      /\ made => c.state = "Preparing" /\ call[e].state = None
      /\ ~made => c.state = call[e].state
  <2>1. call[e] \in CallRecords
    BY DEF DialogInv, TypeInv
  <2>2. made => call[e].state = None
    BY DEF DialogInv, Rings
  <2> QED BY <2>1, <2>2, RingingFields
<1> HIDE DEF c
<1>4. call[Caller].state # None
  BY <1>1 DEF DialogInv, NotPlaced, NothingHeld
<1>5. /\ call'[e] = c /\ call'[Caller] = call[Caller]
      /\ \A y \in Ends : y # e => call'[y] = call[y] /\ seen'[y] = seen[y]
      /\ seen'[e] = [seen[e] EXCEPT ![Caller] = published[Caller]]
  BY <1>1, <1>2 DEF DialogInv, TypeInv
<1>6. TypeInv'
  <2>1. seen'[e] \in [OtherEnds(e) -> DialogRecords]
    BY <1>5 DEF DialogInv, TypeInv
  <2> QED BY <1>1, <1>2, <1>3, <1>5, <2>1 DEF DialogInv, TypeInv
<1>7. \A y \in Ends : PublishedIsTrue(y)' /\ NothingHeld(y)'
  BY <1>1, <1>3, <1>5 DEF DialogInv, PublishedIsTrue, NothingHeld, None
<1>8. NotPlaced' /\ PickedOrOver' /\ AllRemoved'
  BY <1>1, <1>3, <1>4, <1>5 DEF DialogInv, NotPlaced, PickedOrOver, AllRemoved, Removable, None
<1>9. ASSUME NEW b \in Called PROVE Rings(b)' /\ CalledInStep(b)' /\ RemovedIsDone(b)'
  <2>1. CASE b = e
    <3>1. b \notin handled' => call[Caller].state = "Closed" /\ published[Caller] = NoDialog
      BY <1>1, <1>4, <2>1 DEF DialogInv, PublishedIsTrue
    <3>2. Rings(b)'
      BY <1>1, <1>3, <1>5, <2>1, <3>1 DEF DialogInv, Rings, HasAnswered, NothingHeld, None
    <3>3. CalledInStep(b)' /\ RemovedIsDone(b)'
      BY <1>1, <1>3, <1>5, <2>1 DEF DialogInv, CalledInStep, RemovedIsDone, Removable
    <3> QED BY <3>2, <3>3
  <2>2. CASE b # e
    <3>1. Rings(b)'
      BY <1>1, <1>5, <2>2 DEF DialogInv, Rings, HasAnswered
    <3>2. CalledInStep(b)' /\ RemovedIsDone(b)'
      BY <1>1, <1>5, <2>2 DEF DialogInv, CalledInStep, RemovedIsDone, Removable, Ongoing
    <3> QED BY <3>1, <3>2
  <2> QED BY <2>1, <2>2
<1>10. CallerInStep'
  <2>1. /\ CallerInStep /\ call'[Caller] = call[Caller] /\ seen'[Caller] = seen[Caller]
        /\ location' = location /\ (Caller \notin wake' => Caller \notin wake)
    BY <1>1, <1>5 DEF DialogInv
  <2> QED BY <2>1, SameCallerInStep
<1>11. /\ call'[Caller].state \in CallerStates
       /\ \A b \in Called : call'[b].state \in CalledStates
  BY <1>3, <1>5 DEF DialogInv, CalledStates
<1> QED BY <1>6, <1>7, <1>8, <1>9, <1>10, <1>11 DEF DialogInv

(* A caller whose step is done lets no location stand that is over.         *)
LEMMA OverIsLetGo ==
  ASSUME DialogInv, Caller \notin wake, NEW b \in Called, Over(seen[Caller][b]),
         call[Caller].state \in {"Preparing", "Placed"}
  PROVE  location[Caller][b] = NoLocation
BY DEF DialogInv, CallerInStep, Ongoing

(* When all is settled and all that were called are over, so is the caller, *)
(* or it has picked one of them: the time since the first was over has      *)
(* passed, as its timer is not running.                                     *)
LEMMA AllOverIsNoticed ==
  ASSUME DialogInv, Settled, NEW b \in Called, published[b] # NoDialog,
         \A x \in Called : call[x].state = "Closed"
  PROVE  call[Caller].state \in {"Open", "Closed"}
<1> SUFFICES ASSUME call[Caller].state \notin {"Open", "Closed"} PROVE FALSE
  OBVIOUS
<1> USE TheCalled, NoDialogIs
<1>1. /\ Caller \notin wake /\ ~call[Caller].timer /\ call[Caller].state # "Closing"
      /\ \A x \in Called : seen[Caller][x] = published[x]
  BY DEF Settled
<1>2. call[Caller].state \in {"Preparing", "Placed"}
  <2>1. call[Caller].state # None
    BY DEF DialogInv, NotPlaced, None
  <2> QED BY <1>1, <2>1 DEF DialogInv, CallerStates
<1>3. call[Caller].picked = None
  BY <1>2 DEF DialogInv, PublishedIsTrue
<1>4. ASSUME NEW x \in Called PROVE location[Caller][x] = NoLocation
  <2>1. CASE published[x] = NoDialog
    BY <1>2, <2>1 DEF DialogInv, RemovedIsDone, Removable
  <2>2. CASE published[x] # NoDialog
    <3>1. published[x].state = "Closed"
      BY <2>2 DEF DialogInv, PublishedIsTrue
    <3>2. Over(seen[Caller][x])
      BY <1>1, <3>1 DEF Over
    <3> QED BY <1>1, <1>2, <3>2, OverIsLetGo
  <2> QED BY <2>1, <2>2
<1>5. b \in OverElsewhere(Caller)
  <2>1. published[b].state = "Closed"
    BY DEF DialogInv, PublishedIsTrue
  <2> QED BY <1>1, <1>3, <1>4, <2>1 DEF OverElsewhere, Replies, Over
<1>6. CallerInStep
  BY DEF DialogInv
<1> QED BY <1>1, <1>2, <1>4, <1>5, <1>6 DEF CallerInStep, Ongoing

LEMMA CleanupInv ==
  ASSUME DialogInv, NEW e \in Ends, Cleanup(e)
  PROVE  DialogInv'
<1> USE TheCalled, NoDialogIs
<1>1. /\ Settled /\ call[e].state = "Closed" /\ published[e] # NoDialog
      /\ published' = [published EXCEPT ![e] = NoDialog]
      /\ UNCHANGED <<call, location, seen, wake, handled>>
  BY DEF Cleanup
<1>2. published'[e] = NoDialog /\ \A y \in Ends : y # e => published'[y] = published[y]
  BY <1>1 DEF DialogInv, TypeInv
<1>3. TypeInv'
  BY <1>1 DEF DialogInv, TypeInv
<1>4. \A y \in Ends : PublishedIsTrue(y)' /\ NothingHeld(y)'
  BY <1>1, <1>2 DEF DialogInv, PublishedIsTrue, NothingHeld, None
<1>5. NotPlaced' /\ PickedOrOver'
  BY <1>1 DEF DialogInv, NotPlaced, PickedOrOver
<1>6. CallerInStep'
  <2>1. /\ CallerInStep /\ call' = call /\ seen' = seen
        /\ location' = location /\ (Caller \notin wake' => Caller \notin wake)
    BY <1>1 DEF DialogInv
  <2> QED BY <2>1, SameCallerInStep
<1>7. AllRemoved'
  <2> SUFFICES ASSUME \A b \in Called : Removable(b)'
               PROVE  call'[Caller].state \in {"Open", "Closing", "Closed"}
    BY DEF AllRemoved
  <2>1. \A b \in Called : call[b].state = "Closed"
    BY <1>1 DEF Removable
  <2>2. CASE e = Caller
    BY <1>1, <2>2
  <2>3. CASE e # Caller
    <3>1. e \in Called
      BY <2>3
    <3>2. call[Caller].state \in {"Open", "Closed"}
      BY <1>1, <2>1, <3>1, AllOverIsNoticed
    <3> QED BY <1>1, <3>2
  <2> QED BY <2>2, <2>3
<1>8. ASSUME NEW b \in Called PROVE Rings(b)' /\ CalledInStep(b)' /\ RemovedIsDone(b)'
  <2>1. Rings(b)'
    BY <1>1, <1>2 DEF DialogInv, Rings, HasAnswered
  <2>2. CalledInStep(b)'
    BY <1>1 DEF DialogInv, CalledInStep, Ongoing
  <2>3. RemovedIsDone(b)'
    <3>1. CASE b # e
      BY <1>1, <1>2, <3>1 DEF DialogInv, RemovedIsDone, Removable
    <3>2. CASE b = e
      <4>1. published[b].state = "Closed" /\ seen[Caller][b] = published[b] /\ Caller \notin wake
        BY <1>1, <3>2 DEF DialogInv, PublishedIsTrue, Settled
      <4>2. Over(seen[Caller][b])
        BY <4>1 DEF Over
      <4> QED BY <1>1, <4>1, <4>2, OverIsLetGo DEF RemovedIsDone
    <3> QED BY <3>1, <3>2
  <2> QED BY <2>1, <2>2, <2>3
<1>9. /\ call'[Caller].state \in CallerStates
      /\ \A b \in Called : call'[b].state \in CalledStates
  BY <1>1 DEF DialogInv
<1> QED BY <1>3, <1>4, <1>5, <1>6, <1>7, <1>8, <1>9 DEF DialogInv

-----------------------------------------------------------------------------
(* step() *)

(* What stepPrepareCallLocations makes of the locations.                    *)
LEMMA PreparedIs ==
  ASSUME DialogInv, NEW e \in Ends
  PROVE  /\ Prepared(e) \in [OtherEnds(e) -> LocationRecords]
         /\ \A x \in OtherEnds(e) :
              LET l == Prepared(e)[x]
              IN  /\ seen[e][x] = NoDialog => l = location[e][x]
                  /\ seen[e][x] # NoDialog /\ l # NoLocation =>
                       /\ l.dialog = seen[e][x]
                       /\ l.state = location[e][x].state \/ l.state = "Pending"
                       /\ call[e].picked \in {None, x}
                       /\ location[e][x] # NoLocation \/ ~Over(seen[e][x])
                  /\ seen[e][x] # NoDialog /\ l = NoLocation /\ call[e].picked = None =>
                       location[e][x] = NoLocation /\ Over(seen[e][x])
                  /\ location[e][x] = NoLocation /\ Over(seen[e][x]) => l = NoLocation
<1> DEFINE l(x) == Prepared(e)[x]
<1>1. /\ DOMAIN Prepared(e) = OtherEnds(e)
      /\ Prepared(e) = [x \in OtherEnds(e) |-> l(x)]
  BY DEF Prepared
<1>2. ASSUME NEW x \in OtherEnds(e)
      PROVE  /\ l(x) \in LocationRecords
             /\ seen[e][x] = NoDialog => l(x) = location[e][x]
             /\ seen[e][x] # NoDialog /\ l(x) # NoLocation =>
                  /\ l(x).dialog = seen[e][x]
                  /\ l(x).state = location[e][x].state \/ l(x).state = "Pending"
                  /\ call[e].picked \in {None, x}
                  /\ location[e][x] # NoLocation \/ ~Over(seen[e][x])
             /\ seen[e][x] # NoDialog /\ l(x) = NoLocation /\ call[e].picked = None =>
                  location[e][x] = NoLocation /\ Over(seen[e][x])
             /\ location[e][x] = NoLocation /\ Over(seen[e][x]) => l(x) = NoLocation
  <2> DEFINE kept == [location[e][x] EXCEPT !.dialog = seen[e][x]]
             new == [state |-> "Pending", dialog |-> seen[e][x]]
  <2>1. /\ location[e][x] \in LocationRecords /\ seen[e][x] \in DialogRecords
    BY DEF DialogInv, TypeInv
  <2>2. /\ kept \in LocationRecords /\ kept.state = location[e][x].state
        /\ kept.dialog = seen[e][x]
    BY <2>1 DEF LocationRecords
  <2>3. /\ new \in LocationRecords /\ new.state = "Pending" /\ new.dialog = seen[e][x]
        /\ new # NoLocation
    BY <2>1, NoDialogIs DEF LocationRecords, None
  <2>4. l(x) = IF seen[e][x] = NoDialog THEN location[e][x]
               ELSE IF location[e][x] # NoLocation
               THEN IF call[e].picked \notin {None, x} THEN NoLocation ELSE kept
               ELSE IF call[e].picked = None /\ ~Over(seen[e][x]) THEN new
               ELSE NoLocation
    BY DEF Prepared, Replies
  <2>5. kept # NoLocation \/ seen[e][x] = NoDialog
    BY <2>2, NoDialogIs
  <2> HIDE DEF kept, new
  <2> QED BY <2>1, <2>2, <2>3, <2>4, <2>5, NoDialogIs
<1> HIDE DEF l
<1> QED BY <1>1, <1>2 DEF l

LEMMA StepOverInv ==
  ASSUME DialogInv, NEW e \in Ends, call[e].state \in {None, "Closed"},
         wake' = wake \ {e}, UNCHANGED <<call, location, published, seen, handled>>
  PROVE  DialogInv'
<1> USE TheCalled, NoDialogIs
<1>1. TypeInv'
  BY DEF DialogInv, TypeInv
<1>2. \A y \in Ends : PublishedIsTrue(y)' /\ NothingHeld(y)'
  BY DEF DialogInv, PublishedIsTrue, NothingHeld
<1>3. NotPlaced' /\ PickedOrOver' /\ AllRemoved'
  BY DEF DialogInv, NotPlaced, PickedOrOver, AllRemoved, Removable
<1>4. ASSUME NEW b \in Called PROVE Rings(b)' /\ CalledInStep(b)' /\ RemovedIsDone(b)'
  BY DEF DialogInv, Rings, HasAnswered, CalledInStep, RemovedIsDone, Removable, Ongoing, None
<1>5. CallerInStep'
  <2>1. CASE e = Caller
    BY <2>1 DEF CallerInStep, Ongoing, None
  <2>2. CASE e # Caller
    <3>1. /\ CallerInStep /\ call' = call /\ seen' = seen
          /\ location' = location /\ (Caller \notin wake' => Caller \notin wake)
      BY <2>2 DEF DialogInv
    <3> QED BY <3>1, SameCallerInStep
  <2> QED BY <2>1, <2>2
<1>6. /\ call'[Caller].state \in CallerStates
      /\ \A b \in Called : call'[b].state \in CalledStates
  BY DEF DialogInv
<1> QED BY <1>1, <1>2, <1>3, <1>4, <1>5, <1>6 DEF DialogInv

LEMMA ReasonToCloseIs ==
  ASSUME DialogInv, NEW e \in Ends
  PROVE  ReasonToClose(e) \in ClosedReasons
<1> DEFINE c == call[e]
           reasons == IF c.picked # None /\ c.picked \in Replies(e)
                      THEN {seen[e][c.picked].reason} ELSE ReasonsElsewhere(e)
<1>1. \A x \in OtherEnds(e) : seen[e][x].reason \in ClosedReasons
  BY DEF DialogInv, TypeInv, DialogRecords
<1>2. reasons \subseteq ClosedReasons
  BY <1>1 DEF Replies, ReasonsElsewhere, OverElsewhere
<1>3. ReasonToClose(e) = IF reasons \ {None} = {} THEN "User"
                         ELSE IF "Decline" \in reasons THEN "Decline"
                         ELSE CHOOSE r \in reasons \ {None} : TRUE
  BY DEF ReasonToClose
<1> HIDE DEF reasons
<1>4. reasons \ {None} # {} => (CHOOSE r \in reasons \ {None} : TRUE) \in reasons
  OBVIOUS
<1> QED BY <1>2, <1>3, <1>4 DEF ClosedReasons

LEMMA StepClosesInv ==
  ASSUME DialogInv, NEW e \in Ends, Ongoing(e), wake' = wake \ {e},
         LET c == Cancelled([call[e] EXCEPT !.dialog = TRUE], ReasonToClose(e))
         IN  call' = [call EXCEPT ![e] = c] /\ Publish(e, c),
         UNCHANGED <<location, seen, handled>>
  PROVE  DialogInv'
<1> DEFINE c == Cancelled([call[e] EXCEPT !.dialog = TRUE], ReasonToClose(e))
<1>1. c \in CallRecords /\ c.state = "Closing" /\ c.picked = call[e].picked /\ c.dialog
  <2>1. call[e] \in CallRecords /\ ReasonToClose(e) \in ClosedReasons
    BY ReasonToCloseIs DEF DialogInv, TypeInv
  <2> QED BY <2>1, CancelledFields
<1>2. call' = [call EXCEPT ![e] = c] /\ Publish(e, c)
  OBVIOUS
<1> HIDE DEF c
<1> QED BY <1>1, <1>2, CancelledInv

LEMMA StepOfCalledInv ==
  ASSUME DialogInv, NEW e \in Called, Ongoing(e), ~MustClose(e, Prepared(e)), Step(e)
  PROVE  DialogInv'
<1> USE TheCalled, NoDialogIs
<1> DEFINE known == Prepared(e)
           c == StepOfCalled(Timed(e, call[e], known), known)
           after == [x \in OtherEnds(e) |-> IF x \in {} THEN NoLocation ELSE known[x]]
<1>1. /\ call' = [call EXCEPT ![e] = c] /\ Publish(e, c)
      /\ location' = [location EXCEPT ![e] = after]
      /\ wake' = wake \ {e}
      /\ UNCHANGED <<seen, handled>>
  BY DEF Step, Ongoing, None
<1>2. /\ c \in CallRecords /\ c.reason = call[e].reason /\ c.picked = Caller
      /\ c.dialog /\ c.told /\ c.answered = call[e].answered
      /\ c.state = call[e].state \/ c.state = IF call[e].answered THEN "Open" ELSE "Incoming"
  <2>1. call[e] \in CallRecords
    BY DEF DialogInv, TypeInv
  <2>2. Timed(e, call[e], known) = call[e]
    BY <2>1, TimedFields
  <2> QED BY <2>1, <2>2, SteppedCalledFields
<1>3. known \in [OtherEnds(e) -> LocationRecords]
  BY PreparedIs
<1>4. /\ after \in [OtherEnds(e) -> LocationRecords] /\ after[Caller] = known[Caller]
  BY <1>3
<1>5. /\ seen[e][Caller] = NoDialog => known[Caller] = location[e][Caller]
      /\ seen[e][Caller] # NoDialog /\ known[Caller] # NoLocation =>
           /\ known[Caller].dialog = seen[e][Caller]
           /\ location[e][Caller] # NoLocation \/ ~Over(seen[e][Caller])
  BY PreparedIs
<1>6. /\ call[e].reason = None /\ known[Caller] # NoLocation
      /\ call[e].picked # None => seen[e][call[e].picked] # NoDialog /\ ~Over(seen[e][call[e].picked])
      /\ known[Caller].dialog.callee \in {None, e}
  BY DEF MustClose, LockedElsewhere, Replies, DialogInv, TypeInv
<1> HIDE DEF known, c, after
<1>7. /\ seen[e][Caller] # NoDialog /\ ~Over(seen[e][Caller])
      /\ seen[e][Caller].callee \in {None, e}
  <2>1. call[e].picked \in {None, Caller}
    BY DEF DialogInv, TypeInv
  <2>2. CASE call[e].picked = Caller
    BY <1>5, <1>6, <2>2
  <2>3. CASE call[e].picked = None
    <3>1. location[e][Caller] = NoLocation
      BY <1>6, <2>3 DEF DialogInv, Rings, Ongoing
    <3> QED BY <1>5, <1>6, <3>1
  <2> QED BY <2>1, <2>2, <2>3
<1>8. PICK d \in DialogRecords :
        /\ published' = [published EXCEPT ![e] = d]
        /\ d.state = c.state /\ d # NoDialog
  <2>1. /\ TypeInv /\ e \in Ends /\ c \in CallRecords /\ Publish(e, c)
        /\ c.state # None /\ c.picked \in Ends \cup {None}
    BY <1>1, <1>2 DEF DialogInv, Ongoing, None
  <2>2. PICK d \in DialogRecords :
           /\ published' = [published EXCEPT ![e] = d]
           /\ c.dialog /\ (c.state # call[e].state \/ c.told # call[e].told) =>
                /\ d.state = c.state /\ d # NoDialog
                /\ d.state = "Closed" => d.reason = c.reason
                /\ e = Caller => d.callee = c.picked
           /\ ~(c.dialog /\ (c.state # call[e].state \/ c.told # call[e].told)) =>
                d = published[e]
    BY ONLY <2>1, PublishIs
  <2>3. CASE c.state # call[e].state \/ c.told # call[e].told
    BY <1>2, <2>2, <2>3
  <2>4. CASE c.state = call[e].state /\ c.told = call[e].told
    <3>1. d = published[e] /\ call[e].told
      BY <1>2, <2>2, <2>4
    <3>2. published[e] # NoDialog /\ published[e].state = call[e].state
      BY <3>1 DEF DialogInv, PublishedIsTrue, Ongoing, None
    <3> QED BY <2>2, <2>4, <3>1, <3>2
  <2> QED BY <2>3, <2>4
<1>9. /\ call'[e] = c /\ published'[e] = d /\ location'[e] = after
      /\ \A y \in Ends : y # e => /\ call'[y] = call[y] /\ published'[y] = published[y]
                                  /\ location'[y] = location[y]
  BY <1>1, <1>8 DEF DialogInv, TypeInv
<1>10. c.state \in {"Preparing", "Incoming", "Open"}
  BY <1>2 DEF DialogInv, CalledStates, Ongoing, None
<1>11. TypeInv'
  BY <1>1, <1>2, <1>4, <1>8, <1>9 DEF DialogInv, TypeInv
<1>12. \A y \in Ends : PublishedIsTrue(y)' /\ NothingHeld(y)'
  BY <1>2, <1>8, <1>9, <1>10 DEF DialogInv, PublishedIsTrue, NothingHeld, None
<1>13. NotPlaced' /\ PickedOrOver' /\ AllRemoved'
  BY <1>1, <1>9, <1>10 DEF DialogInv, NotPlaced, PickedOrOver, AllRemoved, Removable,
       Ongoing, None
<1>14. ASSUME NEW b \in Called PROVE Rings(b)' /\ CalledInStep(b)' /\ RemovedIsDone(b)'
  <2>1. Rings(b)'
    BY <1>1, <1>2, <1>9, <1>10 DEF DialogInv, Rings, HasAnswered, Ongoing, None
  <2>2. CalledInStep(b)'
    BY <1>1, <1>7, <1>9 DEF DialogInv, CalledInStep, Ongoing
  <2>3. RemovedIsDone(b)'
    BY <1>1, <1>8, <1>9, <1>10 DEF DialogInv, RemovedIsDone, Removable
  <2> QED BY <2>1, <2>2, <2>3
<1>15. CallerInStep'
  <2>1. /\ CallerInStep /\ call'[Caller] = call[Caller] /\ seen' = seen
        /\ location'[Caller] = location[Caller] /\ (Caller \notin wake' => Caller \notin wake)
    BY <1>1, <1>9 DEF DialogInv
  <2> QED BY <2>1, SameCallerInStep
<1>16. /\ call'[Caller].state \in CallerStates
       /\ \A b \in Called : call'[b].state \in CalledStates
  BY <1>9, <1>10 DEF DialogInv, CalledStates
<1> QED BY <1>11, <1>12, <1>13, <1>14, <1>15, <1>16 DEF DialogInv

(* What the caller makes of its call: it picks the first that answered, and *)
(* is open once it has picked.                                              *)
LEMMA SteppedCallerFields ==
  ASSUME NEW c \in CallRecords, NEW known
  PROVE  LET u == StepOfCaller(c, known)
             p == IF c.picked = None /\ FirstAnswered(known) # 0
                  THEN Callees[FirstAnswered(known)] ELSE c.picked
         IN  /\ u \in CallRecords /\ u.reason = c.reason /\ u.picked = p
             /\ u.dialog = c.dialog /\ u.told = c.told /\ u.timer = c.timer
             /\ p # None => u.state = "Open"
             /\ p = None => u.state \in {"Placed", c.state}
<1> DEFINE i == FirstAnswered(known)
           p == IF c.picked = None /\ i # 0 THEN Callees[i] ELSE c.picked
           picked == IF c.picked = None /\ i # 0 THEN [c EXCEPT !.picked = Callees[i]] ELSE c
           s == StateOfCaller(known, picked)
<1>1. p \in Ends \cup {None} /\ c.state \in CallStates
  BY FirstAnsweredIs, CallFields, TheCalled
<1>2. picked.picked = p /\ picked.state = c.state
  BY DEF CallRecords
<1>3. /\ p # None => s = "Open"
      /\ p = None => s \in {"Placed", c.state}
  BY <1>2 DEF StateOfCaller
<1>4. s \in CallStates
  BY <1>1, <1>3 DEF CallStates
<1>5. StepOfCaller(c, known) = [picked EXCEPT !.state = s]
  BY DEF StepOfCaller
<1>6. CASE c.picked = None /\ i # 0
  <2>1. StepOfCaller(c, known) = [[c EXCEPT !.picked = p] EXCEPT !.state = s]
    BY <1>5, <1>6
  <2> HIDE DEF p, s, picked
  <2>2. LET u == [[c EXCEPT !.picked = p] EXCEPT !.state = s]
        IN  /\ u \in CallRecords /\ u.state = s /\ u.reason = c.reason
            /\ u.picked = p /\ u.dialog = c.dialog /\ u.told = c.told
            /\ u.timer = c.timer
    BY <1>1, <1>4 DEF CallRecords
  <2>3. /\ StepOfCaller(c, known) \in CallRecords /\ StepOfCaller(c, known).state = s
        /\ StepOfCaller(c, known).reason = c.reason /\ StepOfCaller(c, known).picked = p
        /\ StepOfCaller(c, known).dialog = c.dialog /\ StepOfCaller(c, known).told = c.told
        /\ StepOfCaller(c, known).timer = c.timer
    BY <2>1, <2>2
  <2> QED BY <1>3, <2>3 DEF p
<1>7. CASE ~(c.picked = None /\ i # 0)
  <2>1. StepOfCaller(c, known) = [c EXCEPT !.state = s] /\ p = c.picked
    BY <1>5, <1>7
  <2> HIDE DEF p, s, picked
  <2>2. LET v == [c EXCEPT !.state = s]
        IN  /\ v \in CallRecords /\ v.state = s /\ v.reason = c.reason
            /\ v.picked = c.picked /\ v.dialog = c.dialog /\ v.told = c.told
            /\ v.timer = c.timer
    BY <1>1, <1>4 DEF CallRecords
  <2>3. /\ StepOfCaller(c, known) \in CallRecords /\ StepOfCaller(c, known).state = s
        /\ StepOfCaller(c, known).reason = c.reason /\ StepOfCaller(c, known).picked = p
        /\ StepOfCaller(c, known).dialog = c.dialog /\ StepOfCaller(c, known).told = c.told
        /\ StepOfCaller(c, known).timer = c.timer
    BY <2>1, <2>2
  <2> QED BY <1>3, <2>3 DEF p
<1> QED BY <1>6, <1>7

LEMMA StepOfCallerInv ==
  ASSUME DialogInv, Ongoing(Caller), ~MustClose(Caller, Prepared(Caller)), Step(Caller)
  PROVE  DialogInv'
<1> USE TheCalled, NoDialogIs
<1> DEFINE known == Prepared(Caller)
           t == Timed(Caller, call[Caller], known)
           c == StepOfCaller(t, known)
           removed == IF t.picked = None THEN Removed(known) ELSE {}
           again == removed # {} \/ c.picked # t.picked
           after == [x \in Called |-> IF x \in removed THEN NoLocation ELSE known[x]]
<1>1. /\ call' = [call EXCEPT ![Caller] = c] /\ Publish(Caller, c)
      /\ location' = [location EXCEPT ![Caller] = after]
      /\ Caller \in wake /\ wake' = IF again THEN wake ELSE wake \ {Caller}
      /\ UNCHANGED <<seen, handled>>
  BY DEF Step, Ongoing, None
<1>2. /\ t \in CallRecords /\ t.state = call[Caller].state
      /\ t.reason = call[Caller].reason /\ t.picked = call[Caller].picked
      /\ t.dialog = call[Caller].dialog /\ t.told = call[Caller].told
      /\ call[Caller].picked = None /\ OverElsewhere(Caller) # {} /\
         (\A x \in Called : known[x] = NoLocation) => t.timer
  <2>1. call[Caller] \in CallRecords
    BY DEF DialogInv, TypeInv
  <2> HIDE DEF known
  <2> QED BY <2>1, TimedFields
<1>3. /\ c \in CallRecords /\ c.reason = t.reason
      /\ c.picked = IF t.picked = None /\ FirstAnswered(known) # 0
                    THEN Callees[FirstAnswered(known)] ELSE t.picked
      /\ c.dialog = t.dialog /\ c.told = t.told /\ c.timer = t.timer
      /\ c.picked # None => c.state = "Open"
      /\ c.picked = None => c.state \in {"Placed", t.state}
  <2> HIDE DEF known, t
  <2> QED BY <1>2, SteppedCallerFields
<1>4. known \in [Called -> LocationRecords]
  BY PreparedIs
<1>5. ASSUME NEW x \in Called
      PROVE  /\ seen[Caller][x] = NoDialog => known[x] = location[Caller][x]
             /\ seen[Caller][x] # NoDialog /\ known[x] # NoLocation =>
                  known[x].dialog = seen[Caller][x]
             /\ seen[Caller][x] # NoDialog /\ known[x] = NoLocation
                /\ call[Caller].picked = None => location[Caller][x] = NoLocation
             /\ location[Caller][x] = NoLocation /\ Over(seen[Caller][x]) => known[x] = NoLocation
  BY PreparedIs
<1>6. /\ call[Caller].reason = None
      /\ call[Caller].picked # None => /\ seen[Caller][call[Caller].picked] # NoDialog
                                       /\ ~Over(seen[Caller][call[Caller].picked])
      /\ "Decline" \notin ReasonsElsewhere(Caller)
  BY DEF MustClose, Replies
<1> HIDE DEF known, t, c
<1>7. /\ FirstAnswered(known) = 0 => \A b \in Called : ~Answered(known[b])
      /\ FirstAnswered(known) # 0 => /\ Callees[FirstAnswered(known)] \in Called
                                     /\ Answered(known[Callees[FirstAnswered(known)]])
  BY FirstAnsweredIs
<1>8. /\ call[Caller].state \in {"Preparing", "Placed", "Open"} /\ call[Caller].dialog
      /\ call[Caller].picked \in Called \cup {None}
      /\ call[Caller].state = "Open" <=> call[Caller].picked # None
  BY <1>6 DEF DialogInv, TypeInv, CallerStates, Ongoing, PickedOrOver, PublishedIsTrue, None
<1>9. /\ c.picked \in Called \cup {None}
      /\ c.picked # None => c.state = "Open"
      /\ c.picked = None => /\ c.state \in {"Preparing", "Placed"}
                            /\ call[Caller].picked = None /\ FirstAnswered(known) = 0
                            /\ call[Caller].state \in {"Preparing", "Placed"}
      /\ call[Caller].picked # None => c.picked = call[Caller].picked
  BY <1>2, <1>3, <1>7, <1>8
<1>10. PICK d \in DialogRecords :
         /\ published' = [published EXCEPT ![Caller] = d]
         /\ d.state = c.state /\ d # NoDialog
         /\ c.picked # None => d.callee = c.picked
  <2>1. /\ TypeInv /\ Caller \in Ends /\ c \in CallRecords /\ Publish(Caller, c)
        /\ c.state # None /\ c.picked \in Ends \cup {None}
    BY <1>1, <1>3, <1>9 DEF DialogInv, None
  <2>2. PICK d \in DialogRecords :
           /\ published' = [published EXCEPT ![Caller] = d]
           /\ c.dialog /\ (c.state # call[Caller].state \/ c.told # call[Caller].told) =>
                /\ d.state = c.state /\ d # NoDialog
                /\ d.state = "Closed" => d.reason = c.reason
                /\ Caller = Caller => d.callee = c.picked
           /\ ~(c.dialog /\ (c.state # call[Caller].state \/ c.told # call[Caller].told)) =>
                d = published[Caller]
    BY ONLY <2>1, PublishIs
  <2>3. CASE c.state # call[Caller].state
    BY <1>2, <1>3, <1>8, <2>2, <2>3
  <2>4. CASE c.state = call[Caller].state
    <3>1. d = published[Caller]
      BY <1>2, <1>3, <2>2, <2>4
    <3>2. /\ published[Caller] # NoDialog /\ published[Caller].state = call[Caller].state
          /\ call[Caller].picked # None => published[Caller].callee = call[Caller].picked
      BY <1>8 DEF DialogInv, PublishedIsTrue, None
    <3>3. c.picked # None => c.picked = call[Caller].picked
      BY <1>8, <1>9, <2>4
    <3> QED BY <2>2, <2>4, <3>1, <3>2, <3>3
  <2> QED BY <2>3, <2>4
<1>11. /\ call'[Caller] = c /\ published'[Caller] = d /\ location'[Caller] = after
       /\ \A b \in Called : /\ call'[b] = call[b] /\ published'[b] = published[b]
                            /\ location'[b] = location[b]
  BY <1>1, <1>10 DEF DialogInv, TypeInv
<1>12. /\ after \in [Called -> LocationRecords]
       /\ \A x \in Called : after[x] \in {NoLocation, known[x]}
       /\ removed = {} => after = known
  BY <1>4
<1> HIDE DEF after
<1>13. TypeInv'
  BY <1>1, <1>3, <1>9, <1>10, <1>11, <1>12 DEF DialogInv, TypeInv
<1>14. \A y \in Ends : PublishedIsTrue(y)' /\ NothingHeld(y)'
  <2>1. PublishedIsTrue(Caller)' /\ NothingHeld(Caller)'
    BY <1>2, <1>3, <1>8, <1>9, <1>10, <1>11 DEF PublishedIsTrue, NothingHeld, None
  <2>2. \A b \in Called : PublishedIsTrue(b)' /\ NothingHeld(b)'
    BY <1>11 DEF DialogInv, PublishedIsTrue, NothingHeld
  <2> QED BY <2>1, <2>2
<1>15. NotPlaced' /\ PickedOrOver' /\ AllRemoved'
  <2>1. NotPlaced' /\ PickedOrOver'
    BY <1>9, <1>11 DEF NotPlaced, PickedOrOver, None
  <2>2. AllRemoved'
    BY <1>8, <1>9, <1>11 DEF DialogInv, AllRemoved, Removable
  <2> QED BY <2>1, <2>2
<1>16. ASSUME NEW b \in Called PROVE Rings(b)' /\ CalledInStep(b)' /\ RemovedIsDone(b)'
  <2>1. location'[Caller][b].dialog.state = "Open" =>
          seen[Caller][b].state = "Open" \/ location[Caller][b].dialog.state = "Open"
    BY <1>5, <1>11, <1>12 DEF None
  <2>2. c.picked = b => \/ call[Caller].picked = b \/ seen[Caller][b].state = "Open"
                        \/ location[Caller][b].dialog.state = "Open"
    BY <1>2, <1>3, <1>5, <1>7 DEF Answered, None
  <2>3. Rings(b)'
    <3>1. Rings(b) /\ call'[b] = call[b] /\ seen' = seen /\ handled' = handled
          /\ location'[b] = location[b] /\ call'[Caller] = c
      BY <1>1, <1>11 DEF DialogInv
    <3>2. b \in handled \/ call[b].state = None
      BY <1>8, <3>1 DEF Rings
    <3> QED BY <2>1, <2>2, <3>1, <3>2 DEF Rings, HasAnswered
  <2>4. CalledInStep(b)'
    <3>1. /\ CalledInStep(b) /\ call'[b].state = call[b].state /\ seen'[b] = seen[b]
          /\ (b \notin wake' => b \notin wake)
      BY <1>1, <1>11 DEF DialogInv
    <3> QED BY <3>1, SameInStep
  <2>5. RemovedIsDone(b)'
    BY <1>1, <1>5, <1>8, <1>9, <1>11, <1>12 DEF DialogInv, RemovedIsDone, Removable
  <2> QED BY <2>3, <2>4, <2>5
<1>17. CallerInStep'
  <2> SUFFICES ASSUME Caller \notin wake' PROVE CallerInStep'
    BY DEF CallerInStep
  <2>1. removed = {} /\ c.picked = call[Caller].picked
    BY <1>1, <1>2
  <2>2. location'[Caller] = known
    BY <1>11, <1>12, <2>1
  <2>3. CASE c.state = "Open"
    BY <1>1, <1>6, <1>9, <1>11, <2>1, <2>3 DEF CallerInStep
  <2>4. CASE c.state # "Open"
    <3>1. /\ c.picked = None /\ call[Caller].picked = None
          /\ FirstAnswered(known) = 0 /\ Removed(known) = {}
      BY <1>2, <1>9, <2>1, <2>4
    <3>2. \A b \in Called : known[b] # NoLocation => ~Over(known[b].dialog)
      BY <3>1, NothingRemoved
    <3>3. \A b \in Called : known[b] # NoLocation =>
            ~Over(seen[Caller][b]) /\ ~(known[b].state = "Ready" /\ seen[Caller][b].state = "Open")
      BY <1>5, <1>7, <3>1, <3>2 DEF Answered, None
    <3>4. \A b \in Replies(Caller) : Over(seen[Caller][b]) =>
            (known[b] = NoLocation <=> location[Caller][b] = NoLocation)
      BY <1>5, <3>1 DEF Replies
    <3>5. Replies(Caller)' = Replies(Caller)
      BY <1>1 DEF Replies
    <3>6. OverElsewhere(Caller)' = OverElsewhere(Caller)
      BY <1>1, <1>11, <2>2, <3>1, <3>4, <3>5 DEF OverElsewhere
    <3>7. ReasonsElsewhere(Caller)' = ReasonsElsewhere(Caller)
      BY <1>1, <3>6 DEF ReasonsElsewhere
    <3>8. OverElsewhere(Caller) # {} /\ (\A b \in Called : known[b] = NoLocation) => c.timer
      BY <1>2, <1>3, <3>1
    <3> QED BY <1>1, <1>6, <1>11, <2>2, <2>4, <3>3, <3>6, <3>7, <3>8 DEF CallerInStep
  <2> QED BY <2>3, <2>4
<1>18. /\ call'[Caller].state \in CallerStates
       /\ \A b \in Called : call'[b].state \in CalledStates
  BY <1>9, <1>11 DEF DialogInv, CallerStates
<1> QED BY <1>13, <1>14, <1>15, <1>16, <1>17, <1>18 DEF DialogInv

LEMMA StepInv ==
  ASSUME DialogInv, NEW e \in Ends, Step(e)
  PROVE  DialogInv'
<1>1. call[e].state # "Closing" /\ UNCHANGED <<seen, handled>>
  BY DEF Step
<1>2. call[e].state \in {None, "Closed"} \/ Ongoing(e)
  BY <1>1, TheCalled DEF DialogInv, Ongoing, CallerStates, CalledStates
<1>3. CASE call[e].state \in {None, "Closed"}
  <2>1. wake' = wake \ {e} /\ UNCHANGED <<call, location, published>>
    BY <1>3 DEF Step
  <2> QED BY <1>1, <1>3, <2>1, StepOverInv
<1>4. CASE Ongoing(e) /\ MustClose(e, Prepared(e))
  <2>1. call[e].state \notin {None, "Closed"}
    BY <1>4 DEF Ongoing, None
  <2>2. /\ wake' = wake \ {e} /\ UNCHANGED location
        /\ LET c == Cancelled([call[e] EXCEPT !.dialog = TRUE], ReasonToClose(e))
           IN  call' = [call EXCEPT ![e] = c] /\ Publish(e, c)
    BY <1>4, <2>1 DEF Step
  <2> QED BY <1>1, <1>4, <2>2, StepClosesInv
<1>5. CASE Ongoing(e) /\ ~MustClose(e, Prepared(e))
  <2>1. CASE e = Caller
    BY <1>5, <2>1, StepOfCallerInv
  <2>2. CASE e \in Called
    BY <1>5, <2>2, StepOfCalledInv
  <2> QED BY <2>1, <2>2, TheCalled
<1> QED BY <1>2, <1>3, <1>4, <1>5

-----------------------------------------------------------------------------
(* The invariant, and what follows from it. *)

LEMMA DialogInvInit ==
  ASSUME DialogInit
  PROVE  DialogInv
<1> USE TheCalled, NoDialogIs
<1> DEFINE c == [state |-> None, reason |-> None, picked |-> None, dialog |-> FALSE,
                 told |-> FALSE, answered |-> FALSE, closedTime |-> "never", timer |-> FALSE]
<1>1. /\ c \in CallRecords /\ c.state = None /\ c.reason = None /\ c.picked = None
      /\ ~c.told
  BY DEF CallRecords, CallStates, ClosedReasons
<1>2. /\ call = [e \in Ends |-> c]
      /\ location = [e \in Ends |-> [x \in OtherEnds(e) |-> NoLocation]]
      /\ published = [e \in Ends |-> NoDialog]
      /\ seen = [e \in Ends |-> [x \in OtherEnds(e) |-> NoDialog]]
      /\ wake = {} /\ handled = {}
  BY DEF DialogInit
<1> HIDE DEF c
<1>3. TypeInv
  BY <1>1, <1>2 DEF TypeInv
<1>4. \A e \in Ends : PublishedIsTrue(e) /\ NothingHeld(e)
  BY <1>1, <1>2 DEF PublishedIsTrue, NothingHeld, None
<1>5. NotPlaced /\ PickedOrOver /\ CallerInStep /\ AllRemoved
  BY <1>1, <1>2 DEF NotPlaced, PickedOrOver, CallerInStep, AllRemoved, Removable, Ongoing, None
<1>6. \A b \in Called : Rings(b) /\ CalledInStep(b) /\ RemovedIsDone(b)
  BY <1>1, <1>2 DEF Rings, HasAnswered, CalledInStep, RemovedIsDone, Removable, Ongoing, None
<1>7. /\ call[Caller].state \in CallerStates
      /\ \A b \in Called : call[b].state \in CalledStates
  BY <1>1, <1>2 DEF CallerStates, CalledStates
<1> QED BY <1>3, <1>4, <1>5, <1>6, <1>7 DEF DialogInv

LEMMA DialogInvStep ==
  ASSUME DialogInv, [DialogNext]_dialogVars
  PROVE  DialogInv'
<1>1. CASE PlaceCall
  BY <1>1, PlaceCallInv
<1>2. CASE TimePasses
  BY <1>2, TimePassesInv
<1>3. ASSUME NEW e \in Ends, Answer(e) PROVE DialogInv'
  BY <1>3, AnswerInv
<1>4. ASSUME NEW e \in Ends, Step(e) PROVE DialogInv'
  BY <1>4, StepInv
<1>5. ASSUME NEW e \in Ends, CancelCloses(e) PROVE DialogInv'
  BY <1>5, CancelClosesInv
<1>6. ASSUME NEW e \in Ends, Cleanup(e) PROVE DialogInv'
  BY <1>6, CleanupInv
<1>7. ASSUME NEW e \in Ends, NEW reason \in Reasons(e), Hangup(e, reason) PROVE DialogInv'
  BY <1>7, HangupInv
<1>8. ASSUME NEW e \in Ends, NEW x \in OtherEnds(e), LocationReady(e, x) PROVE DialogInv'
  BY <1>8, LocationReadyInv
<1>9. ASSUME NEW e \in Ends, NEW x \in OtherEnds(e), LocationFails(e, x) PROVE DialogInv'
  BY <1>9, LocationFailsInv
<1>10. ASSUME NEW e \in Ends, NEW x \in OtherEnds(e), Replicate(e, x) PROVE DialogInv'
  <2>1. CASE e = Caller
    BY <1>10, <2>1, TheCalled, ReplicateToCallerInv
  <2>2. CASE e \in Called
    <3>1. x = Caller
      BY <2>2, TheCalled
    <3> QED BY <1>10, <2>2, <3>1, ReplicateToCalledInv
  <2> QED BY <2>1, <2>2, TheCalled
<1>11. CASE UNCHANGED dialogVars
  <2>1. UNCHANGED <<call, location, published, seen, wake, handled>>
    BY <1>11 DEF dialogVars
  <2> QED BY <2>1 DEF DialogInv, TypeInv, PublishedIsTrue, NothingHeld, NotPlaced,
            PickedOrOver, Rings, HasAnswered, CalledInStep, CallerInStep, RemovedIsDone,
            AllRemoved, Removable, Ongoing, ReasonsElsewhere, OverElsewhere, Replies
<1> QED BY <1>1, <1>2, <1>3, <1>4, <1>5, <1>6, <1>7, <1>8, <1>9, <1>10, <1>11 DEF DialogNext

LEMMA DialogInvAlways == DialogSpec => []DialogInv
BY DialogInvInit, DialogInvStep, PTL DEF DialogSpec

LEMMA TypeOKFollows ==
  ASSUME DialogInv
  PROVE  DialogTypeOK
<1> SUFFICES ASSUME NEW e \in Ends
    PROVE  /\ call[e] \in CallRecords
           /\ call[e].picked \in OtherEnds(e) \cup {None}
           /\ call[e].state = "Closed" =>
                call[e].picked = None /\ \A x \in OtherEnds(e) : location[e][x] = NoLocation
           /\ \A x \in OtherEnds(e) :
                /\ location[e][x].state \in {None, "Pending", "Ready"}
                /\ location[e][x].state # None => call[e].state # None
  BY CallFields DEF DialogInv, TypeInv, DialogTypeOK, CallStates, ClosedReasons
<1>1. ASSUME NEW x \in OtherEnds(e)
      PROVE  /\ location[e][x].state \in {None, "Pending", "Ready"}
             /\ location[e][x].state # None => call[e].state # None
  <2>1. location[e][x] \in LocationRecords
    BY DEF DialogInv, TypeInv
  <2> QED BY <2>1, NoDialogIs DEF DialogInv, NothingHeld, LocationRecords
<1> QED BY <1>1 DEF DialogInv, TypeInv, NothingHeld

LEMMA AgreedFollows ==
  ASSUME DialogInv
  PROVE  CallAgreed
<1> SUFFICES ASSUME Settled
    PROVE  /\ \A b \in Called : IsOpen(b) =>
                call[Caller].picked = b
                \/ (call[Caller].picked = None /\ location[Caller][b].state # "Ready"
                    /\ ~IsOver(Caller))
           /\ IsOpen(Caller) => IsOpen(call[Caller].picked)
           /\ IsOver(Caller) => \A b \in Called : call[b].state \in {None, "Closed"}
           /\ (\/ \A b \in Called : IsOver(b)
               \/ \E b \in Called : /\ IsOver(b) /\ call[b].reason = "Decline"
                                    /\ published[b] # NoDialog) =>
                IsOpen(Caller) \/ IsOver(Caller)
  BY DEF CallAgreed
<1> USE TheCalled, NoDialogIs
<1>1. /\ wake = {} /\ \A e \in Ends : call[e].state # "Closing"
      /\ \A b \in Called : seen[Caller][b] = published[b] /\ seen[b][Caller] = published[Caller]
  BY DEF Settled
<1>2. ASSUME NEW b \in Called, Ongoing(b)
      PROVE  /\ published[Caller] # NoDialog /\ ~Over(published[Caller])
             /\ published[Caller].callee \in {None, b}
             /\ Ongoing(Caller)
  <2>1. /\ published[Caller] # NoDialog /\ ~Over(published[Caller])
        /\ published[Caller].callee \in {None, b}
    BY <1>1, <1>2 DEF DialogInv, CalledInStep
  <2>2. published[Caller].state = call[Caller].state /\ call[Caller].state # None
    BY <2>1 DEF DialogInv, PublishedIsTrue
  <2>3. Ongoing(Caller)
    BY <2>1, <2>2 DEF DialogInv, CallerStates, Ongoing, Over
  <2> QED BY <2>1, <2>3
<1>3. ASSUME NEW b \in Called, IsOpen(b)
      PROVE  \/ call[Caller].picked = b
             \/ /\ call[Caller].picked = None /\ location[Caller][b].state # "Ready"
                /\ ~IsOver(Caller)
  <2>1. /\ Ongoing(Caller) /\ published[Caller] # NoDialog
        /\ published[Caller].callee \in {None, b}
    BY <1>2, <1>3 DEF IsOpen, Ongoing
  <2>2. CASE call[Caller].picked # None
    BY <2>1, <2>2 DEF DialogInv, PublishedIsTrue
  <2>3. CASE call[Caller].picked = None
    <3>1. seen[Caller][b].state = "Open"
      BY <1>1, <1>3 DEF DialogInv, PublishedIsTrue, IsOpen, None
    <3>2. CallerInStep /\ Caller \notin wake
      BY <1>1 DEF DialogInv
    <3>3. location[Caller][b].state # "Ready"
      BY <2>1, <2>3, <3>1, <3>2 DEF CallerInStep, None
    <3> QED BY <2>1, <2>3, <3>3 DEF IsOver, Ongoing
  <2> QED BY <2>2, <2>3
<1>4. ASSUME IsOpen(Caller) PROVE IsOpen(call[Caller].picked)
  <2> DEFINE b == call[Caller].picked
  <2>1. b # None /\ seen[Caller][b] # NoDialog /\ ~Over(seen[Caller][b])
    BY <1>1, <1>4 DEF DialogInv, CallerInStep, Ongoing, IsOpen
  <2>2. b \in Called
    BY <2>1 DEF DialogInv, TypeInv
  <2>3. HasAnswered(b) /\ call[b].state # "Closing"
    BY <1>1, <2>2 DEF DialogInv, Rings
  <2>4. published[b] # NoDialog /\ published[b].state = call[b].state
    BY <1>1, <2>1, <2>2 DEF DialogInv, PublishedIsTrue
  <2> QED BY <1>1, <2>1, <2>2, <2>3, <2>4 DEF HasAnswered, IsOpen, Over
<1>5. ASSUME IsOver(Caller), NEW b \in Called PROVE call[b].state \in {None, "Closed"}
  <2>1. ~Ongoing(b)
    BY <1>2, <1>5 DEF IsOver, Ongoing
  <2> QED BY <1>1, <2>1 DEF DialogInv, CalledStates, Ongoing
<1>6. ASSUME \A b \in Called : IsOver(b)
      PROVE  IsOpen(Caller) \/ IsOver(Caller)
  <2>1. CASE \E b \in Called : published[b] # NoDialog
    BY <1>6, <2>1, AllOverIsNoticed DEF IsOver, IsOpen
  <2>2. CASE \A b \in Called : published[b] = NoDialog
    <3>1. \A b \in Called : Removable(b)
      BY <1>6, <2>2 DEF Removable, IsOver
    <3> QED BY <1>1, <3>1 DEF DialogInv, AllRemoved, IsOpen, IsOver
  <2> QED BY <2>1, <2>2
<1>7. ASSUME NEW b \in Called, IsOver(b), call[b].reason = "Decline", published[b] # NoDialog
      PROVE  IsOpen(Caller) \/ IsOver(Caller)
  <2> SUFFICES ASSUME ~IsOpen(Caller), ~IsOver(Caller) PROVE FALSE
    OBVIOUS
  <2>1. call[Caller].state \in {"Preparing", "Placed"}
    <3>1. call[Caller].state # None
      BY <1>7 DEF DialogInv, NotPlaced, IsOver, None
    <3> QED BY <1>1, <3>1 DEF DialogInv, CallerStates, IsOpen, IsOver
  <2>2. published[b].state = "Closed" /\ published[b].reason = "Decline"
    BY <1>7 DEF DialogInv, PublishedIsTrue, IsOver
  <2>3. Over(seen[Caller][b]) /\ seen[Caller][b].reason = "Decline"
    BY <1>1, <2>2 DEF Over
  <2>4. location[Caller][b] = NoLocation
    BY <1>1, <2>1, <2>3, OverIsLetGo
  <2>5. call[Caller].picked = None
    BY <2>1 DEF DialogInv, PublishedIsTrue
  <2>6. "Decline" \in ReasonsElsewhere(Caller)
    BY <1>1, <1>7, <2>3, <2>4, <2>5 DEF ReasonsElsewhere, OverElsewhere, Replies
  <2> QED BY <1>1, <2>1, <2>6 DEF DialogInv, CallerInStep, Ongoing
<1> QED BY <1>3, <1>4, <1>5, <1>6, <1>7

-----------------------------------------------------------------------------
(* The calls, their locations and what the threads of the conversation      *)
(* carry have their types; who has a location of another end has a call,    *)
(* and CallImpl::cancel() leaves a closed call none.                        *)
THEOREM SpecDialogTypeOK == DialogSpec => []DialogTypeOK
<1>1. DialogInv => DialogTypeOK
  BY TypeOKFollows
<1> QED BY <1>1, DialogInvAlways, PTL

(* Once everything has settled the ends of a call agree, however the steps  *)
(* of CallImpl::step, the documents of the conversation, the connections    *)
(* and the users' answers and hangups fell: who has answered is the one the *)
(* caller picked, or the caller waits for the connections to it, and no end *)
(* stays in a call that is over for the others.                             *)
THEOREM SpecCallAgreed == DialogSpec => []CallAgreed
<1>1. DialogInv => CallAgreed
  BY AgreedFollows
<1> QED BY <1>1, DialogInvAlways, PTL

-----------------------------------------------------------------------------
(* What is computed along a sequence *)

(* A set of numbers that is not empty has a least member.                   *)
LEMMA LeastOf ==
  ASSUME NEW S \in SUBSET Nat, S # {}
  PROVE  \E n \in S : \A m \in S : n <= m
<1>1. \E n \in S : \A m \in S : ~(<<m, n>> \in OpToRel(<, Nat))
  BY NatLessThanWellFounded, WFMin
<1>2. PICK n \in S : \A m \in S : ~(<<m, n>> \in OpToRel(<, Nat))
  BY <1>1
<1>3. ASSUME NEW m \in S PROVE n <= m
  <2>1. m \in Nat /\ n \in Nat /\ <<m, n>> \in Nat \X Nat
    OBVIOUS
  <2>2. m < n => <<m, n>> \in OpToRel(<, Nat)
    BY <2>1 DEF OpToRel
  <2>3. ~(m < n)
    BY <1>2, <2>2
  <2> QED BY <2>1, <2>3
<1> QED BY <1>3

(* What holds at first and passes on from each number to the next never     *)
(* fails.                                                                   *)
LEMMA NoneBad ==
  ASSUME NEW lo \in Nat, NEW hi \in Nat, NEW Bad \in SUBSET (lo..hi), lo \notin Bad,
         \A n \in lo + 1 .. hi : n - 1 \notin Bad => n \notin Bad
  PROVE  Bad = {}
<1>1. SUFFICES ASSUME Bad # {} PROVE FALSE
  OBVIOUS
<1>2. PICK k \in Bad : \A m \in Bad : k <= m
  <2>1. Bad \in SUBSET Nat
    OBVIOUS
  <2> QED BY <1>1, <2>1, LeastOf
<1>3. k \in lo + 1 .. hi
  BY <1>2
<1>4. k - 1 \notin Bad
  BY <1>2, <1>3
<1> QED BY <1>2, <1>3, <1>4

(* Each step of a computation takes what is in T to what is in T.           *)
Computes(step, lo, hi, T) == step \in [lo + 1 .. hi -> [T -> T]]

Iterates(h, lo, hi, T, start, step) ==
  /\ h \in [lo..hi -> T] /\ h[lo] = start
  /\ \A n \in lo + 1 .. hi : h[n] = step[n][h[n - 1]]

(* What is computed step by step exists.                                    *)
LEMMA IteratesExist ==
  ASSUME NEW lo \in Nat, NEW hi \in Nat, lo <= hi, NEW T, NEW start, start \in T,
         NEW step, Computes(step, lo, hi, T)
  PROVE  \E h : Iterates(h, lo, hi, T, start, step)
<1> USE DEF Computes, Iterates
<1> DEFINE Runs(h, k) == /\ h \in [lo..k -> T] /\ h[lo] = start
                         /\ \A n \in lo + 1 .. k : h[n] = step[n][h[n - 1]]
           Bad == {k \in lo..hi : ~\E h : Runs(h, k)}
<1>1. Runs([n \in lo..lo |-> start], lo)
  OBVIOUS
<1>2. lo \notin Bad
  <2> HIDE DEF Runs
  <2> QED BY <1>1
<1>3. ASSUME NEW k \in lo + 1 .. hi, k - 1 \notin Bad PROVE k \notin Bad
  <2>1. k \in lo..hi /\ k - 1 \in lo..hi /\ k - 1 \in lo..k - 1
    OBVIOUS
  <2>2. PICK h : Runs(h, k - 1)
    <3> HIDE DEF Runs
    <3> QED BY <1>3, <2>1
  <2> DEFINE u == [n \in lo..k |-> IF n = k THEN step[k][h[k - 1]] ELSE h[n]]
  <2>3. step[k] \in [T -> T] /\ h[k - 1] \in T
    BY <2>1, <2>2
  <2>4. u[k] = step[k][h[k - 1]] /\ u[k] \in T
    BY <2>1, <2>3
  <2>5. \A n \in lo..k - 1 : u[n] = h[n] /\ u[n] \in T
    BY <2>1, <2>2
  <2>6. u \in [lo..k -> T]
    <3> HIDE DEF u
    <3>1. u = [n \in lo..k |-> u[n]]
      BY DEF u
    <3>2. \A n \in lo..k : n = k \/ n \in lo..k - 1
      OBVIOUS
    <3> QED BY <2>4, <2>5, <3>1, <3>2
  <2> HIDE DEF u
  <2>7. u[lo] = start
    BY <2>1, <2>2, <2>5
  <2>8. ASSUME NEW n \in lo + 1 .. k PROVE u[n] = step[n][u[n - 1]]
    <3>1. CASE n = k
      BY <2>1, <2>4, <2>5, <3>1
    <3>2. CASE n # k
      <4>1. n \in lo + 1 .. k - 1 /\ n - 1 \in lo..k - 1 /\ n \in lo..k - 1
        BY <2>1, <3>2
      <4> QED BY <2>2, <2>5, <4>1
    <3> QED BY <3>1, <3>2
  <2>9. Runs(u, k)
    BY <2>6, <2>7, <2>8
  <2> HIDE DEF Runs
  <2> QED BY <2>9
<1>4. Bad = {}
  <2>1. Bad \in SUBSET (lo..hi)
    OBVIOUS
  <2> HIDE DEF Bad
  <2> QED BY <1>2, <1>3, <2>1, NoneBad
<1>5. hi \in lo..hi
  OBVIOUS
<1>6. PICK h : Runs(h, hi)
  <2> HIDE DEF Runs
  <2> QED BY <1>4, <1>5
<1> QED BY <1>6

OnlyStep(q, e, S) == IF e \in S THEN Append(q, e) ELSE q

Picks(h, s, S) ==
  h = [n \in 0..Len(s) |-> IF n = 0 THEN << >>
                          ELSE IF s[n] \in S THEN Append(h[n - 1], s[n]) ELSE h[n - 1]]

LEMMA PicksExist ==
  ASSUME NEW M, NEW s \in Seq(M), NEW S
  PROVE  \E h : Picks(h, s, S) /\ Only(s, S) = h[Len(s)]
<1> DEFINE T == Seq(M)
           step == [n \in 1 .. Len(s) |-> [q \in T |-> OnlyStep(q, s[n], S)]]
<1>1. << >> \in T /\ Len(s) \in Nat /\ 0 <= Len(s)
  OBVIOUS
<1>2. Computes(step, 0, Len(s), T)
  <2>1. ASSUME NEW n \in 1..Len(s), NEW q \in T
        PROVE  OnlyStep(q, s[n], S) \in T
    <3>1. s[n] \in M
      OBVIOUS
    <3> QED BY <3>1 DEF OnlyStep
  <2> HIDE DEF T
  <2>2. step \in [1..Len(s) -> [T -> T]]
    BY <2>1
  <2> HIDE DEF step
  <2> QED BY <2>2 DEF Computes
<1>3. PICK h : Iterates(h, 0, Len(s), T, << >>, step)
  <2> HIDE DEF step, T
  <2> QED BY <1>1, <1>2, IteratesExist
<1>4. Picks(h, s, S)
  <2>1. h \in [0..Len(s) -> T] /\ h[0] = << >> /\ \A n \in 1 .. Len(s) : h[n] = step[n][h[n - 1]]
    <3> HIDE DEF step, T
    <3> QED BY <1>3 DEF Iterates
  <2>2. ASSUME NEW n \in 0..Len(s), n # 0
        PROVE  h[n] = IF s[n] \in S THEN Append(h[n - 1], s[n]) ELSE h[n - 1]
    <3>1. n \in 1..Len(s) /\ n - 1 \in 0..Len(s)
      BY <2>2
    <3>2. h[n - 1] \in T
      BY <2>1, <3>1
    <3>3. h[n] = step[n][h[n - 1]]
      BY <2>1, <3>1
    <3>4. step[n][h[n - 1]] = OnlyStep(h[n - 1], s[n], S)
      BY <3>1, <3>2
    <3> QED BY <3>3, <3>4 DEF OnlyStep
  <2>3. h = [n \in 0..Len(s) |-> h[n]]
    BY <2>1
  <2> HIDE DEF step, T
  <2> QED BY <2>1, <2>2, <2>3 DEF Picks
<1> DEFINE only == CHOOSE g : Picks(g, s, S)
<1>5. Picks(only, s, S)
  BY <1>4, Zenon
<1>6. Only(s, S) = only[Len(s)]
  BY DEF Only, Picks
<1> QED BY <1>5, <1>6, Zenon

(* What is picked out of a sequence is of the sequence and in the set, each *)
(* element once if it is there once.                                        *)
LEMMA OnlyIs ==
  ASSUME NEW M, NEW s \in Seq(M), NEW S
  PROVE  /\ Only(s, S) \in Seq(M)
         /\ ToSet(Only(s, S)) = ToSet(s) \cap S
         /\ IsInjective(s) => IsInjective(Only(s, S))
<1>1. PICK h : Picks(h, s, S) /\ Only(s, S) = h[Len(s)]
  BY PicksExist
<1> DEFINE Good(n) ==
             /\ h[n] \in Seq(M)
             /\ ToSet(h[n]) = {s[i] : i \in 1..n} \cap S
             /\ IsInjective(s) => IsInjective(h[n])
           Bad == {n \in 0..Len(s) : ~Good(n)}
<1>2. Len(s) \in Nat
  OBVIOUS
<1>3. h[0] = << >> /\ \A n \in 1..Len(s) :
        h[n] = IF s[n] \in S THEN Append(h[n - 1], s[n]) ELSE h[n - 1]
  <2> DEFINE next(n) == IF n = 0 THEN << >>
                        ELSE IF s[n] \in S THEN Append(h[n - 1], s[n]) ELSE h[n - 1]
  <2>1. h = [n \in 0..Len(s) |-> next(n)]
    BY <1>1 DEF Picks
  <2> HIDE DEF next
  <2>2. \A n \in 0..Len(s) : h[n] = next(n)
    BY <2>1
  <2> QED BY <1>2, <2>2 DEF next
<1>4. 0 \notin Bad
  <2>1. ToSet(<< >>) = {} /\ IsInjective(<< >>) /\ << >> \in Seq(M)
    BY DEF ToSet, IsInjective
  <2>2. {s[i] : i \in 1..0} = {}
    OBVIOUS
  <2>3. Good(0)
    BY <1>3, <2>1, <2>2
  <2> HIDE DEF Good
  <2> QED BY <2>3
<1>5. ASSUME NEW n \in 0 + 1 .. Len(s), n - 1 \notin Bad PROVE n \notin Bad
  <2>1. n \in 1..Len(s) /\ n - 1 \in 0..Len(s) /\ s[n] \in M
    BY <1>2
  <2>2. Good(n - 1)
    BY <1>5, <2>1
  <2>3. {s[i] : i \in 1..n} = {s[i] : i \in 1..n - 1} \cup {s[n]}
    BY <2>1
  <2>4. CASE s[n] \in S
    <3>1. h[n] = Append(h[n - 1], s[n])
      BY <1>3, <2>1, <2>4
    <3>2. /\ h[n] \in Seq(M) /\ Len(h[n]) = Len(h[n - 1]) + 1
          /\ \A i \in 1..Len(h[n - 1]) : h[n][i] = h[n - 1][i]
          /\ h[n][Len(h[n - 1]) + 1] = s[n]
      BY <2>1, <2>2, <3>1
    <3>3. ToSet(h[n]) = ToSet(h[n - 1]) \cup {s[n]}
      <4>1. DOMAIN h[n] = 1..Len(h[n - 1]) + 1 /\ DOMAIN h[n - 1] = 1..Len(h[n - 1])
        BY <2>2, <3>2
      <4>2. Len(h[n - 1]) \in Nat
        BY <2>2
      <4> DEFINE k == Len(h[n - 1])
      <4>3. ToSet(h[n]) = {h[n][i] : i \in 1..k + 1} /\ ToSet(h[n - 1]) = {h[n - 1][i] : i \in 1..k}
        BY <4>1 DEF ToSet
      <4>4. \A x : x \in ToSet(h[n]) <=> x \in ToSet(h[n - 1]) \/ x = s[n]
        <5> HIDE DEF k
        <5>1. 1..k + 1 = 1..k \cup {k + 1}
          BY <4>2 DEF k
        <5>2. (\A i \in 1..k : h[n][i] = h[n - 1][i]) /\ h[n][k + 1] = s[n]
          BY <3>2 DEF k
        <5> QED BY <4>3, <5>1, <5>2
      <4> QED BY <4>4
    <3>4. IsInjective(s) => IsInjective(h[n])
      <4>1. SUFFICES ASSUME IsInjective(s) PROVE IsInjective(h[n])
        OBVIOUS
      <4>2. s[n] \notin ToSet(h[n - 1])
        BY <2>1, <2>2, <4>1 DEF IsInjective
      <4>3. \A i \in 1..Len(h[n - 1]) : h[n - 1][i] # s[n]
        BY <2>2, <4>2 DEF ToSet
      <4>4. \A a, b \in 1..Len(h[n - 1]) : h[n - 1][a] = h[n - 1][b] => a = b
        BY <2>2, <4>1 DEF IsInjective
      <4>5. DOMAIN h[n] = 1..Len(h[n - 1]) + 1 /\ Len(h[n - 1]) \in Nat
        BY <2>2, <3>2
      <4>6. \A a \in 1..Len(h[n - 1]) + 1 : a \in 1..Len(h[n - 1]) \/ a = Len(h[n - 1]) + 1
        BY <4>5
      <4> QED BY <3>2, <4>3, <4>4, <4>5, <4>6 DEF IsInjective
    <3> QED BY <2>2, <2>3, <2>4, <3>2, <3>3, <3>4
  <2>5. CASE s[n] \notin S
    <3>1. h[n] = h[n - 1]
      BY <1>3, <2>1, <2>5
    <3> QED BY <2>2, <2>3, <2>5, <3>1
  <2> QED BY <2>4, <2>5
<1>6. Bad = {}
  <2>1. Bad \in SUBSET (0..Len(s))
    OBVIOUS
  <2> HIDE DEF Bad
  <2> QED BY <1>2, <1>4, <1>5, <2>1, NoneBad
<1>7. Good(Len(s))
  BY <1>2, <1>6
<1>8. {s[i] : i \in 1..Len(s)} = ToSet(s)
  BY DEF ToSet
<1> QED BY <1>1, <1>7, <1>8

-----------------------------------------------------------------------------
(* What is true of the documents D, of what is kept about the others S, of  *)
(* who was given what R, when n messages each were sent and the host was    *)
(* (x) started anew.                                                        *)

SentBy(n) == {m \in Messages : m[2] <= n[m[1]]}

Docs(M) == [published : BOOLEAN, messages : Seq(M), receipts : SUBSET M]

SideRecords(M) ==
  [seen : Docs(M), acked : SUBSET Messages, state : [Messages -> States],
   subscribed : BOOLEAN, timer : BOOLEAN, wake : {"No", "Step", "Located"},
   pushed : Seq(Messages), converted : BOOLEAN]

DeliveryTypes(D, S, n) ==
  /\ n \in [Senders -> Nat]
  /\ D \in [Documents -> Docs(SentBy(n))]
  /\ S \in [Sides -> SideRecords(SentBy(n))]
  /\ \A d \in Documents : IsInjective(D[d].messages)
  /\ \A s \in Sides : IsInjective(S[s].seen.messages)

From(e) == {m \in Messages : m[1] = e}

(* A guest's document has its own messages, and only in the thread of Host. *)
GuestsWrite(D, S) ==
  \A s \in Sides :
    IF Hosting(s) THEN ToSet(S[s].seen.messages) \subseteq From(Other(s))
    ELSE /\ ToSet(D[Own(s)].messages) \subseteq From(Self(s))
         /\ Thread(s) # Host => D[Own(s)].messages = << >>

(* The document of the thread was lost with its host.                       *)
Gone(s, x) == Thread(s) = Host /\ x

HostIsGone(D, x) ==
  \A s \in Sides : Hosting(s) /\ Gone(s, x) => ~D[Own(s)].published

(* What a guest has of its host comes from the host's document.             *)
GuestsKnow(D, S, x) ==
  \A s \in Sides :
    \/ Hosting(s)
    \/ Gone(s, x)
    \/ D[Own(s)].receipts \cup ToSet(S[s].seen.messages) \subseteq ToSet(D[Theirs(s)].messages)

(* A guest that has not met a host started anew has no thread of its own.   *)
NotConverted(D, S) ==
  \A s \in Sides :
    ~Hosting(s) /\ Thread(s) = Host /\ Self(s) \in Threads /\ ~S[s].converted =>
      D[<<Self(s), Self(s)>>].messages = << >> /\ ~D[<<Self(s), Self(s)>>].published

Received(e, R, m) == m[1] = e \/ <<e, m>> \in R

(* What stands in q up to a message of K, e received or wrote.              *)
UpTo(q, K, e, R) ==
  \A i, k \in 1..Len(q) : i <= k /\ q[k] \in K => Received(e, R, q[i])

DeliveredTo(sd) == {m \in Messages : sd.state[m] = "Delivered"}

(* What an end acknowledges, has seen, and takes for delivered.             *)
ReceiptsTrue(D, S, R) ==
  \A s \in Sides : UpTo(D[Theirs(s)].messages, D[Own(s)].receipts, Self(s), R)

SeenTrue(D, S, R) ==
  \A s \in Sides : UpTo(D[Theirs(s)].messages, ToSet(S[s].seen.messages), Self(s), R)

DeliveredTrue(D, S, R) ==
  \A s \in Sides :
    /\ UpTo(D[Own(s)].messages, DeliveredTo(S[s]), Other(s), R)
    /\ DeliveredTo(S[s]) \subseteq ToSet(D[Own(s)].messages)
    /\ \A m \in S[s].acked : Received(Other(s), R, m)

DeliveryHolds(D, S, R, n, x) ==
  /\ DeliveryTypes(D, S, n)
  /\ GuestsWrite(D, S) /\ HostIsGone(D, x) /\ GuestsKnow(D, S, x) /\ NotConverted(D, S)
  /\ ReceiptsTrue(D, S, R) /\ SeenTrue(D, S, R) /\ DeliveredTrue(D, S, R)

DeliveryInv == DeliveryHolds(doc, side, reached, sent, restarted)

-----------------------------------------------------------------------------
(* Helpers *)

Opposite(s) == <<Thread(s), Other(s), Self(s)>>

LEMMA SideFacts ==
  ASSUME NEW s \in Sides
  PROVE  /\ Thread(s) \in Threads /\ Self(s) \in Locations /\ Other(s) \in Locations
         /\ Self(s) # Other(s)
         /\ Own(s) \in Documents /\ Theirs(s) \in Documents
         /\ IF Hosting(s) THEN Self(s) = Thread(s) /\ Other(s) # Thread(s)
            ELSE Other(s) = Thread(s) /\ Self(s) # Thread(s)
         /\ Opposite(s) \in Sides
         /\ Own(Opposite(s)) = Theirs(s) /\ Theirs(Opposite(s)) = Own(s)
         /\ Self(Opposite(s)) = Other(s) /\ Other(Opposite(s)) = Self(s)
         /\ Thread(Opposite(s)) = Thread(s)
         /\ Hosting(Opposite(s)) <=> ~Hosting(s)
         /\ s = <<Thread(s), Self(s), Other(s)>>
BY DEF Sides, Thread, Self, Other, Own, Theirs, Hosting, Opposite, Documents

LEMMA UpToAppended ==
  ASSUME NEW M, NEW q \in Seq(M), NEW more \in Seq(M), NEW K, NEW e, NEW R,
         UpTo(q, K, e, R), ToSet(more) \cap K = {}
  PROVE  UpTo(q \o more, K, e, R)
<1> SUFFICES ASSUME NEW i \in 1..Len(q \o more), NEW k \in 1..Len(q \o more),
                    i <= k, (q \o more)[k] \in K
             PROVE  Received(e, R, (q \o more)[i])
  BY DEF UpTo
<1>1. /\ Len(q) \in Nat /\ Len(more) \in Nat
      /\ Len(q \o more) = Len(q) + Len(more)
      /\ \A j \in 1..Len(q) + Len(more) :
           (q \o more)[j] = IF j <= Len(q) THEN q[j] ELSE more[j - Len(q)]
  OBVIOUS
<1>2. k <= Len(q)
  <2>1. SUFFICES ASSUME k > Len(q) PROVE FALSE
    BY <1>1
  <2>2. k - Len(q) \in 1..Len(more) /\ (q \o more)[k] = more[k - Len(q)]
    BY <1>1, <2>1
  <2>3. more[k - Len(q)] \in ToSet(more)
    BY <2>2 DEF ToSet
  <2> QED BY <2>2, <2>3
<1>3. i \in 1..Len(q) /\ k \in 1..Len(q) /\ (q \o more)[i] = q[i] /\ (q \o more)[k] = q[k]
  BY <1>1, <1>2
<1> QED BY <1>3 DEF UpTo

LEMMA ToSetAppended ==
  ASSUME NEW M, NEW q \in Seq(M), NEW more \in Seq(M)
  PROVE  ToSet(q \o more) = ToSet(q) \cup ToSet(more)
<1>1. /\ Len(q) \in Nat /\ Len(more) \in Nat
      /\ q \o more \in Seq(M)
      /\ Len(q \o more) = Len(q) + Len(more)
      /\ \A j \in 1..Len(q) + Len(more) :
           (q \o more)[j] = IF j <= Len(q) THEN q[j] ELSE more[j - Len(q)]
  OBVIOUS
<1>2. \A j \in 1..Len(q) : j \in 1..Len(q) + Len(more) /\ (q \o more)[j] = q[j]
  BY <1>1
<1>3. \A j \in 1..Len(more) :
        Len(q) + j \in 1..Len(q) + Len(more) /\ (q \o more)[Len(q) + j] = more[j]
  BY <1>1
<1>4. \A j \in 1..Len(q) + Len(more) : j \in 1..Len(q) \/ j - Len(q) \in 1..Len(more)
  BY <1>1
<1>5. ToSet(q \o more) \subseteq ToSet(q) \cup ToSet(more)
  BY <1>1, <1>4 DEF ToSet
<1>6. ToSet(q) \subseteq ToSet(q \o more)
  BY <1>1, <1>2 DEF ToSet
<1>7. ToSet(more) \subseteq ToSet(q \o more)
  <2>1. ASSUME NEW j \in 1..Len(more) PROVE more[j] \in ToSet(q \o more)
    <3>1. Len(q) + j \in DOMAIN (q \o more) /\ (q \o more)[Len(q) + j] = more[j]
      BY <1>1, <1>3
    <3> QED BY <3>1 DEF ToSet
  <2>2. ToSet(more) = {more[j] : j \in 1..Len(more)}
    BY DEF ToSet
  <2> QED BY <2>1, <2>2
<1> QED BY <1>5, <1>6, <1>7

LEMMA InjectiveAppended ==
  ASSUME NEW M, NEW q \in Seq(M), NEW more \in Seq(M), IsInjective(q), IsInjective(more),
         ToSet(q) \cap ToSet(more) = {}
  PROVE  IsInjective(q \o more)
<1>1. /\ Len(q) \in Nat /\ Len(more) \in Nat
      /\ q \o more \in Seq(M)
      /\ Len(q \o more) = Len(q) + Len(more)
      /\ \A j \in 1..Len(q) + Len(more) :
           (q \o more)[j] = IF j <= Len(q) THEN q[j] ELSE more[j - Len(q)]
  OBVIOUS
<1>2. SUFFICES ASSUME NEW a \in 1..Len(q) + Len(more), NEW b \in 1..Len(q) + Len(more),
                      (q \o more)[a] = (q \o more)[b]
               PROVE  a = b
  BY <1>1 DEF IsInjective
<1>3. \A i \in 1..Len(q), j \in 1..Len(more) : q[i] # more[j]
  BY DEF ToSet
<1>4. CASE a <= Len(q) /\ b <= Len(q)
  BY <1>1, <1>2, <1>4 DEF IsInjective
<1>5. CASE a > Len(q) /\ b > Len(q)
  <2>1. a - Len(q) \in 1..Len(more) /\ b - Len(q) \in 1..Len(more)
    BY <1>1, <1>5
  <2>2. more[a - Len(q)] = more[b - Len(q)]
    BY <1>1, <1>2, <1>5
  <2>3. a - Len(q) = b - Len(q)
    BY <2>1, <2>2 DEF IsInjective
  <2> QED BY <1>1, <2>3
<1>6. CASE a <= Len(q) /\ b > Len(q)
  <2>1. a \in 1..Len(q) /\ b - Len(q) \in 1..Len(more)
    BY <1>1, <1>6
  <2> QED BY <1>1, <1>2, <1>3, <1>6, <2>1
<1>7. CASE a > Len(q) /\ b <= Len(q)
  <2>1. b \in 1..Len(q) /\ a - Len(q) \in 1..Len(more)
    BY <1>1, <1>7
  <2> QED BY <1>1, <1>2, <1>3, <1>7, <2>1
<1> QED BY <1>1, <1>4, <1>5, <1>6, <1>7

LEMMA AddingIs ==
  ASSUME NEW M, NEW q \in Seq(M), NEW more \in Seq(M), IsInjective(q), IsInjective(more)
  PROVE  \E new \in Seq(M) :
           /\ Adding(q, more) = q \o new
           /\ ToSet(new) \cap ToSet(q) = {} /\ ToSet(new) \subseteq ToSet(more)
           /\ IsInjective(q \o new) /\ q \o new \in Seq(M)
           /\ ToSet(q \o new) = ToSet(q) \cup ToSet(more)
<1> DEFINE new == Only(more, ToSet(more) \ ToSet(q))
<1>1. /\ new \in Seq(M) /\ ToSet(new) = ToSet(more) \ ToSet(q) /\ IsInjective(new)
  BY OnlyIs
<1> HIDE DEF new
<1>2. IsInjective(q \o new) /\ ToSet(q \o new) = ToSet(q) \cup ToSet(new) /\ q \o new \in Seq(M)
  BY <1>1, InjectiveAppended, ToSetAppended
<1>3. Adding(q, more) = q \o new
  BY DEF Adding, new
<1> QED BY <1>1, <1>2, <1>3

-----------------------------------------------------------------------------
(* The receipts of a host, its contacts nudged *)

HostDocument(t, d, S) ==
  LET receipts == Gathered(t, S)
  IN  [d EXCEPT !.receipts = IF receipts = {} THEN @ ELSE receipts]

Contacted(t, S) == [s \in Sides |-> IF s \in Contacts(t) THEN Nudged(S[s]) ELSE S[s]]

(* sides are kept in what the invariant speaks of, or forget.               *)
SameSide(a, b) ==
  /\ b.seen = a.seen \/ b.seen = Unpublished
  /\ b.acked \subseteq a.acked
  /\ DeliveredTo(b) \subseteq DeliveredTo(a)
  /\ a.converted => b.converted

LEMMA NudgedIs ==
  ASSUME NEW M, NEW a \in SideRecords(M)
  PROVE  Nudged(a) \in SideRecords(M) /\ SameSide(a, Nudged(a))
BY DEF Nudged, SideRecords, SameSide, DeliveredTo

LEMMA UnpublishedIs ==
  ASSUME NEW M
  PROVE  /\ Unpublished \in Docs(M) /\ Unpublished.messages = << >>
         /\ ToSet(Unpublished.messages) = {} /\ IsInjective(Unpublished.messages)
         /\ Unpublished.receipts = {} /\ Unpublished.published = FALSE
BY DEF Unpublished, Docs, ToSet, IsInjective

LEMMA UpToLess ==
  ASSUME NEW q, NEW K, NEW L, NEW e, NEW R, UpTo(q, K, e, R), L \subseteq K
  PROVE  UpTo(q, L, e, R)
BY DEF UpTo

LEMMA UpToMore ==
  ASSUME NEW q, NEW K, NEW e, NEW R, NEW R1, UpTo(q, K, e, R), R \subseteq R1
  PROVE  UpTo(q, K, e, R1)
BY DEF UpTo, Received

LEMMA UpToEmpty ==
  ASSUME NEW K, NEW e, NEW R
  PROVE  UpTo(<< >>, K, e, R)
BY DEF UpTo

LEMMA UpToNone ==
  ASSUME NEW q, NEW e, NEW R
  PROVE  UpTo(q, {}, e, R)
BY DEF UpTo

(* What stands behind K is all received.                                    *)
LEMMA UpToMember ==
  ASSUME NEW q, NEW K, NEW e, NEW R, UpTo(q, K, e, R), NEW m \in ToSet(q) \cap K,
         DOMAIN q = 1..Len(q), Len(q) \in Nat
  PROVE  Received(e, R, m)
<1>1. PICK i \in 1..Len(q) : q[i] = m
  BY DEF ToSet
<1> QED BY <1>1 DEF UpTo

(* Steps that only change what is kept about others, in nothing of this.    *)
LEMMA SidesHold ==
  ASSUME NEW D, NEW S, NEW R, NEW n, NEW x, DeliveryHolds(D, S, R, n, x),
         NEW S1 \in [Sides -> SideRecords(SentBy(n))],
         \A s \in Sides : SameSide(S[s], S1[s])
  PROVE  DeliveryHolds(D, S1, R, n, x)
<1> USE DEF SameSide
<1>1. \A s \in Sides : ToSet(S1[s].seen.messages) \subseteq ToSet(S[s].seen.messages)
  BY UnpublishedIs
<1>2. DeliveryTypes(D, S1, n)
  BY UnpublishedIs DEF DeliveryHolds, DeliveryTypes
<1>3. GuestsWrite(D, S1)
  BY <1>1 DEF DeliveryHolds, GuestsWrite
<1>4. GuestsKnow(D, S1, x)
  BY <1>1 DEF DeliveryHolds, GuestsKnow
<1>5. NotConverted(D, S1)
  BY DEF DeliveryHolds, NotConverted
<1>6. SeenTrue(D, S1, R)
  BY <1>1, UpToLess DEF DeliveryHolds, SeenTrue
<1>7. DeliveredTrue(D, S1, R)
  <2> SUFFICES ASSUME NEW s \in Sides
               PROVE  /\ UpTo(D[Own(s)].messages, DeliveredTo(S1[s]), Other(s), R)
                      /\ DeliveredTo(S1[s]) \subseteq ToSet(D[Own(s)].messages)
                      /\ \A m \in S1[s].acked : Received(Other(s), R, m)
    BY DEF DeliveredTrue
  <2>1. DeliveredTrue(D, S, R)
    BY DEF DeliveryHolds
  <2>2. DeliveredTo(S1[s]) \subseteq DeliveredTo(S[s]) /\ S1[s].acked \subseteq S[s].acked
    OBVIOUS
  <2> QED BY <2>1, <2>2, UpToLess DEF DeliveredTrue
<1>8. HostIsGone(D, x) /\ ReceiptsTrue(D, S1, R)
  BY DEF DeliveryHolds, ReceiptsTrue
<1> QED BY <1>2, <1>3, <1>4, <1>5, <1>6, <1>7, <1>8 DEF DeliveryHolds

(* More was given to someone, and more was sent.                            *)
LEMMA MoreHolds ==
  ASSUME NEW D, NEW S, NEW R, NEW n, NEW x, DeliveryHolds(D, S, R, n, x),
         NEW R1, R \subseteq R1,
         NEW n1 \in [Senders -> Nat], \A e \in Senders : n[e] <= n1[e]
  PROVE  DeliveryHolds(D, S, R1, n1, x)
<1>1. SentBy(n) \subseteq SentBy(n1)
  BY DeliveryAssumption DEF SentBy, Messages, DeliveryHolds, DeliveryTypes
<1>2. Docs(SentBy(n)) \subseteq Docs(SentBy(n1))
  <2>1. Seq(SentBy(n)) \subseteq Seq(SentBy(n1))
    BY <1>1
  <2> QED BY <1>1, <2>1 DEF Docs
<1>3. DeliveryTypes(D, S, n1)
  <2>1. SideRecords(SentBy(n)) \subseteq SideRecords(SentBy(n1))
    BY <1>2 DEF SideRecords
  <2> QED BY <1>2, <2>1 DEF DeliveryHolds, DeliveryTypes
<1>4. ReceiptsTrue(D, S, R1) /\ SeenTrue(D, S, R1)
  BY UpToMore DEF DeliveryHolds, ReceiptsTrue, SeenTrue
<1>5. DeliveredTrue(D, S, R1)
  <2>1. \A e, m : Received(e, R, m) => Received(e, R1, m)
    BY DEF Received
  <2> QED BY <2>1, UpToMore DEF DeliveryHolds, DeliveredTrue
<1> QED BY <1>3, <1>4, <1>5 DEF DeliveryHolds

LEMMA HostDocumentIs ==
  ASSUME NEW t, NEW M, NEW d \in Docs(M), NEW S \in [Sides -> SideRecords(M)]
  PROVE  LET d1 == HostDocument(t, d, S)
         IN  /\ d1 \in Docs(M) /\ d1.messages = d.messages /\ d1.published = d.published
             /\ d1.receipts = d.receipts \/ d1.receipts = Gathered(t, S)
<1>1. Gathered(t, S) \subseteq M
  <2> SUFFICES ASSUME NEW s \in Sides, S[s].seen.messages # << >>
               PROVE  Last(S[s].seen.messages) \in M
    BY DEF Gathered, Contacts
  <2>1. S[s].seen.messages \in Seq(M)
    BY DEF SideRecords, Docs
  <2> QED BY <2>1 DEF Last
<1> QED BY <1>1 DEF HostDocument, Docs

LEMMA LastIsMember ==
  ASSUME NEW M, NEW q \in Seq(M), q # << >>
  PROVE  Last(q) \in ToSet(q)
BY DEF Last, ToSet

(* The host of t puts more into its document, gathers receipts and nudges   *)
(* its contacts.                                                            *)
LEMMA HostHolds ==
  ASSUME NEW D, NEW S, NEW R, NEW n, NEW x, DeliveryHolds(D, S, R, n, x),
         NEW t \in Threads, <<t, t>> \in Documents, ~(t = Host /\ x),
         NEW d \in Docs(SentBy(n)), d.published, IsInjective(d.messages),
         NEW more \in Seq(SentBy(n)), d.messages = D[<<t, t>>].messages \o more,
         ToSet(more) \cap ToSet(D[<<t, t>>].messages) = {},
         d.receipts \subseteq D[<<t, t>>].receipts,
         \A s \in Sides : ~Hosting(s) /\ Thread(s) = Host /\ Self(s) = t => S[s].converted,
         NEW D1, D1 = [D EXCEPT ![<<t, t>>] = HostDocument(t, d, S)]
  PROVE  DeliveryHolds(D1, Contacted(t, S), R, n, x)
<1> DEFINE old == D[<<t, t>>].messages
<1>1. /\ DeliveryTypes(D, S, n) /\ D \in [Documents -> Docs(SentBy(n))]
      /\ S \in [Sides -> SideRecords(SentBy(n))]
  BY DEF DeliveryHolds, DeliveryTypes
<1>2. /\ D1 \in [Documents -> Docs(SentBy(n))]
      /\ D1[<<t, t>>].messages = old \o more /\ D1[<<t, t>>].published
      /\ \/ D1[<<t, t>>].receipts \subseteq D[<<t, t>>].receipts
         \/ D1[<<t, t>>].receipts = Gathered(t, S)
      /\ \A k \in Documents : k # <<t, t>> => D1[k] = D[k]
  <2> DEFINE hd == HostDocument(t, d, S)
  <2>1. /\ hd \in Docs(SentBy(n)) /\ hd.messages = d.messages /\ hd.published = d.published
        /\ hd.receipts = d.receipts \/ hd.receipts = Gathered(t, S)
    BY <1>1, HostDocumentIs, ZenonT(60)
  <2>2. D1 = [D EXCEPT ![<<t, t>>] = hd]
    OBVIOUS
  <2> HIDE DEF hd
  <2>3. /\ D1[<<t, t>>] = hd /\ D1 \in [Documents -> Docs(SentBy(n))]
        /\ \A k \in Documents : k # <<t, t>> => D1[k] = D[k]
    BY <1>1, <2>1, <2>2
  <2> QED BY <2>1, <2>3
<1>3. old \in Seq(SentBy(n)) /\ ToSet(old \o more) = ToSet(old) \cup ToSet(more)
  <2>1. D[<<t, t>>] \in Docs(SentBy(n))
    BY <1>1
  <2>2. old \in Seq(SentBy(n))
    BY <2>1 DEF Docs
  <2> HIDE DEF old
  <2> QED BY <2>2, ToSetAppended
<1>4. \A s \in Sides : /\ Own(s) = <<t, t>> <=> Hosting(s) /\ Thread(s) = t
                       /\ Theirs(s) = <<t, t>> <=> ~Hosting(s) /\ Thread(s) = t
                       /\ Own(s) \in Documents /\ Theirs(s) \in Documents
  BY SideFacts DEF Own, Theirs
<1> HIDE DEF old
<1>5. DeliveryTypes(D1, S, n)
  BY <1>1, <1>2 DEF DeliveryTypes, old
<1>6. GuestsWrite(D1, S)
  BY <1>2, <1>4 DEF DeliveryHolds, GuestsWrite
<1>7. HostIsGone(D1, x)
  BY <1>2, <1>4 DEF DeliveryHolds, HostIsGone, Gone
<1>8. GuestsKnow(D1, S, x)
  BY <1>2, <1>3, <1>4 DEF DeliveryHolds, GuestsKnow, old
<1>9. NotConverted(D1, S)
  <2> SUFFICES ASSUME NEW s \in Sides, ~Hosting(s), Thread(s) = Host, Self(s) \in Threads,
                      ~S[s].converted
               PROVE  /\ D1[<<Self(s), Self(s)>>].messages = << >>
                      /\ ~D1[<<Self(s), Self(s)>>].published
    BY DEF NotConverted
  <2>1. Self(s) # t /\ <<Self(s), Self(s)>> \in Documents
    BY SideFacts DEF Documents
  <2> QED BY <1>2, <2>1 DEF DeliveryHolds, NotConverted
<1>10. ReceiptsTrue(D1, S, R)
  <2> SUFFICES ASSUME NEW s \in Sides
               PROVE  UpTo(D1[Theirs(s)].messages, D1[Own(s)].receipts, Self(s), R)
    BY DEF ReceiptsTrue
  <2>1. UpTo(D[Theirs(s)].messages, D[Own(s)].receipts, Self(s), R)
    BY DEF DeliveryHolds, ReceiptsTrue
  <2>2. CASE Thread(s) # t
    BY <1>2, <1>4, <2>1, <2>2
  <2>3. CASE Thread(s) = t /\ ~Hosting(s)
    <3>1. D1[Own(s)] = D[Own(s)] /\ Theirs(s) = <<t, t>>
      BY <1>2, <1>4, <2>3
    <3>2. D[Own(s)].receipts \subseteq ToSet(old)
      BY <2>3, <3>1 DEF DeliveryHolds, GuestsKnow, Gone, old
    <3>3. ToSet(more) \cap D[Own(s)].receipts = {}
      BY <3>2 DEF old
    <3>4. UpTo(old, D[Own(s)].receipts, Self(s), R)
      BY <2>1, <3>1 DEF old
    <3>5. UpTo(old \o more, D[Own(s)].receipts, Self(s), R)
      BY <1>3, <3>3, <3>4, UpToAppended
    <3> QED BY <1>2, <3>1, <3>5
  <2>4. CASE Thread(s) = t /\ Hosting(s)
    <3>1. D1[Theirs(s)] = D[Theirs(s)] /\ Own(s) = <<t, t>>
      BY <1>2, <1>4, <2>4
    <3>2. CASE D1[Own(s)].receipts \subseteq D[Own(s)].receipts
      BY <2>1, <3>1, <3>2, UpToLess
    <3>3. CASE D1[Own(s)].receipts = Gathered(t, S)
      <4>1. ToSet(D[Theirs(s)].messages) \subseteq From(Other(s))
        BY <2>4, SideFacts DEF DeliveryHolds, GuestsWrite
      <4>2. ASSUME NEW m \in Gathered(t, S), m \in ToSet(D[Theirs(s)].messages)
            PROVE  m \in ToSet(S[s].seen.messages)
        <5>1. PICK s2 \in Contacts(t) :
                S[s2].seen.messages # << >> /\ m = Last(S[s2].seen.messages)
          BY <4>2 DEF Gathered
        <5>2. s2 \in Sides /\ Thread(s2) = t /\ Hosting(s2)
          BY <5>1 DEF Contacts
        <5>3. S[s2].seen.messages \in Seq(SentBy(n))
          BY <1>1, <5>2 DEF SideRecords, Docs
        <5>4. m \in ToSet(S[s2].seen.messages)
          BY <5>1, <5>3, LastIsMember
        <5>5. m[1] = Other(s2)
          BY <5>2, <5>4 DEF DeliveryHolds, GuestsWrite, From
        <5>6. m[1] = Other(s)
          BY <4>1, <4>2 DEF From
        <5>7. s2 = s
          <6>1. s2 = <<Thread(s2), Self(s2), Other(s2)>> /\ Self(s2) = t
            BY <5>2, SideFacts DEF Hosting
          <6>2. s = <<Thread(s), Self(s), Other(s)>> /\ Self(s) = t
            BY <2>4, SideFacts DEF Hosting
          <6> QED BY <2>4, <5>2, <5>5, <5>6, <6>1, <6>2
        <5> QED BY <5>4, <5>7
      <4>3. UpTo(D[Theirs(s)].messages, ToSet(S[s].seen.messages), Self(s), R)
        BY DEF DeliveryHolds, SeenTrue
      <4>4. DOMAIN D[Theirs(s)].messages = 1..Len(D[Theirs(s)].messages)
        <5>1. D[Theirs(s)].messages \in Seq(SentBy(n))
          BY <1>1, <1>4 DEF Docs
        <5> QED BY <5>1
      <4>5. UpTo(D[Theirs(s)].messages, Gathered(t, S), Self(s), R)
        BY <4>2, <4>3, <4>4 DEF UpTo, ToSet
      <4> QED BY <3>1, <3>3, <4>5
    <3> QED BY <1>2, <3>1, <3>2, <3>3
  <2> QED BY <2>2, <2>3, <2>4
<1>11. SeenTrue(D1, S, R)
  <2> SUFFICES ASSUME NEW s \in Sides
               PROVE  UpTo(D1[Theirs(s)].messages, ToSet(S[s].seen.messages), Self(s), R)
    BY DEF SeenTrue
  <2>1. UpTo(D[Theirs(s)].messages, ToSet(S[s].seen.messages), Self(s), R)
    BY DEF DeliveryHolds, SeenTrue
  <2>2. CASE ~(Thread(s) = t /\ ~Hosting(s))
    BY <1>2, <1>4, <2>1, <2>2
  <2>3. CASE Thread(s) = t /\ ~Hosting(s)
    <3>1. Theirs(s) = <<t, t>>
      BY <1>4, <2>3
    <3>2. ToSet(S[s].seen.messages) \subseteq ToSet(old)
      BY <2>3, <3>1 DEF DeliveryHolds, GuestsKnow, Gone, old
    <3>3. ToSet(more) \cap ToSet(S[s].seen.messages) = {}
      BY <3>2 DEF old
    <3>4. UpTo(old, ToSet(S[s].seen.messages), Self(s), R)
      BY <2>1, <3>1 DEF old
    <3>5. UpTo(old \o more, ToSet(S[s].seen.messages), Self(s), R)
      BY <1>3, <3>3, <3>4, UpToAppended
    <3> QED BY <1>2, <3>1, <3>5
  <2> QED BY <2>2, <2>3
<1>12. DeliveredTrue(D1, S, R)
  <2> SUFFICES ASSUME NEW s \in Sides
               PROVE  /\ UpTo(D1[Own(s)].messages, DeliveredTo(S[s]), Other(s), R)
                      /\ DeliveredTo(S[s]) \subseteq ToSet(D1[Own(s)].messages)
                      /\ \A m \in S[s].acked : Received(Other(s), R, m)
    BY DEF DeliveredTrue
  <2>1. /\ UpTo(D[Own(s)].messages, DeliveredTo(S[s]), Other(s), R)
        /\ DeliveredTo(S[s]) \subseteq ToSet(D[Own(s)].messages)
        /\ \A m \in S[s].acked : Received(Other(s), R, m)
    BY DEF DeliveryHolds, DeliveredTrue
  <2>2. CASE ~(Thread(s) = t /\ Hosting(s))
    BY <1>2, <1>4, <2>1, <2>2
  <2>3. CASE Thread(s) = t /\ Hosting(s)
    <3>1. Own(s) = <<t, t>>
      BY <1>4, <2>3
    <3>2. ToSet(more) \cap DeliveredTo(S[s]) = {}
      BY <2>1, <3>1
    <3>3. UpTo(D1[Own(s)].messages, DeliveredTo(S[s]), Other(s), R)
      <4>1. UpTo(old, DeliveredTo(S[s]), Other(s), R) /\ ToSet(more) \cap DeliveredTo(S[s]) = {}
        BY <2>1, <3>1, <3>2 DEF old
      <4>2. UpTo(old \o more, DeliveredTo(S[s]), Other(s), R)
        BY <1>3, <4>1, UpToAppended
      <4> QED BY <1>2, <3>1, <4>2
    <3>4. DeliveredTo(S[s]) \subseteq ToSet(D1[Own(s)].messages)
      <4>1. DeliveredTo(S[s]) \subseteq ToSet(old)
        BY <2>1, <3>1 DEF old
      <4> QED BY <1>2, <1>3, <3>1, <4>1
    <3> QED BY <2>1, <3>3, <3>4
  <2> QED BY <2>2, <2>3
<1>13. DeliveryHolds(D1, S, R, n, x)
  BY <1>5, <1>6, <1>7, <1>8, <1>9, <1>10, <1>11, <1>12 DEF DeliveryHolds
<1>14. /\ Contacted(t, S) \in [Sides -> SideRecords(SentBy(n))]
       /\ \A s \in Sides : SameSide(S[s], Contacted(t, S)[s])
  <2>1. \A s \in Sides : SameSide(S[s], S[s])
    BY DEF SameSide
  <2> QED BY <1>1, <2>1, NudgedIs DEF Contacted
<1> QED BY <1>13, <1>14, SidesHold

-----------------------------------------------------------------------------
(* Looking for the other end *)

LEMMA ReverseIs ==
  ASSUME NEW M, NEW q \in Seq(M)
  PROVE  /\ Reverse(q) \in Seq(M) /\ Len(Reverse(q)) = Len(q)
         /\ ToSet(Reverse(q)) = ToSet(q)
         /\ IsInjective(q) => IsInjective(Reverse(q))
<1> DEFINE n == Len(q)
           r == [i \in 1..n |-> q[n - i + 1]]
<1>1. n \in Nat /\ \A i \in 1..n : n - i + 1 \in 1..n /\ n - (n - i + 1) + 1 = i
  OBVIOUS
<1>2. Reverse(q) = r
  BY DEF Reverse
<1>3. \A i \in 1..n : r[i] = q[n - i + 1] /\ r[i] \in M
  BY <1>1
<1>4. r \in Seq(M) /\ Len(r) = n
  <2>1. r \in [1..n -> M]
    BY <1>3
  <2> HIDE DEF r
  <2> QED BY <1>1, <2>1
<1>5. DOMAIN r = 1..n /\ DOMAIN q = 1..n
  OBVIOUS
<1> HIDE DEF r
<1>6. ToSet(r) \subseteq ToSet(q)
  BY <1>1, <1>3, <1>5 DEF ToSet
<1>7. ToSet(q) \subseteq ToSet(r)
  <2>1. ASSUME NEW i \in 1..n PROVE q[i] \in ToSet(r)
    <3>1. r[n - i + 1] = q[i] /\ n - i + 1 \in 1..n
      BY <1>1, <1>3
    <3> QED BY <1>5, <3>1 DEF ToSet
  <2> QED BY <1>5, <2>1 DEF ToSet
<1>8. ASSUME IsInjective(q) PROVE IsInjective(r)
  <2>1. SUFFICES ASSUME NEW a \in 1..n, NEW b \in 1..n, r[a] = r[b] PROVE a = b
    BY <1>5 DEF IsInjective
  <2>2. q[n - a + 1] = q[n - b + 1] /\ n - a + 1 \in 1..n /\ n - b + 1 \in 1..n
    BY <1>1, <1>3, <2>1
  <2>3. n - a + 1 = n - b + 1
    BY <1>5, <1>8, <2>2 DEF IsInjective
  <2> QED BY <1>1, <2>3
<1> QED BY <1>2, <1>4, <1>6, <1>7, <1>8

(* Those given up now, in what is pushed: each was outstanding.             *)
Lost(s, sd, q, late) ==
  {q[i] : i \in IF Undelivered(q, sd.state) THEN GivenUp(q, sd.state, Hopeless(s), late) ELSE {}}

LEMMA SteppedIs ==
  ASSUME NEW M, M \subseteq Messages, NEW s \in Sides, NEW sd \in SideRecords(M),
         NEW q \in Seq(M), NEW late
  PROVE  LET after == Stepped(s, sd, q, late)
             lost == Only(q, Lost(s, sd, q, late))
         IN  /\ after \in SideRecords(M) /\ after.seen = sd.seen
             /\ SameSide(sd, after) /\ after.acked = sd.acked /\ after.converted = sd.converted
             /\ after.pushed = sd.pushed \o Reverse(lost)
             /\ \A m \in Messages :
                  /\ m \in Lost(s, sd, q, late) => after.state[m] = "UserNotAvailable"
                  /\ Resolved(sd.state[m]) => after.state[m] = sd.state[m]
<1> DEFINE subscribes == Undelivered(q, sd.state)
           visited == IF subscribes THEN Outstanding(q, sd.state) ELSE {}
           gone == Lost(s, sd, q, late)
           seenNow == {q[i] : i \in visited}
           lost == Only(q, gone)
           state1 == [m \in Messages |->
                       IF m \in gone THEN "UserNotAvailable"
                       ELSE IF m \in seenNow THEN "Discovering" ELSE sd.state[m]]
           timer1 == Waits(q, sd.state)
           wake1 == IF subscribes /\ ~sd.subscribed
                      THEN IF Pair(s) \in up THEN "Located" ELSE "Step"
                      ELSE "No"
           pushed1 == sd.pushed \o Reverse(lost)
           after == Stepped(s, sd, q, late)
<1>1. after = [sd EXCEPT !.subscribed = subscribes, !.timer = timer1, !.wake = wake1,
                         !.state = state1, !.pushed = pushed1]
  BY DEF Stepped, Lost
<1>2. gone \cup seenNow \subseteq {q[i] : i \in Outstanding(q, sd.state)}
  BY DEF Lost, GivenUp
<1>3. \A m \in gone \cup seenNow : ~Resolved(sd.state[m])
  <2> SUFFICES ASSUME NEW i \in Outstanding(q, sd.state) PROVE ~Resolved(sd.state[q[i]])
    BY <1>2
  <2>1. i \in DOMAIN q /\ i \in i..Len(q)
    BY DEF Outstanding
  <2> QED BY <2>1 DEF Outstanding
<1>4. subscribes \in BOOLEAN /\ timer1 \in BOOLEAN /\ wake1 \in {"No", "Step", "Located"}
  BY DEF Undelivered, Waits
<1>5. sd.state \in [Messages -> States] /\ sd.pushed \in Seq(Messages)
  BY DEF SideRecords
<1>6. state1 \in [Messages -> States]
  BY <1>5 DEF States
<1>7. pushed1 \in Seq(Messages)
  <2>1. lost \in Seq(M)
    BY OnlyIs
  <2>2. Reverse(lost) \in Seq(M)
    BY <2>1, ReverseIs
  <2>3. Reverse(lost) \in Seq(Messages)
    BY <2>2
  <2> QED BY <1>5, <2>3
<1> HIDE DEF subscribes, visited, gone, seenNow, timer1, wake1, pushed1
<1>8. \A m \in Messages :
        /\ m \in gone => state1[m] = "UserNotAvailable"
        /\ m \notin gone => state1[m] = "Discovering" \/ state1[m] = sd.state[m]
        /\ m \notin gone \cup seenNow => state1[m] = sd.state[m]
  OBVIOUS
<1> HIDE DEF state1
<1>9. \A m \in Messages : state1[m] = "Delivered" => sd.state[m] = "Delivered"
  BY <1>8
<1>10. /\ after \in SideRecords(M) /\ after.seen = sd.seen
       /\ after.acked = sd.acked /\ after.converted = sd.converted
       /\ after.pushed = pushed1 /\ after.state = state1
  BY <1>1, <1>4, <1>6, <1>7 DEF SideRecords
<1> HIDE DEF after
<1>11. SameSide(sd, after)
  BY <1>9, <1>10 DEF SameSide, DeliveredTo
<1>12. \A m \in Messages : /\ m \in gone => after.state[m] = "UserNotAvailable"
                           /\ Resolved(sd.state[m]) => after.state[m] = sd.state[m]
  BY <1>3, <1>8, <1>10
<1> QED BY <1>10, <1>11, <1>12 DEF after, pushed1, gone, lost

LEMMA RaisedIs ==
  ASSUME NEW states \in [Messages -> States], NEW K, NEW state \in States
  PROVE  /\ Raised(states, K, state) \in [Messages -> States]
         /\ \A m \in Messages :
              /\ Raised(states, K, state)[m] = "Delivered" =>
                   states[m] = "Delivered" \/ (m \in K /\ state = "Delivered")
              /\ states[m] = "Delivered" => Raised(states, K, state)[m] = "Delivered"
              /\ Resolved(states[m]) => Resolved(Raised(states, K, state)[m])
<1>1. \A m \in Messages : states[m] \in States
  OBVIOUS
<1>2. \A a \in States : Rank(a) \in 0..3
  BY DEF Rank, States
<1>3. \A a, b \in States : Rank(a) > Rank(b) =>
        b # "Delivered" /\ (Resolved(b) => Resolved(a))
  BY DEF Rank, States, Resolved
<1>4. Raised(states, K, state) \in [Messages -> States]
  BY <1>1 DEF Raised
<1>5. \A m \in Messages :
        \/ Raised(states, K, state)[m] = states[m]
        \/ Raised(states, K, state)[m] = state /\ m \in K /\ Rank(state) > Rank(states[m])
  BY DEF Raised
<1> QED BY <1>1, <1>3, <1>4, <1>5

-----------------------------------------------------------------------------
(* Messages are sent *)

LEMMA DocumentFacts ==
  ASSUME NEW D, NEW S, NEW R, NEW n, NEW x, DeliveryHolds(D, S, R, n, x), NEW k \in Documents
  PROVE  /\ D \in [Documents -> Docs(SentBy(n))] /\ D[k] \in Docs(SentBy(n))
         /\ D[k].messages \in Seq(SentBy(n)) /\ IsInjective(D[k].messages)
         /\ D[k].receipts \subseteq SentBy(n) /\ D[k].published \in BOOLEAN
<1>1. D \in [Documents -> Docs(SentBy(n))] /\ IsInjective(D[k].messages)
  BY DEF DeliveryHolds, DeliveryTypes
<1>2. D[k] \in Docs(SentBy(n))
  BY <1>1
<1> QED BY <1>1, <1>2 DEF Docs

LEMMA SideRecordFacts ==
  ASSUME NEW D, NEW S, NEW R, NEW n, NEW x, DeliveryHolds(D, S, R, n, x), NEW s \in Sides
  PROVE  /\ S \in [Sides -> SideRecords(SentBy(n))] /\ S[s] \in SideRecords(SentBy(n))
         /\ S[s].seen \in Docs(SentBy(n)) /\ S[s].seen.messages \in Seq(SentBy(n))
         /\ IsInjective(S[s].seen.messages) /\ ToSet(S[s].seen.messages) \subseteq SentBy(n)
         /\ S[s].acked \subseteq Messages /\ S[s].state \in [Messages -> States]
         /\ S[s].pushed \in Seq(Messages) /\ S[s].converted \in BOOLEAN
<1>1. S \in [Sides -> SideRecords(SentBy(n))] /\ IsInjective(S[s].seen.messages)
  BY DEF DeliveryHolds, DeliveryTypes
<1>2. S[s] \in SideRecords(SentBy(n))
  BY <1>1
<1>3. S[s].seen \in Docs(SentBy(n)) /\ S[s].seen.messages \in Seq(SentBy(n))
  BY <1>2 DEF SideRecords, Docs
<1>4. ToSet(S[s].seen.messages) \subseteq SentBy(n)
  BY <1>3 DEF ToSet
<1> QED BY <1>1, <1>2, <1>3, <1>4 DEF SideRecords

(* The next message was not sent before.                                    *)
LEMMA NextIsNew ==
  ASSUME sent \in [Senders -> Nat], NEW e \in Senders, Sends(e)
  PROVE  /\ sent' \in [Senders -> Nat] /\ \A a \in Senders : sent[a] <= sent'[a]
         /\ NextMessage(e) \in SentBy(sent') /\ NextMessage(e) \notin SentBy(sent)
         /\ NextMessage(e) \in From(e) /\ NextMessage(e) \in Messages
<1>1. sent[e] \in Nat /\ sent[e] < MaxMessages /\ sent' = [sent EXCEPT ![e] = sent[e] + 1]
  BY DEF Sends
<1>2. NextMessage(e) = <<e, sent[e] + 1>> /\ sent[e] + 1 \in 1..MaxMessages
  BY <1>1, DeliveryAssumption DEF NextMessage
<1>3. sent' \in [Senders -> Nat] /\ sent'[e] = sent[e] + 1
      /\ \A a \in Senders : sent[a] <= sent'[a]
  BY <1>1
<1>4. NextMessage(e) \in Messages /\ NextMessage(e)[1] = e /\ NextMessage(e)[2] = sent[e] + 1
  BY <1>2 DEF Messages
<1> QED BY <1>1, <1>3, <1>4 DEF SentBy, From

LEMMA OneAlone ==
  ASSUME NEW M, NEW m \in M
  PROVE  <<m>> \in Seq(M) /\ ToSet(<<m>>) = {m} /\ IsInjective(<<m>>)
BY DEF ToSet, IsInjective

LEMMA HostSendsHolds ==
  ASSUME DeliveryInv, HostSends
  PROVE  DeliveryInv'
<1> DEFINE k == <<Host, Host>>
           m == NextMessage(Host)
           M == SentBy(sent')
           q == doc[k].messages
           d == [doc[k] EXCEPT !.published = TRUE, !.messages = Adding(@, <<m>>)]
<1>1. /\ Host \in Senders /\ Sends(Host) /\ ~restarted /\ restarted' = restarted
      /\ reached' = reached /\ sent \in [Senders -> Nat]
  BY DEF HostSends, Sends, DeliveryInv, DeliveryHolds, DeliveryTypes
<1>2. /\ sent' \in [Senders -> Nat] /\ \A a \in Senders : sent[a] <= sent'[a]
      /\ m \in SentBy(sent') /\ m \notin SentBy(sent)
  BY <1>1, NextIsNew
<1>3. DeliveryHolds(doc, side, reached, sent', restarted)
  BY <1>2, MoreHolds DEF DeliveryInv
<1>4. Host \in Threads /\ k \in Documents
  BY DeliveryAssumption DEF Threads, Documents
<1>5. q \in Seq(M) /\ IsInjective(q) /\ doc[k] \in Docs(M)
  BY <1>3, <1>4, DocumentFacts
<1>6. <<m>> \in Seq(M) /\ IsInjective(<<m>>)
  BY <1>2, OneAlone
<1>7. PICK more \in Seq(M) :
        /\ Adding(q, <<m>>) = q \o more /\ ToSet(more) \cap ToSet(q) = {}
        /\ IsInjective(q \o more) /\ q \o more \in Seq(M)
  <2> HIDE DEF m, q, M
  <2> DEFINE one == <<m>>
  <2>1. one \in Seq(M) /\ IsInjective(one)
    BY <1>6
  <2> HIDE DEF one
  <2>2. PICK more \in Seq(M) :
          /\ Adding(q, one) = q \o more /\ ToSet(more) \cap ToSet(q) = {}
          /\ IsInjective(q \o more) /\ q \o more \in Seq(M)
    BY <1>5, <2>1, AddingIs, ZenonT(60)
  <2> QED BY <2>2 DEF one
<1>8. d = [doc[k] EXCEPT !.published = TRUE, !.messages = q \o more]
  BY <1>7
<1> HIDE DEF m, M, d
<1>9. /\ d \in Docs(M) /\ d.published /\ d.messages = q \o more
      /\ d.receipts = doc[k].receipts
  BY <1>5, <1>7, <1>8 DEF Docs
<1>10. doc' = [doc EXCEPT ![k] = HostDocument(Host, d, side)] /\ side' = Contacted(Host, side)
  BY DEF HostSends, HostStepped, HostDocument, Contacted, d, m
<1>11. \A s \in Sides : ~(~Hosting(s) /\ Thread(s) = Host /\ Self(s) = Host)
  BY SideFacts
<1>12. DeliveryHolds(doc', Contacted(Host, side), reached, sent', restarted)
  <2> HIDE DEF DeliveryHolds
  <2> QED BY <1>1, <1>3, <1>4, <1>7, <1>9, <1>10, <1>11, HostHolds DEF M
<1> QED BY <1>1, <1>10, <1>12 DEF DeliveryInv

(* A guest's document grows by what was not sent before.                    *)
LEMMA GuestAppends ==
  ASSUME NEW D, NEW S, NEW R, NEW n, NEW n1, NEW x,
         DeliveryHolds(D, S, R, n, x), DeliveryHolds(D, S, R, n1, x),
         NEW s \in Sides, ~Hosting(s), Thread(s) = Host,
         NEW more \in Seq(SentBy(n1)), ToSet(more) \subseteq From(Self(s)),
         ToSet(more) \cap SentBy(n) = {}, IsInjective(D[Own(s)].messages \o more),
         NEW D1, D1 = [D EXCEPT ![Own(s)].messages = D[Own(s)].messages \o more]
  PROVE  DeliveryHolds(D1, S, R, n1, x)
<1> DEFINE k == Own(s)
           q == D[k].messages
<1>1. k \in Documents
  BY SideFacts
<1>2. /\ D[k] \in Docs(SentBy(n1)) /\ q \in Seq(SentBy(n1)) /\ q \in Seq(SentBy(n))
      /\ D \in [Documents -> Docs(SentBy(n1))]
  BY <1>1, DocumentFacts
<1>3. q \o more \in Seq(SentBy(n1)) /\ ToSet(q \o more) = ToSet(q) \cup ToSet(more)
  <2> HIDE DEF q
  <2> QED BY <1>2, ToSetAppended
<1>4. /\ D1 \in [Documents -> Docs(SentBy(n1))] /\ D1[k].messages = q \o more
      /\ D1[k].receipts = D[k].receipts /\ D1[k].published = D[k].published
      /\ \A j \in Documents : j # k => D1[j] = D[j]
  <2> DEFINE d == [D[k] EXCEPT !.messages = q \o more]
  <2>1. D1 = [D EXCEPT ![k] = d]
    OBVIOUS
  <2> HIDE DEF q
  <2>2. d \in Docs(SentBy(n1)) /\ d.messages = q \o more /\ d.receipts = D[k].receipts
        /\ d.published = D[k].published
    BY <1>2, <1>3 DEF Docs
  <2> HIDE DEF d
  <2> QED BY <1>1, <1>2, <2>1, <2>2
<1> HIDE DEF q
<1>5. \A s2 \in Sides : /\ Own(s2) \in Documents /\ Theirs(s2) \in Documents
                        /\ Own(s2) = k => ~Hosting(s2) /\ Self(s2) = Self(s) /\ Thread(s2) = Host
                        /\ Theirs(s2) = k => Hosting(s2)
  BY SideFacts DEF Own, Theirs, Hosting
<1>6. \A j \in Documents : D1[j].receipts = D[j].receipts /\ D1[j].published = D[j].published
  BY <1>4
<1>7. \A j \in Documents : ToSet(D[j].messages) \subseteq SentBy(n) /\ D[j].receipts \subseteq SentBy(n)
  <2> SUFFICES ASSUME NEW j \in Documents
               PROVE  ToSet(D[j].messages) \subseteq SentBy(n) /\ D[j].receipts \subseteq SentBy(n)
    OBVIOUS
  <2>1. D[j].messages \in Seq(SentBy(n)) /\ D[j].receipts \subseteq SentBy(n)
    BY DocumentFacts
  <2> QED BY <2>1 DEF ToSet
<1>8. ASSUME NEW j \in Documents, NEW K, K \subseteq SentBy(n), NEW e, UpTo(D[j].messages, K, e, R)
      PROVE  UpTo(D1[j].messages, K, e, R)
  <2>1. CASE j = k
    <3>1. UpTo(q, K, e, R) /\ ToSet(more) \cap K = {}
      BY <1>8, <2>1 DEF q
    <3>2. UpTo(q \o more, K, e, R)
      BY <1>2, <3>1, UpToAppended
    <3> QED BY <1>4, <2>1, <3>2
  <2>2. CASE j # k
    BY <1>4, <1>8, <2>2
  <2> QED BY <2>1, <2>2
<1>9. DeliveryTypes(D1, S, n1)
  BY <1>4 DEF DeliveryHolds, DeliveryTypes, q
<1>10. GuestsWrite(D1, S)
  <2> SUFFICES ASSUME NEW s2 \in Sides, ~Hosting(s2)
               PROVE  /\ ToSet(D1[Own(s2)].messages) \subseteq From(Self(s2))
                      /\ Thread(s2) # Host => D1[Own(s2)].messages = << >>
    BY DEF DeliveryHolds, GuestsWrite
  <2>1. /\ ToSet(D[Own(s2)].messages) \subseteq From(Self(s2))
        /\ Thread(s2) # Host => D[Own(s2)].messages = << >>
    BY DEF DeliveryHolds, GuestsWrite
  <2>2. CASE Own(s2) = k
    <3>1. D1[Own(s2)].messages = q \o more /\ Self(s2) = Self(s) /\ Thread(s2) = Host
      BY <1>4, <1>5, <2>2
    <3>2. ToSet(q) \subseteq From(Self(s2))
      BY <2>1, <2>2 DEF q
    <3> QED BY <1>3, <3>1, <3>2
  <2>3. CASE Own(s2) # k
    BY <1>4, <1>5, <2>1, <2>3
  <2> QED BY <2>2, <2>3
<1>11. HostIsGone(D1, x)
  BY <1>5, <1>6 DEF DeliveryHolds, HostIsGone
<1>12. GuestsKnow(D1, S, x)
  <2> SUFFICES ASSUME NEW s2 \in Sides, ~Hosting(s2), ~Gone(s2, x)
               PROVE  D1[Own(s2)].receipts \cup ToSet(S[s2].seen.messages)
                        \subseteq ToSet(D1[Theirs(s2)].messages)
    BY DEF GuestsKnow
  <2>1. D[Own(s2)].receipts \cup ToSet(S[s2].seen.messages) \subseteq ToSet(D[Theirs(s2)].messages)
    BY DEF DeliveryHolds, GuestsKnow
  <2> QED BY <1>4, <1>5, <1>6, <2>1
<1>13. NotConverted(D1, S)
  <2> SUFFICES ASSUME NEW s2 \in Sides, ~Hosting(s2), Thread(s2) = Host, Self(s2) \in Threads,
                      ~S[s2].converted
               PROVE  /\ D1[<<Self(s2), Self(s2)>>].messages = << >>
                      /\ ~D1[<<Self(s2), Self(s2)>>].published
    BY DEF NotConverted
  <2>1. <<Self(s2), Self(s2)>> \in Documents
    BY SideFacts DEF Documents
  <2>2. <<Self(s2), Self(s2)>> # k
    BY DEF Own, Hosting
  <2> QED BY <1>4, <2>1, <2>2 DEF DeliveryHolds, NotConverted
<1>14. ReceiptsTrue(D1, S, R)
  <2> SUFFICES ASSUME NEW s2 \in Sides
               PROVE  UpTo(D1[Theirs(s2)].messages, D1[Own(s2)].receipts, Self(s2), R)
    BY DEF ReceiptsTrue
  <2>1. UpTo(D[Theirs(s2)].messages, D[Own(s2)].receipts, Self(s2), R)
    BY DEF DeliveryHolds, ReceiptsTrue
  <2> QED BY <1>5, <1>6, <1>7, <1>8, <2>1
<1>15. SeenTrue(D1, S, R)
  <2> SUFFICES ASSUME NEW s2 \in Sides
               PROVE  UpTo(D1[Theirs(s2)].messages, ToSet(S[s2].seen.messages), Self(s2), R)
    BY DEF SeenTrue
  <2>1. UpTo(D[Theirs(s2)].messages, ToSet(S[s2].seen.messages), Self(s2), R)
    BY DEF DeliveryHolds, SeenTrue
  <2>2. ToSet(S[s2].seen.messages) \subseteq SentBy(n)
    BY SideRecordFacts
  <2> QED BY <1>5, <1>8, <2>1, <2>2
<1>16. DeliveredTrue(D1, S, R)
  <2> SUFFICES ASSUME NEW s2 \in Sides
               PROVE  /\ UpTo(D1[Own(s2)].messages, DeliveredTo(S[s2]), Other(s2), R)
                      /\ DeliveredTo(S[s2]) \subseteq ToSet(D1[Own(s2)].messages)
                      /\ \A m \in S[s2].acked : Received(Other(s2), R, m)
    BY DEF DeliveredTrue
  <2>1. /\ UpTo(D[Own(s2)].messages, DeliveredTo(S[s2]), Other(s2), R)
        /\ DeliveredTo(S[s2]) \subseteq ToSet(D[Own(s2)].messages)
        /\ \A m \in S[s2].acked : Received(Other(s2), R, m)
    BY DEF DeliveryHolds, DeliveredTrue
  <2>2. DeliveredTo(S[s2]) \subseteq SentBy(n)
    BY <1>5, <1>7, <2>1
  <2>3. UpTo(D1[Own(s2)].messages, DeliveredTo(S[s2]), Other(s2), R)
    BY <1>5, <1>8, <2>1, <2>2
  <2>4. ToSet(D[Own(s2)].messages) \subseteq ToSet(D1[Own(s2)].messages)
    <3>1. CASE Own(s2) = k
      BY <1>3, <1>4, <3>1 DEF q
    <3>2. CASE Own(s2) # k
      BY <1>4, <1>5, <3>2
    <3> QED BY <3>1, <3>2
  <2> QED BY <2>1, <2>3, <2>4
<1> QED BY <1>9, <1>10, <1>11, <1>12, <1>13, <1>14, <1>15, <1>16 DEF DeliveryHolds

LEMMA GuestSendsHolds ==
  ASSUME DeliveryInv, NEW s \in Sides, GuestSends(s)
  PROVE  DeliveryInv'
<1> DEFINE k == Own(s)
           m == NextMessage(Self(s))
           M == SentBy(sent')
           q == doc[k].messages
<1>1. /\ Self(s) \in Senders /\ Sends(Self(s)) /\ restarted' = restarted
      /\ reached' = reached /\ sent \in [Senders -> Nat]
      /\ ~Hosting(s) /\ Thread(s) = Host
      /\ doc' = [doc EXCEPT ![k].messages = Adding(q, <<m>>)]
      /\ side' = [side EXCEPT ![s] = Nudged(side[s])]
  BY DEF GuestSends, Sends, DeliveryInv, DeliveryHolds, DeliveryTypes
<1>2. /\ sent' \in [Senders -> Nat] /\ \A a \in Senders : sent[a] <= sent'[a]
      /\ m \in M /\ m \notin SentBy(sent) /\ m \in From(Self(s))
  BY <1>1, NextIsNew
<1>3. DeliveryHolds(doc, side, reached, sent', restarted)
  BY <1>2, MoreHolds DEF DeliveryInv
<1>4. k \in Documents
  BY SideFacts
<1>5. q \in Seq(M) /\ IsInjective(q)
  BY <1>3, <1>4, DocumentFacts
<1>6. <<m>> \in Seq(M) /\ IsInjective(<<m>>) /\ ToSet(<<m>>) = {m}
  BY <1>2, OneAlone
<1>7. PICK more \in Seq(M) :
        /\ Adding(q, <<m>>) = q \o more /\ ToSet(more) \subseteq ToSet(<<m>>)
        /\ IsInjective(q \o more)
  <2> DEFINE one == <<m>>
  <2>1. one \in Seq(M) /\ IsInjective(one)
    BY <1>6
  <2> HIDE DEF q, M, one
  <2>2. PICK more \in Seq(M) :
          /\ Adding(q, one) = q \o more /\ ToSet(more) \subseteq ToSet(one)
          /\ IsInjective(q \o more)
    BY <1>5, <2>1, AddingIs, ZenonT(60)
  <2> QED BY <2>2 DEF one
<1>8. doc' = [doc EXCEPT ![k].messages = doc[k].messages \o more]
  BY <1>1, <1>7
<1> HIDE DEF m
<1>9. ToSet(more) \subseteq From(Self(s)) /\ ToSet(more) \cap SentBy(sent) = {}
  BY <1>2, <1>6, <1>7
<1>10. DeliveryHolds(doc, side, reached, sent, restarted)
  BY DEF DeliveryInv
<1>11. DeliveryHolds(doc', side, reached, sent', restarted)
  <2>1. more \in Seq(SentBy(sent')) /\ IsInjective(doc[Own(s)].messages \o more)
    BY <1>7
  <2>2. doc' = [doc EXCEPT ![Own(s)].messages = doc[Own(s)].messages \o more]
    BY <1>8
  <2>3. ~Hosting(s) /\ Thread(s) = Host
    BY <1>1
  <2> HIDE DEF k, M, q
  <2> QED BY <1>3, <1>9, <1>10, <2>1, <2>2, <2>3, GuestAppends
<1>12. /\ side' \in [Sides -> SideRecords(M)]
       /\ \A s2 \in Sides : SameSide(side[s2], side'[s2])
  <2>1. \A s2 \in Sides : SameSide(side[s2], side[s2])
    BY DEF SameSide
  <2>2. side \in [Sides -> SideRecords(M)] /\ side[s] \in SideRecords(M)
    BY <1>3, SideRecordFacts
  <2>3. Nudged(side[s]) \in SideRecords(M) /\ SameSide(side[s], Nudged(side[s]))
    BY <2>2, NudgedIs
  <2> HIDE DEF M
  <2> QED BY <1>1, <2>1, <2>2, <2>3
<1> QED BY <1>1, <1>11, <1>12, SidesHold DEF DeliveryInv

-----------------------------------------------------------------------------
(* Documents are read *)

(* All that stands in a document is received, when what was not seen in it  *)
(* before is.                                                               *)
LEMMA AllReceived ==
  ASSUME NEW M, NEW q \in Seq(M), NEW old, NEW e, NEW R, NEW R1,
         UpTo(q, ToSet(old), e, R), R \subseteq R1,
         \A m \in ToSet(q) \ ToSet(old) : Received(e, R1, m)
  PROVE  \A m \in ToSet(q) : Received(e, R1, m)
<1>1. DOMAIN q = 1..Len(q) /\ Len(q) \in Nat
  OBVIOUS
<1>2. UpTo(q, ToSet(old), e, R1)
  BY UpToMore
<1> QED BY <1>1, <1>2, UpToMember

LEMMA AllUpTo ==
  ASSUME NEW M, NEW q \in Seq(M), NEW K, NEW e, NEW R, \A m \in ToSet(q) : Received(e, R, m)
  PROVE  UpTo(q, K, e, R)
BY DEF UpTo, ToSet

(* What receipts of K cover is received, with all that stands before it.    *)
LEMMA CoveredIs ==
  ASSUME NEW M, NEW q \in Seq(M), IsInjective(q), NEW known, NEW K, NEW receipts,
         receipts \subseteq K, NEW e, NEW R, UpTo(q, K, e, R)
  PROVE  /\ CoveredBy(q, known, receipts) \subseteq ToSet(q)
         /\ \A m \in CoveredBy(q, known, receipts) : Received(e, R, m)
         /\ UpTo(q, CoveredBy(q, known, receipts), e, R)
<1>1. DOMAIN q = 1..Len(q) /\ Len(q) \in Nat
  OBVIOUS
<1>2. ASSUME NEW m \in CoveredBy(q, known, receipts)
      PROVE  \E i \in 1..Len(q), k \in 1..Len(q) : i <= k /\ q[i] = m /\ q[k] \in K
  <2>1. PICK i \in 1..Len(q) : q[i] = m /\ \E k \in i..Len(q) : q[k] \in receipts
    BY <1>1, <1>2 DEF CoveredBy
  <2>2. PICK k \in i..Len(q) : q[k] \in receipts
    BY <2>1
  <2>3. k \in 1..Len(q) /\ i <= k
    BY <1>1
  <2> QED BY <2>1, <2>2, <2>3
<1>3. CoveredBy(q, known, receipts) \subseteq ToSet(q)
  BY <1>1, <1>2 DEF ToSet
<1>4. \A m \in CoveredBy(q, known, receipts) : Received(e, R, m)
  BY <1>2 DEF UpTo
<1>5. ASSUME NEW i \in 1..Len(q), NEW k \in 1..Len(q), i <= k,
             q[k] \in CoveredBy(q, known, receipts)
      PROVE  Received(e, R, q[i])
  <2>1. PICK j \in 1..Len(q), l \in 1..Len(q) : j <= l /\ q[j] = q[k] /\ q[l] \in K
    BY <1>2, <1>5
  <2>2. j = k
    BY <1>1, <2>1 DEF IsInjective
  <2>3. i <= l
    BY <1>1, <1>5, <2>1, <2>2
  <2> QED BY <2>1, <2>3 DEF UpTo
<1> QED BY <1>3, <1>4, <1>5 DEF UpTo

LEMMA UpToBoth ==
  ASSUME NEW q, NEW K, NEW L, NEW e, NEW R, UpTo(q, K, e, R), UpTo(q, L, e, R)
  PROVE  UpTo(q, K \cup L, e, R)
BY DEF UpTo

LEMMA ChangedIs ==
  ASSUME NEW M, NEW old, NEW d \in Docs(M), IsInjective(d.messages)
  PROVE  /\ Changed(old, d) \in Seq(M) /\ IsInjective(Changed(old, d))
         /\ ToSet(Changed(old, d)) = ToSet(d.messages) \ ToSet(old.messages)
<1>1. d.messages \in Seq(M)
  BY DEF Docs
<1> DEFINE q == d.messages
           S == ToSet(q) \ ToSet(old.messages)
<1>2. Changed(old, d) = Only(q, S)
  BY DEF Changed
<1>3. q \in Seq(M) /\ IsInjective(q) /\ S \subseteq ToSet(q)
  BY <1>1
<1> HIDE DEF q, S
<1>4. Only(q, S) \in Seq(M) /\ ToSet(Only(q, S)) = ToSet(q) \cap S /\ IsInjective(Only(q, S))
  BY <1>3, OnlyIs
<1>5. ToSet(Changed(old, d)) = S
  BY <1>2, <1>3, <1>4
<1> QED BY <1>2, <1>4, <1>5 DEF S, q

(* An end that has read the document of the other, in what it keeps: the    *)
(* messages are received, what counts as delivered stands before receipts.  *)
LEMMA ReadHolds ==
  ASSUME NEW D, NEW S, NEW R, NEW R1, NEW n, NEW x, DeliveryHolds(D, S, R, n, x), R \subseteq R1,
         NEW s \in Sides, ~Gone(s, x), NEW b \in SideRecords(SentBy(n)), b.seen = D[Theirs(s)],
         b.converted = S[s].converted,
         \A m \in ToSet(D[Theirs(s)].messages) : Received(Self(s), R1, m),
         UpTo(D[Own(s)].messages, DeliveredTo(b), Other(s), R),
         DeliveredTo(b) \subseteq ToSet(D[Own(s)].messages),
         \A m \in b.acked : Received(Other(s), R, m),
         NEW S1, S1 = [S EXCEPT ![s] = b]
  PROVE  DeliveryHolds(D, S1, R1, n, x)
<1>1. S \in [Sides -> SideRecords(SentBy(n))] /\ n \in [Senders -> Nat]
  BY DEF DeliveryHolds, DeliveryTypes
<1>2. DeliveryHolds(D, S, R1, n, x)
  <2>1. \A e \in Senders : n[e] <= n[e]
    BY <1>1
  <2> QED BY <1>1, <2>1, MoreHolds
<1>3. /\ S1 \in [Sides -> SideRecords(SentBy(n))] /\ S1[s] = b
      /\ \A s2 \in Sides : s2 # s => S1[s2] = S[s2]
  BY <1>1
<1>4. /\ Theirs(s) \in Documents /\ Own(s) \in Documents /\ Opposite(s) \in Sides
      /\ Own(Opposite(s)) = Theirs(s) /\ Self(Opposite(s)) = Other(s)
      /\ Hosting(Opposite(s)) <=> ~Hosting(s)
      /\ Theirs(Opposite(s)) = Own(s)
  BY SideFacts
<1>5. D[Theirs(s)].messages \in Seq(SentBy(n)) /\ IsInjective(D[Theirs(s)].messages)
  BY <1>2, <1>4, DocumentFacts
<1>6. DeliveryTypes(D, S1, n)
  BY <1>2, <1>3, <1>5 DEF DeliveryHolds, DeliveryTypes
<1>7. GuestsWrite(D, S1)
  <2>1. Hosting(s) => ToSet(D[Theirs(s)].messages) \subseteq From(Other(s))
    BY <1>2, <1>4 DEF DeliveryHolds, GuestsWrite
  <2> QED BY <1>2, <1>3, <2>1 DEF DeliveryHolds, GuestsWrite
<1>8. HostIsGone(D, x)
  BY <1>2 DEF DeliveryHolds
<1>9. GuestsKnow(D, S1, x)
  <2> SUFFICES ASSUME NEW s2 \in Sides, ~Hosting(s2), ~Gone(s2, x)
               PROVE  D[Own(s2)].receipts \cup ToSet(S1[s2].seen.messages)
                        \subseteq ToSet(D[Theirs(s2)].messages)
    BY DEF GuestsKnow
  <2>1. D[Own(s2)].receipts \cup ToSet(S[s2].seen.messages) \subseteq ToSet(D[Theirs(s2)].messages)
    BY <1>2 DEF DeliveryHolds, GuestsKnow
  <2> QED BY <1>3, <2>1
<1>10. NotConverted(D, S1)
  BY <1>2, <1>3 DEF DeliveryHolds, NotConverted
<1>11. ReceiptsTrue(D, S1, R1)
  BY <1>2 DEF DeliveryHolds, ReceiptsTrue
<1>12. SeenTrue(D, S1, R1)
  <2>1. UpTo(D[Theirs(s)].messages, ToSet(b.seen.messages), Self(s), R1)
    BY <1>5, AllUpTo
  <2> QED BY <1>2, <1>3, <2>1 DEF DeliveryHolds, SeenTrue
<1>13. DeliveredTrue(D, S1, R1)
  <2>1. UpTo(D[Own(s)].messages, DeliveredTo(b), Other(s), R1)
    BY UpToMore
  <2>2. \A m \in b.acked : Received(Other(s), R1, m)
    BY DEF Received
  <2> QED BY <1>2, <1>3, <2>1, <2>2 DEF DeliveryHolds, DeliveredTrue
<1> QED BY <1>6, <1>7, <1>8, <1>9, <1>10, <1>11, <1>12, <1>13 DEF DeliveryHolds

LEMMA OnSlavePublicationUpdatedHolds ==
  ASSUME DeliveryInv, NEW s \in Sides, OnSlavePublicationUpdated(s)
  PROVE  DeliveryInv'
<1> DEFINE t == Thread(s)
           k == Own(s)
           M == SentBy(sent)
           theirs == doc[Theirs(s)]
           new == Changed(side[s].seen, theirs)
           q == doc[k].messages
           d == [doc[k] EXCEPT !.messages = Adding(q, new)]
           receipts == NewReceipts(d.messages, side[s].acked, theirs.receipts)
           covered == CoveredBy(d.messages, side[s].acked, receipts)
           tell == {m \in ToldOf(receipts, covered) : side[s].state[m] # "Delivered"}
           b == [side[s] EXCEPT !.seen = theirs, !.acked = side[s].acked \cup covered,
                                !.state = Raised(side[s].state, tell, "Delivered")]
           S1 == [side EXCEPT ![s] = b]
           R1 == reached \cup {<<t, m>> : m \in ToSet(new)}
<1>1. k = <<t, t>> /\ k \in Documents /\ t \in Threads /\ Self(s) = t /\ Hosting(s)
  BY SideFacts DEF OnSlavePublicationUpdated, Own, Hosting
<1>2. /\ doc[k].published /\ reached' = R1 /\ sent' = sent /\ restarted' = restarted
      /\ doc' = [doc EXCEPT ![<<t, t>>] = HostDocument(t, d, S1)] /\ side' = Contacted(t, S1)
  <2>1. HostStepped(t, d, S1)
    BY DEF OnSlavePublicationUpdated, HostStepped
  <2>2. doc' = [doc EXCEPT ![<<t, t>>] = HostDocument(t, d, S1)] /\ side' = Contacted(t, S1)
    <3> HIDE DEF t, d, S1
    <3> QED BY <2>1, Zenon DEF HostStepped, HostDocument, Contacted
  <2>3. doc[k].published /\ sent' = sent /\ restarted' = restarted
    BY DEF OnSlavePublicationUpdated
  <2>4. reached' = R1
    BY Zenon DEF OnSlavePublicationUpdated
  <2> QED BY <2>2, <2>3, <2>4
<1>3. DeliveryHolds(doc, side, reached, sent, restarted)
  BY DEF DeliveryInv
<1>4. ~Gone(s, restarted)
  BY <1>1, <1>2, <1>3 DEF DeliveryHolds, HostIsGone
<1>5. /\ Theirs(s) \in Documents /\ Opposite(s) \in Sides /\ ~Hosting(Opposite(s))
      /\ Own(Opposite(s)) = Theirs(s) /\ Theirs(Opposite(s)) = k
      /\ Self(Opposite(s)) = Other(s) /\ Thread(Opposite(s)) = t
  BY <1>1, SideFacts
<1>6. /\ doc[k] \in Docs(M) /\ q \in Seq(M) /\ IsInjective(q)
      /\ theirs \in Docs(M) /\ theirs.messages \in Seq(M) /\ IsInjective(theirs.messages)
  BY <1>1, <1>3, <1>5, DocumentFacts
<1>7. /\ side[s] \in SideRecords(M) /\ side[s].acked \subseteq Messages
      /\ side[s].state \in [Messages -> States]
  BY <1>3, SideRecordFacts
<1>8. /\ new \in Seq(M) /\ IsInjective(new)
      /\ ToSet(new) = ToSet(theirs.messages) \ ToSet(side[s].seen.messages)
  <2> HIDE DEF theirs, M
  <2> QED BY <1>6, ChangedIs
<1>9. PICK more \in Seq(M) :
        /\ Adding(q, new) = q \o more /\ ToSet(more) \cap ToSet(q) = {}
        /\ IsInjective(q \o more) /\ q \o more \in Seq(M)
  <2> HIDE DEF q, new, M
  <2> QED BY <1>6, <1>8, AddingIs
<1>10. /\ d \in Docs(M) /\ d.published /\ d.messages = q \o more
       /\ d.receipts = doc[k].receipts
  <2>1. d = [doc[k] EXCEPT !.messages = q \o more]
    BY <1>9
  <2> HIDE DEF d, M
  <2> QED BY <1>2, <1>6, <1>9, <2>1 DEF Docs
<1> HIDE DEF new, d
<1>11. receipts \subseteq theirs.receipts /\ tell \subseteq theirs.receipts
  BY DEF NewReceipts, ToldOf
<1>12. theirs.receipts \subseteq ToSet(q)
  BY <1>3, <1>4, <1>5 DEF DeliveryHolds, GuestsKnow, Gone
<1>13. UpTo(q, theirs.receipts, Other(s), reached)
  BY <1>3, <1>5 DEF DeliveryHolds, ReceiptsTrue
<1> HIDE DEF theirs, q, receipts
<1>14. UpTo(q \o more, theirs.receipts, Other(s), reached)
  <2>1. ToSet(more) \cap theirs.receipts = {}
    BY <1>9, <1>12
  <2> HIDE DEF M
  <2> QED BY <1>6, <1>13, <2>1, UpToAppended
<1>15. covered \subseteq ToSet(d.messages) /\ \A m \in covered : Received(Other(s), reached, m)
  <2> HIDE DEF M
  <2> QED BY <1>9, <1>10, <1>11, <1>14, CoveredIs
<1>16. covered \subseteq Messages
  <2>1. ToSet(d.messages) \subseteq M
    BY <1>9, <1>10 DEF ToSet
  <2> QED BY <1>15, <2>1 DEF SentBy
<1> HIDE DEF covered, tell
<1>17. /\ Raised(side[s].state, tell, "Delivered") \in [Messages -> States]
       /\ \A m \in Messages : Raised(side[s].state, tell, "Delivered")[m] = "Delivered" =>
            side[s].state[m] = "Delivered" \/ m \in tell
  BY <1>7, RaisedIs DEF States
<1>18. /\ b \in SideRecords(M) /\ b.seen = theirs /\ b.acked = side[s].acked \cup covered
       /\ b.state = Raised(side[s].state, tell, "Delivered")
       /\ b.converted = side[s].converted
  <2> DEFINE state1 == Raised(side[s].state, tell, "Delivered")
  <2>1. state1 \in [Messages -> States]
    BY <1>17
  <2> HIDE DEF state1, M
  <2>2. b = [side[s] EXCEPT !.seen = theirs, !.acked = side[s].acked \cup covered,
                            !.state = state1]
    BY DEF state1
  <2> HIDE DEF b
  <2>3. /\ b \in SideRecords(M) /\ b.seen = theirs /\ b.acked = side[s].acked \cup covered
        /\ b.state = state1 /\ b.converted = side[s].converted
    BY <1>6, <1>7, <1>16, <2>1, <2>2 DEF SideRecords
  <2> QED BY <2>3 DEF state1
<1> HIDE DEF b
<1>19. DeliveredTo(b) \subseteq DeliveredTo(side[s]) \cup theirs.receipts
  BY <1>11, <1>17, <1>18 DEF DeliveredTo
<1>20. /\ UpTo(q, DeliveredTo(side[s]), Other(s), reached)
       /\ DeliveredTo(side[s]) \subseteq ToSet(q)
       /\ \A m \in side[s].acked : Received(Other(s), reached, m)
  BY <1>1, <1>3 DEF DeliveryHolds, DeliveredTrue, q
<1>21. UpTo(q, DeliveredTo(b), Other(s), reached)
  BY <1>13, <1>19, <1>20, UpToBoth, UpToLess
<1>22. \A m \in ToSet(theirs.messages) : Received(t, R1, m)
  <2>1. UpTo(theirs.messages, ToSet(side[s].seen.messages), t, reached)
    BY <1>1, <1>3 DEF DeliveryHolds, SeenTrue, theirs
  <2>2. \A m \in ToSet(theirs.messages) \ ToSet(side[s].seen.messages) : Received(t, R1, m)
    BY <1>8 DEF Received
  <2>3. reached \subseteq R1
    OBVIOUS
  <2> HIDE DEF R1, M, t
  <2> QED BY <1>6, <2>1, <2>2, <2>3, AllReceived
<1>23. DeliveryHolds(doc, S1, R1, sent, restarted)
  <2>1. reached \subseteq R1
    OBVIOUS
  <2>2. /\ b.seen = doc[Theirs(s)]
        /\ \A m \in ToSet(doc[Theirs(s)].messages) : Received(Self(s), R1, m)
    BY <1>1, <1>18, <1>22 DEF theirs
  <2>3. /\ UpTo(doc[Own(s)].messages, DeliveredTo(b), Other(s), reached)
        /\ DeliveredTo(b) \subseteq ToSet(doc[Own(s)].messages)
    BY <1>1, <1>12, <1>19, <1>20, <1>21 DEF q
  <2>4. \A m \in b.acked : Received(Other(s), reached, m)
    BY <1>15, <1>18, <1>20
  <2>5. b \in SideRecords(SentBy(sent)) /\ b.converted = side[s].converted
    BY <1>18
  <2>6. S1 = [side EXCEPT ![s] = b]
    OBVIOUS
  <2> HIDE DEF R1, S1
  <2> QED BY <1>3, <1>4, <2>1, <2>2, <2>3, <2>4, <2>5, <2>6, ReadHolds
<1>24. \A s2 \in Sides : ~Hosting(s2) /\ Thread(s2) = Host /\ Self(s2) = t => S1[s2].converted
  <2> SUFFICES ASSUME NEW s2 \in Sides, ~Hosting(s2), Thread(s2) = Host, Self(s2) = t
               PROVE  S1[s2].converted
    OBVIOUS
  <2>1. side[s2].converted
    BY <1>1, <1>2, <1>3 DEF DeliveryHolds, NotConverted
  <2>2. s2 # s /\ side \in [Sides -> SideRecords(M)]
    BY <1>1, <1>3, SideRecordFacts
  <2> HIDE DEF M
  <2> QED BY <2>1, <2>2
<1>25. DeliveryHolds(doc', Contacted(t, S1), R1, sent, restarted)
  <2>1. ~(t = Host /\ restarted)
    BY <1>4 DEF Gone
  <2>2. d.messages = doc[<<t, t>>].messages \o more /\ ToSet(more) \cap ToSet(doc[<<t, t>>].messages) = {}
    BY <1>1, <1>9, <1>10 DEF q
  <2>3. d \in Docs(SentBy(sent)) /\ d.published /\ IsInjective(d.messages)
        /\ d.receipts \subseteq doc[<<t, t>>].receipts
    BY <1>1, <1>9, <1>10
  <2>4. <<t, t>> \in Documents /\ t \in Threads /\ more \in Seq(SentBy(sent))
    BY <1>1, <1>9
  <2>5. doc' = [doc EXCEPT ![<<t, t>>] = HostDocument(t, d, S1)]
    BY <1>2
  <2> HIDE DEF R1, S1, t, k, M
  <2> QED BY <1>23, <1>24, <2>1, <2>2, <2>3, <2>4, <2>5, HostHolds
<1> QED BY <1>2, <1>25 DEF DeliveryInv

(* A guest publishes a receipt of what it has received.                     *)
LEMMA ReceiptHolds ==
  ASSUME NEW D, NEW S, NEW R, NEW n, NEW x, DeliveryHolds(D, S, R, n, x),
         NEW s \in Sides, ~Hosting(s), ~Gone(s, x),
         NEW K, K \subseteq D[Own(s)].receipts \/ K \subseteq ToSet(D[Theirs(s)].messages),
         K \subseteq SentBy(n),
         UpTo(D[Theirs(s)].messages, K, Self(s), R),
         NEW D1, D1 = [D EXCEPT ![Own(s)] = [D[Own(s)] EXCEPT !.published = TRUE, !.receipts = K]]
  PROVE  DeliveryHolds(D1, S, R, n, x)
<1> DEFINE k == Own(s)
<1>1. k \in Documents
  BY SideFacts
<1>2. D[k] \in Docs(SentBy(n)) /\ D \in [Documents -> Docs(SentBy(n))]
  BY <1>1, DocumentFacts
<1>3. /\ D1 \in [Documents -> Docs(SentBy(n))] /\ D1[k].receipts = K
      /\ D1[k].messages = D[k].messages
      /\ \A j \in Documents : j # k => D1[j] = D[j]
  <2> DEFINE d == [D[k] EXCEPT !.published = TRUE, !.receipts = K]
  <2>1. d \in Docs(SentBy(n)) /\ d.messages = D[k].messages /\ d.receipts = K
    BY <1>2 DEF Docs
  <2>2. D1 = [D EXCEPT ![k] = d]
    OBVIOUS
  <2> HIDE DEF d
  <2> QED BY <1>1, <1>2, <2>1, <2>2
<1>4. \A s2 \in Sides : /\ Own(s2) \in Documents /\ Theirs(s2) \in Documents
                        /\ Own(s2) = k => s2 = s
  <2> SUFFICES ASSUME NEW s2 \in Sides
               PROVE  /\ Own(s2) \in Documents /\ Theirs(s2) \in Documents
                      /\ Own(s2) = k => s2 = s
    OBVIOUS
  <2>1. Own(s2) \in Documents /\ Theirs(s2) \in Documents
    BY SideFacts
  <2>2. ASSUME Own(s2) = k PROVE s2 = s
    <3>1. Thread(s2) = Thread(s) /\ Self(s2) = Self(s)
      BY <2>2 DEF Own
    <3>2. ~Hosting(s2)
      BY <3>1 DEF Hosting
    <3>3. Other(s2) = Thread(s2) /\ Other(s) = Thread(s)
      BY <3>2, SideFacts
    <3>4. s2 = <<Thread(s2), Self(s2), Other(s2)>> /\ s = <<Thread(s), Self(s), Other(s)>>
      BY SideFacts
    <3> QED BY <3>1, <3>3, <3>4
  <2> QED BY <2>1, <2>2
<1>5. \A j \in Documents : D1[j].messages = D[j].messages
  BY <1>3
<1>6. DeliveryTypes(D1, S, n)
  BY <1>3, <1>5 DEF DeliveryHolds, DeliveryTypes
<1>7. GuestsWrite(D1, S)
  BY <1>4, <1>5 DEF DeliveryHolds, GuestsWrite
<1>8. HostIsGone(D1, x)
  BY <1>3, <1>4 DEF DeliveryHolds, HostIsGone
<1>9. GuestsKnow(D1, S, x)
  <2> SUFFICES ASSUME NEW s2 \in Sides, ~Hosting(s2), ~Gone(s2, x)
               PROVE  D1[Own(s2)].receipts \cup ToSet(S[s2].seen.messages)
                        \subseteq ToSet(D1[Theirs(s2)].messages)
    BY DEF GuestsKnow
  <2>1. D[Own(s2)].receipts \cup ToSet(S[s2].seen.messages) \subseteq ToSet(D[Theirs(s2)].messages)
    BY DEF DeliveryHolds, GuestsKnow
  <2>2. D1[Own(s2)].receipts \subseteq ToSet(D[Theirs(s2)].messages)
    BY <1>3, <1>4, <2>1
  <2> QED BY <1>4, <1>5, <2>1, <2>2
<1>10. NotConverted(D1, S)
  <2> SUFFICES ASSUME NEW s2 \in Sides, ~Hosting(s2), Thread(s2) = Host, Self(s2) \in Threads,
                      ~S[s2].converted
               PROVE  /\ D1[<<Self(s2), Self(s2)>>].messages = << >>
                      /\ ~D1[<<Self(s2), Self(s2)>>].published
    BY DEF NotConverted
  <2>1. <<Self(s2), Self(s2)>> \in Documents
    BY SideFacts DEF Documents
  <2>2. <<Self(s2), Self(s2)>> # k
    BY DEF Own, Hosting
  <2> QED BY <1>3, <2>1, <2>2 DEF DeliveryHolds, NotConverted
<1>11. ReceiptsTrue(D1, S, R)
  <2> SUFFICES ASSUME NEW s2 \in Sides
               PROVE  UpTo(D1[Theirs(s2)].messages, D1[Own(s2)].receipts, Self(s2), R)
    BY DEF ReceiptsTrue
  <2>1. UpTo(D[Theirs(s2)].messages, D[Own(s2)].receipts, Self(s2), R)
    BY DEF DeliveryHolds, ReceiptsTrue
  <2> QED BY <1>3, <1>4, <1>5, <2>1
<1>12. SeenTrue(D1, S, R)
  BY <1>4, <1>5 DEF DeliveryHolds, SeenTrue
<1>13. DeliveredTrue(D1, S, R)
  BY <1>4, <1>5 DEF DeliveryHolds, DeliveredTrue
<1> QED BY <1>6, <1>7, <1>8, <1>9, <1>10, <1>11, <1>12, <1>13 DEF DeliveryHolds

LEMMA OnHostPublicationUpdatedHolds ==
  ASSUME DeliveryInv, NEW s \in Sides, NEW late, OnHostPublicationUpdated(s, late)
  PROVE  DeliveryInv'
<1> DEFINE e == Self(s)
           M == SentBy(sent)
           theirs == doc[Theirs(s)]
           own == doc[Own(s)]
           new == Changed(side[s].seen, theirs)
           known == {m \in Messages : side[s].state[m] = "Delivered"}
           receipts == NewReceipts(own.messages, known, theirs.receipts)
           covered == CoveredBy(own.messages, known, receipts)
           state1 == Raised(side[s].state, covered, "Delivered")
           sd == [side[s] EXCEPT !.seen = theirs, !.state = state1]
           after == Stepped(s, sd, own.messages, late)
           last == [after EXCEPT !.wake = IF after.wake = "No" THEN side[s].wake ELSE after.wake]
           R1 == reached \cup {<<e, m>> : m \in Unknown(new, own)}
           K == IF new = << >> THEN own.receipts ELSE {Last(new)}
           S1 == [side EXCEPT ![s] = sd]
<1>1. /\ ~Hosting(s) /\ theirs.published /\ sent' = sent /\ restarted' = restarted
      /\ reached' = R1
      /\ doc' = [doc EXCEPT ![Own(s)] = [own EXCEPT !.published = TRUE, !.receipts = K]]
      /\ side' = [side EXCEPT ![s] = last]
  BY DEF OnHostPublicationUpdated
<1>2. DeliveryHolds(doc, side, reached, sent, restarted)
  BY DEF DeliveryInv
<1>3. /\ Theirs(s) \in Documents /\ Own(s) \in Documents
      /\ Opposite(s) \in Sides /\ Hosting(Opposite(s))
      /\ Own(Opposite(s)) = Theirs(s) /\ Theirs(Opposite(s)) = Own(s)
      /\ Self(Opposite(s)) = Other(s) /\ Thread(Opposite(s)) = Thread(s)
  BY <1>1, SideFacts
<1>4. ~Gone(s, restarted)
  BY <1>1, <1>2, <1>3 DEF DeliveryHolds, HostIsGone, Gone
<1>5. /\ own \in Docs(M) /\ own.messages \in Seq(M) /\ IsInjective(own.messages)
      /\ theirs \in Docs(M) /\ theirs.messages \in Seq(M) /\ IsInjective(theirs.messages)
  BY <1>2, <1>3, DocumentFacts
<1>6. /\ side \in [Sides -> SideRecords(M)] /\ side[s] \in SideRecords(M)
      /\ side[s].state \in [Messages -> States]
  BY <1>2, SideRecordFacts
<1>7. /\ new \in Seq(M)
      /\ ToSet(new) = ToSet(theirs.messages) \ ToSet(side[s].seen.messages)
  <2> HIDE DEF theirs, M
  <2> QED BY <1>5, ChangedIs
<1>8. ToSet(own.messages) \subseteq From(e)
  BY <1>1, <1>2 DEF DeliveryHolds, GuestsWrite
<1> HIDE DEF new
<1>9. \A m \in ToSet(theirs.messages) : Received(e, R1, m)
  <2>1. UpTo(theirs.messages, ToSet(side[s].seen.messages), e, reached)
    BY <1>2 DEF DeliveryHolds, SeenTrue
  <2>2. ASSUME NEW m \in ToSet(theirs.messages) \ ToSet(side[s].seen.messages)
        PROVE  Received(e, R1, m)
    <3>1. CASE m \in ToSet(own.messages)
      BY <1>8, <3>1 DEF Received, From
    <3>2. CASE m \notin ToSet(own.messages)
      <4>1. m \in Unknown(new, own)
        BY <1>7, <3>2 DEF Unknown
      <4>2. <<e, m>> \in R1
        BY <4>1
      <4> QED BY <4>2 DEF Received
    <3> QED BY <3>1, <3>2
  <2>3. reached \subseteq R1
    OBVIOUS
  <2> HIDE DEF R1, M, theirs, e
  <2> QED BY <1>5, <2>1, <2>2, <2>3, AllReceived
<1>10. receipts \subseteq theirs.receipts
  BY DEF NewReceipts
<1>11. UpTo(own.messages, theirs.receipts, Other(s), reached)
  BY <1>2, <1>3 DEF DeliveryHolds, ReceiptsTrue
<1>12. /\ covered \subseteq ToSet(own.messages)
       /\ UpTo(own.messages, covered, Other(s), reached)
  <2> HIDE DEF receipts, own, theirs, known, M
  <2> QED BY <1>5, <1>10, <1>11, CoveredIs
<1>13. known = DeliveredTo(side[s])
  BY DEF DeliveredTo
<1>14. /\ UpTo(own.messages, known, Other(s), reached)
       /\ known \subseteq ToSet(own.messages)
       /\ \A m \in side[s].acked : Received(Other(s), reached, m)
  BY <1>2, <1>13 DEF DeliveryHolds, DeliveredTrue
<1> HIDE DEF covered, receipts
<1>15. /\ state1 \in [Messages -> States]
       /\ \A m \in Messages : state1[m] = "Delivered" =>
            side[s].state[m] = "Delivered" \/ m \in covered
  BY <1>6, RaisedIs DEF States
<1> HIDE DEF state1
<1>16. /\ sd \in SideRecords(M) /\ sd.seen = theirs /\ sd.acked = side[s].acked
       /\ sd.converted = side[s].converted /\ sd.state = state1
  <2> HIDE DEF theirs, M
  <2> QED BY <1>5, <1>6, <1>15 DEF SideRecords
<1> HIDE DEF sd
<1>17. DeliveredTo(sd) \subseteq known \cup covered
  BY <1>15, <1>16 DEF DeliveredTo
<1>18. DeliveryHolds(doc, S1, R1, sent, restarted)
  <2>1. UpTo(own.messages, DeliveredTo(sd), Other(s), reached)
    <3> HIDE DEF known, own
    <3>1. UpTo(own.messages, known \cup covered, Other(s), reached)
      BY <1>12, <1>14, UpToBoth
    <3> QED BY <1>17, <3>1, UpToLess
  <2>2. DeliveredTo(sd) \subseteq ToSet(own.messages)
    BY <1>12, <1>14, <1>17
  <2>3. reached \subseteq R1
    OBVIOUS
  <2>4. S1 = [side EXCEPT ![s] = sd]
    OBVIOUS
  <2>5. \A m \in sd.acked : Received(Other(s), reached, m)
    BY <1>14, <1>16
  <2>6. \A m \in ToSet(doc[Theirs(s)].messages) : Received(Self(s), R1, m)
    BY <1>9
  <2>7. sd \in SideRecords(SentBy(sent)) /\ sd.seen = doc[Theirs(s)]
        /\ sd.converted = side[s].converted
    BY <1>16
  <2> HIDE DEF R1, S1
  <2> QED BY <1>2, <1>4, <2>1, <2>2, <2>3, <2>4, <2>5, <2>6, <2>7, ReadHolds
<1>19. DeliveryHolds(doc', S1, R1, sent, restarted)
  <2>1. K \subseteq own.receipts \/ K \subseteq ToSet(theirs.messages)
    <3>1. CASE new = << >>
      BY <3>1
    <3>2. CASE new # << >>
      <4>1. Last(new) \in ToSet(new)
        <5> HIDE DEF M
        <5> QED BY <1>7, <3>2, LastIsMember
      <4> QED BY <1>7, <3>2, <4>1
    <3> QED BY <3>1, <3>2
  <2>2. K \subseteq M
    <3>1. own.receipts \subseteq M /\ ToSet(theirs.messages) \subseteq M
      BY <1>5 DEF Docs, ToSet
    <3> QED BY <2>1, <3>1
  <2>3. UpTo(theirs.messages, K, e, R1)
    <3> HIDE DEF M, R1, K, e, theirs
    <3> QED BY <1>5, <1>9, AllUpTo
  <2>4. doc' = [doc EXCEPT ![Own(s)] = [doc[Own(s)] EXCEPT !.published = TRUE, !.receipts = K]]
    BY <1>1
  <2> HIDE DEF K, R1, S1
  <2> QED BY <1>1, <1>4, <1>18, <2>1, <2>2, <2>3, <2>4, ReceiptHolds
<1>20. after \in SideRecords(M) /\ SameSide(sd, after)
  <2>1. M \subseteq Messages
    BY DEF SentBy
  <2> HIDE DEF M, own
  <2> QED BY <1>5, <1>16, <2>1, SteppedIs
<1> HIDE DEF after
<1>21. last \in SideRecords(M) /\ SameSide(sd, last)
  <2>1. side[s].wake \in {"No", "Step", "Located"}
    BY <1>6 DEF SideRecords
  <2> HIDE DEF M
  <2> QED BY <1>20, <2>1 DEF SideRecords, SameSide, DeliveredTo
<1> HIDE DEF last
<1>22. /\ side' \in [Sides -> SideRecords(M)]
       /\ \A s2 \in Sides : SameSide(S1[s2], side'[s2])
  <2>1. \A s2 \in Sides : SameSide(side[s2], side[s2])
    BY DEF SameSide
  <2> HIDE DEF M
  <2> QED BY <1>1, <1>6, <1>21, <2>1
<1> QED BY <1>1, <1>19, <1>22, SidesHold DEF DeliveryInv

-----------------------------------------------------------------------------
(* Steps that only concern what is kept about the others *)

LEMMA OthersHold ==
  ASSUME DeliveryInv, side' \in [Sides -> SideRecords(SentBy(sent))],
         \A s \in Sides : SameSide(side[s], side'[s]),
         doc' = doc, UNCHANGED <<reached, sent, restarted>>
  PROVE  DeliveryInv'
BY SidesHold DEF DeliveryInv

LEMMA SidesAre ==
  ASSUME DeliveryInv
  PROVE  /\ side \in [Sides -> SideRecords(SentBy(sent))] /\ SentBy(sent) \subseteq Messages
         /\ \A s \in Sides : /\ side[s] \in SideRecords(SentBy(sent))
                             /\ SameSide(side[s], side[s])
                             /\ doc[Own(s)].messages \in Seq(SentBy(sent))
<1>1. DeliveryHolds(doc, side, reached, sent, restarted)
  BY DEF DeliveryInv
<1>2. side \in [Sides -> SideRecords(SentBy(sent))]
  BY <1>1 DEF DeliveryHolds, DeliveryTypes
<1>3. \A s \in Sides : doc[Own(s)].messages \in Seq(SentBy(sent))
  BY <1>1, SideFacts, DocumentFacts
<1> QED BY <1>2, <1>3 DEF SameSide, SentBy

LEMMA ContactStepsHolds ==
  ASSUME DeliveryInv, NEW s \in Sides, NEW late, ContactSteps(s, late)
  PROVE  DeliveryInv'
<1> DEFINE after == Stepped(s, side[s], doc[Own(s)].messages, late)
           M == SentBy(sent)
<1>1. side' = [side EXCEPT ![s] = after] /\ UNCHANGED <<doc, reached, sent, restarted>>
  BY DEF ContactSteps
<1>2. side \in [Sides -> SideRecords(M)] /\ \A s2 \in Sides : SameSide(side[s2], side[s2])
  BY SidesAre
<1>3. after \in SideRecords(M) /\ SameSide(side[s], after)
  BY SidesAre, SteppedIs
<1> HIDE DEF after, M
<1>4. /\ side' \in [Sides -> SideRecords(M)]
      /\ \A s2 \in Sides : SameSide(side[s2], side'[s2])
  BY <1>1, <1>2, <1>3
<1> QED BY <1>1, <1>4, OthersHold DEF M

LEMMA GuestStepsHolds ==
  ASSUME DeliveryInv, NEW s \in Sides, NEW late, GuestSteps(s, late)
  PROVE  DeliveryInv'
<1> DEFINE e == Self(s)
           M == SentBy(sent)
           sd == [side[s] EXCEPT !.converted = side[s].converted \/ Converts(s)]
           after == Stepped(s, sd, doc[Own(s)].messages, late)
           sides == [side EXCEPT ![s] = after]
<1>1. UNCHANGED <<reached, sent, restarted>> /\ ~Hosting(s)
  BY DEF GuestSteps
<1>2. IF Converts(s) THEN HostStepped(e, ClosedHost(s), sides) ELSE doc' = doc /\ side' = sides
  BY DEF GuestSteps
<1>3. /\ side \in [Sides -> SideRecords(M)] /\ M \subseteq Messages
      /\ side[s] \in SideRecords(M) /\ \A s2 \in Sides : SameSide(side[s2], side[s2])
      /\ doc[Own(s)].messages \in Seq(M)
  BY SidesAre
<1>4. /\ sd \in SideRecords(M) /\ SameSide(side[s], sd)
      /\ Converts(s) => sd.converted
  <2>1. side[s].converted \/ Converts(s) \in BOOLEAN
    BY <1>3 DEF SideRecords, Converts
  <2> DEFINE c == side[s].converted \/ Converts(s)
  <2>2. c \in BOOLEAN /\ (side[s].converted => c) /\ (Converts(s) => c)
    BY <1>3 DEF SideRecords, Converts
  <2> HIDE DEF c, M
  <2>3. /\ [side[s] EXCEPT !.converted = c] \in SideRecords(M)
        /\ SameSide(side[s], [side[s] EXCEPT !.converted = c])
        /\ [side[s] EXCEPT !.converted = c].converted = c
    BY <1>3, <2>2 DEF SideRecords, SameSide, DeliveredTo
  <2> QED BY <2>2, <2>3 DEF c
<1> HIDE DEF sd
<1>5. after \in SideRecords(M) /\ SameSide(sd, after)
  <2> HIDE DEF M
  <2> QED BY <1>3, <1>4, SteppedIs
<1>6. SameSide(side[s], after) /\ (Converts(s) => after.converted)
  BY <1>4, <1>5 DEF SameSide
<1> HIDE DEF after
<1>7. /\ sides \in [Sides -> SideRecords(M)] /\ sides[s] = after
      /\ \A s2 \in Sides : SameSide(side[s2], sides[s2])
  <2> HIDE DEF M
  <2> QED BY <1>3, <1>5, <1>6
<1> HIDE DEF sides
<1>8. DeliveryHolds(doc, sides, reached, sent, restarted)
  <2>1. DeliveryHolds(doc, side, reached, sent, restarted)
    BY DEF DeliveryInv
  <2> QED BY <1>7, <2>1, SidesHold
<1>9. CASE ~Converts(s)
  BY <1>1, <1>2, <1>8, <1>9 DEF DeliveryInv
<1>10. CASE Converts(s)
  <2> DEFINE k == <<e, e>>
             d == ClosedHost(s)
  <2>1. doc' = [doc EXCEPT ![k] = HostDocument(e, d, sides)] /\ side' = Contacted(e, sides)
    BY <1>2, <1>10 DEF HostStepped, HostDocument, Contacted
  <2>2. /\ Thread(s) = Host /\ e # Host /\ Other(s) = Host /\ ~side[s].converted
        /\ e \in Locations
    BY <1>1, <1>10, SideFacts DEF Converts, Hosting
  <2>3. CASE e \notin Threads
    <3>1. k \notin Documents
      BY <2>3 DEF Documents
    <3>2. doc \in [Documents -> Docs(M)]
      BY DEF DeliveryInv, DeliveryHolds, DeliveryTypes
    <3>3. doc' = doc
      BY <2>1, <3>1, <3>2
    <3>4. \A s2 \in Sides : s2 \notin Contacts(e)
      BY <2>3, SideFacts DEF Contacts
    <3>5. side' = sides
      <4>1. side' = [s2 \in Sides |-> sides[s2]]
        BY <2>1, <3>4 DEF Contacted
      <4> HIDE DEF M
      <4> QED BY <1>7, <4>1
    <3> QED BY <1>1, <1>8, <3>3, <3>5 DEF DeliveryInv
  <2>4. CASE e \in Threads
    <3>1. k \in Documents
      BY <2>2, <2>4 DEF Documents
    <3>2. doc[k].messages = << >>
      BY <1>1, <2>2, <2>4 DEF DeliveryInv, DeliveryHolds, NotConverted
    <3> DEFINE a == side[s].seen.messages
               b == doc[Own(s)].messages
    <3>3. a \in Seq(M) /\ b \in Seq(M) /\ IsInjective(a) /\ IsInjective(b)
      <4>1. DeliveryHolds(doc, side, reached, sent, restarted) /\ Own(s) \in Documents
        BY SideFacts DEF DeliveryInv
      <4> QED BY <4>1, SideRecordFacts, DocumentFacts
    <3>4. Adding(a, b) \in Seq(M) /\ IsInjective(Adding(a, b))
      <4> HIDE DEF a, b, M
      <4>1. PICK new \in Seq(M) :
              Adding(a, b) = a \o new /\ IsInjective(a \o new) /\ a \o new \in Seq(M)
        BY <3>3, AddingIs, ZenonT(60)
      <4> QED BY <4>1
    <3>5. d = [published |-> TRUE, receipts |-> {}, messages |-> Adding(a, b)]
      BY DEF ClosedHost
    <3> DEFINE more == Adding(a, b)
    <3> HIDE DEF d, more
    <3>6. /\ d \in Docs(SentBy(sent)) /\ d.published /\ IsInjective(d.messages)
          /\ d.messages = more /\ d.receipts = {} /\ more \in Seq(SentBy(sent))
      BY <3>4, <3>5 DEF Docs, more
    <3>7. /\ d.messages = doc[<<e, e>>].messages \o more
          /\ ToSet(more) \cap ToSet(doc[<<e, e>>].messages) = {}
      <4>1. << >> \o more = more /\ ToSet(<< >>) = {}
        BY <3>6 DEF ToSet
      <4> QED BY <3>2, <3>6, <4>1
    <3>8. \A s2 \in Sides : ~Hosting(s2) /\ Thread(s2) = Host /\ Self(s2) = e => sides[s2].converted
      <4> SUFFICES ASSUME NEW s2 \in Sides, ~Hosting(s2), Thread(s2) = Host, Self(s2) = e
                   PROVE  sides[s2].converted
        OBVIOUS
      <4>1. s2 = <<Thread(s2), Self(s2), Other(s2)>> /\ s = <<Thread(s), Self(s), Other(s)>>
            /\ Other(s2) = Host
        BY SideFacts
      <4>2. s2 = s
        BY <2>2, <4>1
      <4> QED BY <1>6, <1>7, <1>10, <4>2
    <3>9. ~(e = Host /\ restarted) /\ d.receipts \subseteq doc[<<e, e>>].receipts
      BY <2>2, <3>6
    <3>10. DeliveryHolds(doc', Contacted(e, sides), reached, sent, restarted)
      <4>1. doc' = [doc EXCEPT ![<<e, e>>] = HostDocument(e, d, sides)] /\ <<e, e>> \in Documents
        BY <2>1, <3>1
      <4> HIDE DEF e, k
      <4> QED BY <1>8, <2>4, <3>6, <3>7, <3>8, <3>9, <4>1, HostHolds
    <3> QED BY <1>1, <2>1, <3>10 DEF DeliveryInv
  <2> QED BY <2>3, <2>4
<1> QED BY <1>9, <1>10

LEMMA TellingIs ==
  ASSUME NEW M, NEW S \in [Sides -> SideRecords(M)], NEW K, NEW w
  PROVE  /\ Telling(S, K, w) \in [Sides -> SideRecords(M)]
         /\ \A s \in Sides : /\ SameSide(S[s], Telling(S, K, w)[s])
                             /\ Telling(S, K, w)[s].state = S[s].state
                             /\ Telling(S, K, w)[s].pushed = S[s].pushed
<1>1. ASSUME NEW s \in Sides
      PROVE  /\ Telling(S, K, w)[s] \in SideRecords(M)
             /\ SameSide(S[s], Telling(S, K, w)[s])
             /\ Telling(S, K, w)[s].state = S[s].state
             /\ Telling(S, K, w)[s].pushed = S[s].pushed
  <2>1. S[s] \in SideRecords(M)
    OBVIOUS
  <2> DEFINE a == S[s]
             located == [a EXCEPT !.wake = "Located"]
  <2>2. /\ located \in SideRecords(M) /\ SameSide(a, located)
        /\ located.state = a.state /\ located.pushed = a.pushed
    BY <2>1 DEF SideRecords, SameSide, DeliveredTo
  <2>3. /\ Nudged(a) \in SideRecords(M) /\ SameSide(a, Nudged(a))
        /\ Nudged(a).state = a.state /\ Nudged(a).pushed = a.pushed
    BY <2>1, NudgedIs DEF Nudged, SideRecords
  <2>4. SameSide(a, a)
    BY DEF SameSide
  <2>5. Telling(S, K, w)[s] \in {located, Nudged(a), a}
    BY DEF Telling
  <2> HIDE DEF a, located
  <2>6. a \in SideRecords(M)
    BY <2>1 DEF a
  <2>7. \A b \in {located, Nudged(a), a} :
          b \in SideRecords(M) /\ SameSide(a, b) /\ b.state = a.state /\ b.pushed = a.pushed
    BY <2>2, <2>3, <2>4, <2>6
  <2> QED BY <2>5, <2>7 DEF a
<1>2. Telling(S, K, w) = [s \in Sides |-> Telling(S, K, w)[s]]
  BY DEF Telling
<1> QED BY <1>1, <1>2

LEMMA DroppedIs ==
  ASSUME NEW M, NEW S \in [Sides -> SideRecords(M)], NEW K
  PROVE  /\ Dropped(S, K) \in [Sides -> SideRecords(M)]
         /\ \A s \in Sides : /\ SameSide(S[s], Dropped(S, K)[s])
                             /\ Dropped(S, K)[s].state = S[s].state
                             /\ Dropped(S, K)[s].pushed = S[s].pushed
<1>1. ASSUME NEW s \in Sides
      PROVE  /\ Dropped(S, K)[s] \in SideRecords(M)
             /\ SameSide(S[s], Dropped(S, K)[s])
             /\ Dropped(S, K)[s].state = S[s].state
             /\ Dropped(S, K)[s].pushed = S[s].pushed
  <2> DEFINE a == S[s]
             lost == [a EXCEPT !.seen = Unpublished, !.acked = {}]
  <2>1. a \in SideRecords(M)
    OBVIOUS
  <2>2. Dropped(S, K)[s] \in {Nudged(lost), a}
    BY DEF Dropped
  <2> HIDE DEF a
  <2>3. /\ lost \in SideRecords(M) /\ SameSide(a, lost)
        /\ lost.state = a.state /\ lost.pushed = a.pushed
    BY <2>1, UnpublishedIs DEF SideRecords, SameSide, DeliveredTo
  <2> HIDE DEF lost
  <2>4. /\ Nudged(lost) \in SideRecords(M) /\ SameSide(lost, Nudged(lost))
        /\ Nudged(lost).state = lost.state /\ Nudged(lost).pushed = lost.pushed
    BY <2>3, NudgedIs DEF Nudged, SideRecords
  <2>5. SameSide(a, Nudged(lost)) /\ SameSide(a, a)
    BY <2>3, <2>4 DEF SameSide
  <2> QED BY <2>1, <2>2, <2>3, <2>4, <2>5 DEF a
<1>2. Dropped(S, K) = [s \in Sides |-> Dropped(S, K)[s]]
  BY DEF Dropped
<1> QED BY <1>1, <1>2

LEMMA SameSideTwice ==
  ASSUME NEW a, NEW b, NEW c, SameSide(a, b), SameSide(b, c)
  PROVE  SameSide(a, c)
BY DEF SameSide

LEMMA FindHolds ==
  ASSUME DeliveryInv, NEW e, NEW x, Find(e, x) \/ FindEnds(e, x) \/ Connect(e, x)
  PROVE  DeliveryInv'
<1>1. /\ \/ side' = Telling(side, About(e, x), "Step")
         \/ side' = Telling(side, About(e, x) \cup About(x, e), "Located")
      /\ doc' = doc /\ UNCHANGED <<reached, sent, restarted>>
  BY DEF Find, FindEnds, Connect
<1>2. side \in [Sides -> SideRecords(SentBy(sent))]
  BY SidesAre
<1>3. /\ side' \in [Sides -> SideRecords(SentBy(sent))]
      /\ \A s \in Sides : SameSide(side[s], side'[s])
  BY <1>1, <1>2, TellingIs
<1> QED BY <1>1, <1>3, OthersHold

LEMMA DisconnectHolds ==
  ASSUME DeliveryInv, NEW e, NEW x, Disconnect(e, x)
  PROVE  DeliveryInv'
<1> DEFINE lost == About(e, x) \cup About(x, e)
           sides == Dropped(side, lost)
<1>1. side' = Telling(sides, lost, "Step") /\ doc' = doc /\ UNCHANGED <<reached, sent, restarted>>
  BY DEF Disconnect
<1>2. side \in [Sides -> SideRecords(SentBy(sent))]
  BY SidesAre
<1> HIDE DEF lost
<1>3. /\ sides \in [Sides -> SideRecords(SentBy(sent))]
      /\ \A s \in Sides : SameSide(side[s], sides[s])
  BY <1>2, DroppedIs
<1> HIDE DEF sides
<1>4. /\ side' \in [Sides -> SideRecords(SentBy(sent))]
      /\ \A s \in Sides : SameSide(sides[s], side'[s])
  BY <1>1, <1>3, TellingIs
<1>5. \A s \in Sides : SameSide(side[s], side'[s])
  BY <1>3, <1>4, SameSideTwice
<1> QED BY <1>1, <1>4, <1>5, OthersHold

-----------------------------------------------------------------------------
(* Nothing at first, and nothing again for a host that is started anew *)

LEMMA NewSideIs ==
  ASSUME NEW M
  PROVE  /\ NewSide \in SideRecords(M) /\ NewSide.seen = Unpublished /\ NewSide.acked = {}
         /\ DeliveredTo(NewSide) = {} /\ NewSide.pushed = << >>
<1>1. Unpublished \in Docs(M)
  BY UnpublishedIs
<1>2. [m \in Messages |-> "None"] \in [Messages -> States]
  BY DEF States
<1> QED BY <1>1, <1>2 DEF NewSide, SideRecords, DeliveredTo

LEMMA InitHolds ==
  ASSUME DeliveryInit
  PROVE  DeliveryInv
<1> DEFINE M == SentBy(sent)
<1>1. sent \in [Senders -> Nat] /\ restarted = FALSE
  BY DEF DeliveryInit
<1>2. doc = [d \in Documents |-> Unpublished] /\ side = [s \in Sides |-> NewSide]
  BY DEF DeliveryInit
<1>3. /\ Unpublished \in Docs(M) /\ Unpublished.messages = << >>
      /\ ToSet(Unpublished.messages) = {} /\ IsInjective(Unpublished.messages)
      /\ Unpublished.receipts = {} /\ Unpublished.published = FALSE
  BY UnpublishedIs
<1>4. /\ NewSide \in SideRecords(M) /\ NewSide.seen = Unpublished /\ NewSide.acked = {}
      /\ DeliveredTo(NewSide) = {}
  BY NewSideIs
<1> HIDE DEF M
<1>5. \A d \in Documents : doc[d] = Unpublished
  BY <1>2
<1>6. \A s \in Sides : /\ side[s] = NewSide /\ Own(s) \in Documents /\ Theirs(s) \in Documents
                       /\ doc[Own(s)] = Unpublished /\ doc[Theirs(s)] = Unpublished
  BY <1>2, <1>5, SideFacts
<1>7. DeliveryTypes(doc, side, sent)
  BY <1>1, <1>2, <1>3, <1>4, <1>5, <1>6 DEF DeliveryTypes, M
<1>8. GuestsWrite(doc, side) /\ HostIsGone(doc, restarted) /\ GuestsKnow(doc, side, restarted)
  BY <1>1, <1>3, <1>4, <1>6 DEF GuestsWrite, HostIsGone, GuestsKnow
<1>9. NotConverted(doc, side)
  <2>1. \A s \in Sides : Self(s) \in Threads => <<Self(s), Self(s)>> \in Documents
    BY SideFacts DEF Documents
  <2> QED BY <1>3, <1>5, <2>1 DEF NotConverted
<1>10. ReceiptsTrue(doc, side, reached) /\ SeenTrue(doc, side, reached)
  BY <1>3, <1>4, <1>6, UpToEmpty DEF ReceiptsTrue, SeenTrue
<1>11. DeliveredTrue(doc, side, reached)
  BY <1>3, <1>4, <1>6, UpToEmpty DEF DeliveredTrue
<1> QED BY <1>7, <1>8, <1>9, <1>10, <1>11 DEF DeliveryInv, DeliveryHolds

LEMMA RestartHolds ==
  ASSUME DeliveryInv, Restart
  PROVE  DeliveryInv'
<1> DEFINE M == SentBy(sent)
           lost == {s \in Sides : Other(s) = Host /\ Pair(s) \in up}
           dropped == Dropped(side, lost)
           sides == Telling(dropped, lost, "Step")
           S1 == [s \in Sides |-> IF Self(s) = Host THEN NewSide ELSE sides[s]]
           D1 == [d \in Documents |-> IF d[2] = Host THEN Unpublished ELSE doc[d]]
<1>1. /\ ~restarted /\ restarted' = TRUE /\ doc' = D1 /\ side' = S1
      /\ reached' = reached /\ sent' = sent
  <2>1. restarted' = TRUE /\ doc' = D1 /\ side' = S1 /\ reached' = reached /\ sent' = sent
    BY Zenon DEF Restart
  <2> QED BY <2>1 DEF Restart
<1>2. DeliveryHolds(doc, side, reached, sent, restarted)
  BY DEF DeliveryInv
<1>3. side \in [Sides -> SideRecords(M)] /\ doc \in [Documents -> Docs(M)]
      /\ sent \in [Senders -> Nat]
  BY <1>2 DEF DeliveryHolds, DeliveryTypes
<1> HIDE DEF lost
<1>4. /\ sides \in [Sides -> SideRecords(M)]
      /\ \A s \in Sides : SameSide(side[s], sides[s])
  <2> HIDE DEF M
  <2>1. /\ dropped \in [Sides -> SideRecords(M)]
        /\ \A s \in Sides : SameSide(side[s], dropped[s])
    BY <1>3, DroppedIs
  <2> HIDE DEF dropped
  <2>2. /\ sides \in [Sides -> SideRecords(M)]
        /\ \A s \in Sides : SameSide(dropped[s], sides[s])
    BY <2>1, TellingIs
  <2> QED BY <2>1, <2>2, SameSideTwice
<1> HIDE DEF sides
<1>5. DeliveryHolds(doc, sides, reached, sent, restarted)
  BY <1>2, <1>4, SidesHold
<1>6. /\ NewSide \in SideRecords(M) /\ NewSide.seen = Unpublished /\ NewSide.acked = {}
      /\ DeliveredTo(NewSide) = {}
  BY NewSideIs
<1>7. /\ Unpublished \in Docs(M) /\ Unpublished.messages = << >>
      /\ ToSet(Unpublished.messages) = {} /\ IsInjective(Unpublished.messages)
      /\ Unpublished.receipts = {} /\ Unpublished.published = FALSE
  BY UnpublishedIs
<1> HIDE DEF M
<1>8. D1 \in [Documents -> Docs(M)] /\ S1 \in [Sides -> SideRecords(M)]
  BY <1>3, <1>4, <1>6, <1>7
<1>9. \A d \in Documents : D1[d] = IF d[2] = Host THEN Unpublished ELSE doc[d]
  OBVIOUS
<1>10. \A s \in Sides : S1[s] = IF Self(s) = Host THEN NewSide ELSE sides[s]
  OBVIOUS
<1>11. \A s \in Sides : /\ Own(s) \in Documents /\ Theirs(s) \in Documents
                        /\ Own(s)[2] = Self(s) /\ Theirs(s)[2] = Other(s) /\ Self(s) # Other(s)
                        /\ Hosting(s) => Self(s) = Thread(s)
                        /\ ~Hosting(s) => Other(s) = Thread(s)
  BY SideFacts DEF Own, Theirs
<1>12. \A s \in Sides :
         /\ D1[Own(s)] = IF Self(s) = Host THEN Unpublished ELSE doc[Own(s)]
         /\ D1[Theirs(s)] = IF Other(s) = Host THEN Unpublished ELSE doc[Theirs(s)]
  BY <1>9, <1>11
<1> HIDE DEF D1, S1
<1>13. DeliveryTypes(D1, S1, sent)
  <2>1. DeliveryTypes(doc, sides, sent)
    BY <1>5 DEF DeliveryHolds
  <2> QED BY <1>3, <1>6, <1>7, <1>8, <1>9, <1>10, <2>1 DEF DeliveryTypes, M
<1>14. GuestsWrite(D1, S1)
  <2> SUFFICES ASSUME NEW s \in Sides
               PROVE  IF Hosting(s) THEN ToSet(S1[s].seen.messages) \subseteq From(Other(s))
                      ELSE /\ ToSet(D1[Own(s)].messages) \subseteq From(Self(s))
                           /\ Thread(s) # Host => D1[Own(s)].messages = << >>
    BY DEF GuestsWrite
  <2>1. GuestsWrite(doc, sides)
    BY <1>5 DEF DeliveryHolds
  <2> QED BY <1>6, <1>7, <1>10, <1>12, <2>1 DEF GuestsWrite
<1>15. HostIsGone(D1, TRUE)
  BY <1>7, <1>11, <1>12 DEF HostIsGone, Gone
<1>16. GuestsKnow(D1, S1, TRUE)
  <2> SUFFICES ASSUME NEW s \in Sides, ~Hosting(s), ~Gone(s, TRUE)
               PROVE  D1[Own(s)].receipts \cup ToSet(S1[s].seen.messages)
                        \subseteq ToSet(D1[Theirs(s)].messages)
    BY DEF GuestsKnow
  <2>1. D1[Theirs(s)] = doc[Theirs(s)]
    BY <1>11, <1>12 DEF Gone
  <2>2. doc[Own(s)].receipts \cup ToSet(sides[s].seen.messages) \subseteq ToSet(doc[Theirs(s)].messages)
    BY <1>5 DEF DeliveryHolds, GuestsKnow, Gone
  <2> QED BY <1>6, <1>7, <1>10, <1>12, <2>1, <2>2
<1>17. NotConverted(D1, S1)
  <2> SUFFICES ASSUME NEW s \in Sides, ~Hosting(s), Thread(s) = Host, Self(s) \in Threads,
                      ~S1[s].converted
               PROVE  /\ D1[<<Self(s), Self(s)>>].messages = << >>
                      /\ ~D1[<<Self(s), Self(s)>>].published
    BY DEF NotConverted
  <2>1. Self(s) # Host
    BY DEF Hosting
  <2>2. <<Self(s), Self(s)>> \in Documents /\ <<Self(s), Self(s)>>[2] = Self(s)
    BY SideFacts DEF Documents
  <2>3. D1[<<Self(s), Self(s)>>] = doc[<<Self(s), Self(s)>>] /\ S1[s] = sides[s]
    BY <1>9, <1>10, <2>1, <2>2
  <2> QED BY <1>5, <2>3 DEF DeliveryHolds, NotConverted
<1>18. ReceiptsTrue(D1, S1, reached)
  <2> SUFFICES ASSUME NEW s \in Sides
               PROVE  UpTo(D1[Theirs(s)].messages, D1[Own(s)].receipts, Self(s), reached)
    BY DEF ReceiptsTrue
  <2>1. UpTo(doc[Theirs(s)].messages, doc[Own(s)].receipts, Self(s), reached)
    BY <1>2 DEF DeliveryHolds, ReceiptsTrue
  <2>2. CASE Other(s) = Host
    BY <1>7, <1>12, <2>2, UpToEmpty
  <2>3. CASE Self(s) = Host
    BY <1>7, <1>12, <2>3, UpToNone
  <2>4. CASE Self(s) # Host /\ Other(s) # Host
    BY <1>12, <2>1, <2>4
  <2> QED BY <2>2, <2>3, <2>4
<1>19. SeenTrue(D1, S1, reached)
  <2> SUFFICES ASSUME NEW s \in Sides
               PROVE  UpTo(D1[Theirs(s)].messages, ToSet(S1[s].seen.messages), Self(s), reached)
    BY DEF SeenTrue
  <2>1. UpTo(doc[Theirs(s)].messages, ToSet(sides[s].seen.messages), Self(s), reached)
    BY <1>5 DEF DeliveryHolds, SeenTrue
  <2>2. CASE Other(s) = Host
    BY <1>7, <1>12, <2>2, UpToEmpty
  <2>3. CASE Self(s) = Host
    BY <1>6, <1>7, <1>10, <2>3, UpToNone
  <2>4. CASE Self(s) # Host /\ Other(s) # Host
    BY <1>10, <1>12, <2>1, <2>4
  <2> QED BY <2>2, <2>3, <2>4
<1>20. DeliveredTrue(D1, S1, reached)
  <2> SUFFICES ASSUME NEW s \in Sides
               PROVE  /\ UpTo(D1[Own(s)].messages, DeliveredTo(S1[s]), Other(s), reached)
                      /\ DeliveredTo(S1[s]) \subseteq ToSet(D1[Own(s)].messages)
                      /\ \A m \in S1[s].acked : Received(Other(s), reached, m)
    BY DEF DeliveredTrue
  <2>1. DeliveredTrue(doc, sides, reached)
    BY <1>5 DEF DeliveryHolds
  <2>2. CASE Self(s) = Host
    BY <1>6, <1>7, <1>10, <1>12, <2>2, UpToEmpty
  <2>3. CASE Self(s) # Host
    BY <1>10, <1>12, <2>1, <2>3 DEF DeliveredTrue
  <2> QED BY <2>2, <2>3
<1>21. DeliveryHolds(D1, S1, reached, sent, TRUE)
  BY <1>13, <1>14, <1>15, <1>16, <1>17, <1>18, <1>19, <1>20 DEF DeliveryHolds
<1> QED BY <1>1, <1>21 DEF DeliveryInv

-----------------------------------------------------------------------------
(* What an end may do next, in what it pushes *)

KeepsPushed(a, b) ==
  /\ b.pushed = a.pushed
  /\ \A m \in Messages : /\ Resolved(a.state[m]) => Resolved(b.state[m])
                         /\ a.state[m] = "Delivered" => b.state[m] = "Delivered"

LooksOn(s, q, a, b) ==
  \E sd \in SideRecords(Messages), late \in Nat :
    /\ KeepsPushed(a, sd)
    /\ b.pushed = Stepped(s, sd, q, late).pushed
    /\ b.state = Stepped(s, sd, q, late).state

Moves(s) ==
  \/ side'[s] = NewSide
  \/ KeepsPushed(side[s], side'[s])
  \/ LooksOn(s, doc[Own(s)].messages, side[s], side'[s])

PushedOnce ==
  \A s \in Sides : /\ IsInjective(side[s].pushed)
                   /\ \A m \in ToSet(side[s].pushed) : Resolved(side[s].state[m])

LEMMA KeepsItself ==
  ASSUME NEW a
  PROVE  KeepsPushed(a, a)
BY DEF KeepsPushed

LEMMA SameStateKeeps ==
  ASSUME NEW a, NEW b, b.pushed = a.pushed, b.state = a.state
  PROVE  KeepsPushed(a, b)
BY DEF KeepsPushed

LEMMA RecordsGrow ==
  ASSUME NEW M, M \subseteq Messages
  PROVE  SideRecords(M) \subseteq SideRecords(Messages)
<1>1. Docs(M) \subseteq Docs(Messages)
  BY DEF Docs
<1> QED BY <1>1 DEF SideRecords

LEMMA NudgedKeeps ==
  ASSUME NEW M, NEW a \in SideRecords(M)
  PROVE  Nudged(a).pushed = a.pushed /\ Nudged(a).state = a.state
BY DEF Nudged, SideRecords

LEMMA ContactedKeeps ==
  ASSUME NEW M, NEW S \in [Sides -> SideRecords(M)], NEW t, NEW s \in Sides
  PROVE  /\ Contacted(t, S)[s].pushed = S[s].pushed /\ Contacted(t, S)[s].state = S[s].state
BY NudgedKeeps DEF Contacted

(* Each end, in a step of any.                                              *)
LEMMA HostSendsMoves ==
  ASSUME DeliveryInv, HostSends
  PROVE  \A s \in Sides : Moves(s)
<1>1. side' = Contacted(Host, side)
  BY DEF HostSends, HostStepped, Contacted
<1> QED BY <1>1, SidesAre, ContactedKeeps, SameStateKeeps DEF Moves

LEMMA GuestSendsMoves ==
  ASSUME DeliveryInv, NEW s \in Sides, GuestSends(s)
  PROVE  \A s2 \in Sides : Moves(s2)
<1>1. side' = [side EXCEPT ![s] = Nudged(side[s])]
  BY DEF GuestSends
<1>2. side \in [Sides -> SideRecords(SentBy(sent))] /\ side[s] \in SideRecords(SentBy(sent))
  BY SidesAre
<1>3. KeepsPushed(side[s], Nudged(side[s]))
  BY <1>2, NudgedKeeps, SameStateKeeps
<1> QED BY <1>1, <1>2, <1>3, KeepsItself DEF Moves

LEMMA OnSlavePublicationUpdatedMoves ==
  ASSUME DeliveryInv, NEW s \in Sides, OnSlavePublicationUpdated(s)
  PROVE  \A s2 \in Sides : Moves(s2)
<1> DEFINE t == Thread(s)
           theirs == doc[Theirs(s)]
           new == Changed(side[s].seen, theirs)
           d == [doc[Own(s)] EXCEPT !.messages = Adding(doc[Own(s)].messages, new)]
           receipts == NewReceipts(d.messages, side[s].acked, theirs.receipts)
           covered == CoveredBy(d.messages, side[s].acked, receipts)
           tell == {m \in ToldOf(receipts, covered) : side[s].state[m] # "Delivered"}
           b == [side[s] EXCEPT !.seen = theirs, !.acked = side[s].acked \cup covered,
                                !.state = Raised(side[s].state, tell, "Delivered")]
           S1 == [side EXCEPT ![s] = b]
<1>1. side' = Contacted(t, S1)
  <2>1. HostStepped(t, d, S1)
    BY DEF OnSlavePublicationUpdated, HostStepped
  <2> HIDE DEF t, d, S1
  <2> QED BY <2>1, Zenon DEF HostStepped, Contacted
<1>2. side \in [Sides -> SideRecords(SentBy(sent))] /\ side[s] \in SideRecords(SentBy(sent))
  BY SidesAre
<1>3. side[s].state \in [Messages -> States]
  BY <1>2 DEF SideRecords
<1> HIDE DEF theirs, covered, tell
<1>4. b.pushed = side[s].pushed /\ b.state = Raised(side[s].state, tell, "Delivered")
  <2> DEFINE state1 == Raised(side[s].state, tell, "Delivered")
  <2> HIDE DEF state1
  <2>1. [side[s] EXCEPT !.seen = theirs, !.acked = side[s].acked \cup covered,
                        !.state = state1].pushed = side[s].pushed
        /\ [side[s] EXCEPT !.seen = theirs, !.acked = side[s].acked \cup covered,
                           !.state = state1].state = state1
    BY <1>2 DEF SideRecords
  <2> QED BY <2>1 DEF state1
<1> HIDE DEF b
<1>5. KeepsPushed(side[s], b)
  <2>1. "Delivered" \in States
    BY DEF States
  <2> QED BY <1>3, <1>4, <2>1, RaisedIs DEF KeepsPushed
<1>6. \A s2 \in Sides : S1[s2] = IF s2 = s THEN b ELSE side[s2]
  BY <1>2
<1> HIDE DEF S1, t
<1>7. ASSUME NEW s2 \in Sides PROVE KeepsPushed(side[s2], side'[s2])
  <2>1. side'[s2] = IF s2 \in Contacts(t) THEN Nudged(S1[s2]) ELSE S1[s2]
    BY <1>1 DEF Contacted
  <2>2. Nudged(S1[s2]).pushed = S1[s2].pushed /\ Nudged(S1[s2]).state = S1[s2].state
    BY <1>6 DEF Nudged
  <2>3. KeepsPushed(side[s2], S1[s2])
    BY <1>5, <1>6, KeepsItself
  <2> QED BY <2>1, <2>2, <2>3 DEF KeepsPushed
<1> QED BY <1>7 DEF Moves

LEMMA ContactStepsMoves ==
  ASSUME DeliveryInv, NEW s \in Sides, NEW late \in Nat, ContactSteps(s, late)
  PROVE  \A s2 \in Sides : Moves(s2)
<1> DEFINE after == Stepped(s, side[s], doc[Own(s)].messages, late)
<1>1. side' = [side EXCEPT ![s] = after]
  BY DEF ContactSteps
<1>2. side \in [Sides -> SideRecords(SentBy(sent))] /\ side[s] \in SideRecords(Messages)
  BY SidesAre, RecordsGrow
<1>3. LooksOn(s, doc[Own(s)].messages, side[s], after)
  BY <1>2, KeepsItself DEF LooksOn
<1> HIDE DEF after
<1> QED BY <1>1, <1>2, <1>3, KeepsItself DEF Moves

LEMMA GuestStepsMoves ==
  ASSUME DeliveryInv, NEW s \in Sides, NEW late \in Nat, GuestSteps(s, late)
  PROVE  \A s2 \in Sides : Moves(s2)
<1> DEFINE e == Self(s)
           q == doc[Own(s)].messages
           c == side[s].converted \/ Converts(s)
           sd == [side[s] EXCEPT !.converted = c]
           after == Stepped(s, sd, q, late)
           sides == [side EXCEPT ![s] = after]
<1>1. side' = Contacted(e, sides) \/ side' = sides
  BY DEF GuestSteps, HostStepped, Contacted
<1>2. /\ side \in [Sides -> SideRecords(SentBy(sent))] /\ side[s] \in SideRecords(Messages)
      /\ q \in Seq(SentBy(sent)) /\ SentBy(sent) \subseteq Messages
  BY SidesAre, RecordsGrow
<1>3. sd \in SideRecords(Messages) /\ sd.pushed = side[s].pushed /\ sd.state = side[s].state
  <2>1. c \in BOOLEAN
    BY <1>2 DEF SideRecords, Converts
  <2> HIDE DEF c
  <2> QED BY <1>2, <2>1 DEF SideRecords
<1> HIDE DEF sd
<1>4. LooksOn(s, q, side[s], after)
  BY <1>3, SameStateKeeps DEF LooksOn
<1>5. after \in SideRecords(Messages)
  <2>1. q \in Seq(Messages)
    BY <1>2
  <2> HIDE DEF q
  <2> QED BY <1>3, <2>1, SteppedIs
<1>6. side \in [Sides -> SideRecords(Messages)]
  BY <1>2, RecordsGrow
<1> HIDE DEF after, q
<1>7. sides \in [Sides -> SideRecords(Messages)]
      /\ \A s2 \in Sides : sides[s2] = IF s2 = s THEN after ELSE side[s2]
  BY <1>5, <1>6
<1> HIDE DEF sides
<1>8. ASSUME NEW s2 \in Sides
      PROVE  side'[s2].pushed = sides[s2].pushed /\ side'[s2].state = sides[s2].state
  BY <1>1, <1>7, ContactedKeeps
<1>9. ASSUME NEW s2 \in Sides PROVE Moves(s2)
  <2>1. CASE s2 = s
    <3>1. side'[s2].pushed = after.pushed /\ side'[s2].state = after.state
      BY <1>7, <1>8, <2>1
    <3>2. LooksOn(s, q, side[s], side'[s])
      BY <1>4, <2>1, <3>1 DEF LooksOn
    <3> QED BY <2>1, <3>2 DEF Moves, q
  <2>2. CASE s2 # s
    BY <1>7, <1>8, <2>2, SameStateKeeps DEF Moves
  <2> QED BY <2>1, <2>2
<1> QED BY <1>9

LEMMA OnHostPublicationUpdatedMoves ==
  ASSUME DeliveryInv, NEW s \in Sides, NEW late \in Nat, OnHostPublicationUpdated(s, late)
  PROVE  \A s2 \in Sides : Moves(s2)
<1> DEFINE M == SentBy(sent)
           theirs == doc[Theirs(s)]
           own == doc[Own(s)]
           new == Changed(side[s].seen, theirs)
           known == {m \in Messages : side[s].state[m] = "Delivered"}
           receipts == NewReceipts(own.messages, known, theirs.receipts)
           covered == CoveredBy(own.messages, known, receipts)
           state1 == Raised(side[s].state, covered, "Delivered")
           sd == [side[s] EXCEPT !.seen = theirs, !.state = state1]
           after == Stepped(s, sd, own.messages, late)
           last == [after EXCEPT !.wake = IF after.wake = "No" THEN side[s].wake ELSE after.wake]
<1>1. side' = [side EXCEPT ![s] = last]
  BY DEF OnHostPublicationUpdated
<1>2. /\ side \in [Sides -> SideRecords(M)] /\ side[s] \in SideRecords(Messages)
      /\ own.messages \in Seq(Messages) /\ M \subseteq Messages
  BY SidesAre, RecordsGrow
<1>3. theirs \in Docs(Messages)
  <2>1. DeliveryHolds(doc, side, reached, sent, restarted) /\ Theirs(s) \in Documents
    BY SideFacts DEF DeliveryInv
  <2>2. theirs \in Docs(M)
    BY <2>1, DocumentFacts
  <2> HIDE DEF M, theirs
  <2> QED BY <1>2, <2>2 DEF Docs
<1>4. side[s].state \in [Messages -> States]
  BY <1>2 DEF SideRecords
<1> HIDE DEF covered, theirs, M
<1>5. state1 \in [Messages -> States]
      /\ \A m \in Messages : /\ Resolved(side[s].state[m]) => Resolved(state1[m])
                             /\ side[s].state[m] = "Delivered" => state1[m] = "Delivered"
  <2>1. "Delivered" \in States
    BY DEF States
  <2> QED BY <1>4, <2>1, RaisedIs
<1> HIDE DEF state1
<1>6. sd \in SideRecords(Messages) /\ sd.pushed = side[s].pushed /\ sd.state = state1
  BY <1>2, <1>3, <1>5 DEF SideRecords
<1> HIDE DEF sd
<1>7. KeepsPushed(side[s], sd)
  BY <1>5, <1>6 DEF KeepsPushed
<1>8. after \in SideRecords(Messages)
  <2> HIDE DEF own
  <2> QED BY <1>2, <1>6, SteppedIs
<1>9. last.pushed = after.pushed /\ last.state = after.state
  <2> HIDE DEF after
  <2> QED BY <1>8 DEF SideRecords
<1> HIDE DEF last
<1>10. LooksOn(s, own.messages, side[s], last)
  BY <1>6, <1>7, <1>9 DEF LooksOn
<1> HIDE DEF after
<1> QED BY <1>1, <1>2, <1>10, KeepsItself DEF Moves

LEMMA OthersMove ==
  ASSUME DeliveryInv, NEW e, NEW x,
         Find(e, x) \/ FindEnds(e, x) \/ Connect(e, x) \/ Disconnect(e, x)
  PROVE  \A s \in Sides : Moves(s)
<1>1. side \in [Sides -> SideRecords(SentBy(sent))]
  BY SidesAre
<1>2. CASE Find(e, x) \/ FindEnds(e, x) \/ Connect(e, x)
  <2>1. \/ side' = Telling(side, About(e, x), "Step")
        \/ side' = Telling(side, About(e, x) \cup About(x, e), "Located")
    BY <1>2 DEF Find, FindEnds, Connect
  <2> QED BY <1>1, <2>1, TellingIs, SameStateKeeps DEF Moves
<1>3. CASE Disconnect(e, x)
  <2> DEFINE lost == About(e, x) \cup About(x, e)
             sides == Dropped(side, lost)
  <2>1. side' = Telling(sides, lost, "Step")
    BY <1>3 DEF Disconnect
  <2> HIDE DEF lost
  <2>2. /\ sides \in [Sides -> SideRecords(SentBy(sent))]
        /\ \A s \in Sides : sides[s].state = side[s].state /\ sides[s].pushed = side[s].pushed
    BY <1>1, DroppedIs
  <2> HIDE DEF sides
  <2>3. \A s \in Sides : side'[s].state = side[s].state /\ side'[s].pushed = side[s].pushed
    BY <2>1, <2>2, TellingIs
  <2> QED BY <2>3, SameStateKeeps DEF Moves
<1> QED BY <1>2, <1>3

LEMMA RestartMoves ==
  ASSUME DeliveryInv, Restart
  PROVE  \A s \in Sides : Moves(s)
<1> DEFINE lost == {s \in Sides : Other(s) = Host /\ Pair(s) \in up}
           dropped == Dropped(side, lost)
           sides == Telling(dropped, lost, "Step")
<1>1. side' = [s \in Sides |-> IF Self(s) = Host THEN NewSide ELSE sides[s]]
  BY Zenon DEF Restart
<1>2. side \in [Sides -> SideRecords(SentBy(sent))]
  BY SidesAre
<1> HIDE DEF lost
<1>3. /\ dropped \in [Sides -> SideRecords(SentBy(sent))]
      /\ \A s \in Sides : dropped[s].state = side[s].state /\ dropped[s].pushed = side[s].pushed
  BY <1>2, DroppedIs
<1> HIDE DEF dropped
<1>4. \A s \in Sides : sides[s].state = side[s].state /\ sides[s].pushed = side[s].pushed
  BY <1>3, TellingIs
<1> HIDE DEF sides
<1>5. \A s \in Sides : side'[s] = NewSide \/ side'[s] = sides[s]
  BY <1>1
<1> QED BY <1>4, <1>5, SameStateKeeps DEF Moves

-----------------------------------------------------------------------------
(* What was pushed stands in a document, and in which a guest may write *)

Written(s) == doc[Own(s)].messages # << >>

PushedIsWritten == \A s \in Sides : side[s].pushed # << >> => Written(s)

(* A document loses its messages only with the host that is started anew.   *)
Lasts(s) == Written(s) => doc'[Own(s)].messages # << >> \/ side'[s] = NewSide

LEMMA AddedStays ==
  ASSUME NEW M, NEW N, NEW q \in Seq(M), NEW more \in Seq(N), q # << >>
  PROVE  Adding(q, more) # << >>
<1> DEFINE new == Only(more, ToSet(more) \ ToSet(q))
<1>1. new \in Seq(N)
  BY OnlyIs
<1> HIDE DEF new
<1>2. Len(q \o new) = Len(q) + Len(new) /\ Len(q) \in Nat \ {0} /\ Len(new) \in Nat
  BY <1>1
<1>3. Len(q \o new) # Len(<< >>)
  BY <1>2
<1> QED BY <1>3 DEF Adding, new

LEMMA DocumentsLast ==
  ASSUME DeliveryInv, DeliveryNext, NEW s \in Sides
  PROVE  Lasts(s)
<1> DEFINE q == doc[Own(s)].messages
<1>1. /\ DeliveryHolds(doc, side, reached, sent, restarted) /\ Own(s) \in Documents
      /\ doc \in [Documents -> Docs(SentBy(sent))] /\ q \in Seq(SentBy(sent))
  BY SideFacts, DocumentFacts DEF DeliveryInv
<1> SUFFICES ASSUME q # << >>
             PROVE  doc'[Own(s)].messages # << >> \/ side'[s] = NewSide
  BY DEF Lasts, Written
<1>2. CASE doc' = doc
  BY <1>2
<1>3. ASSUME NEW k \in Documents, NEW N, NEW more \in Seq(N),
             doc'[k].messages = Adding(doc[k].messages, more),
             \A k2 \in Documents \ {k} : doc'[k2] = doc[k2]
      PROVE  doc'[Own(s)].messages # << >>
  <2>1. Own(s) = k => Adding(q, more) # << >>
    <3> HIDE DEF q
    <3> QED BY <1>1, <1>3, AddedStays
  <2> QED BY <1>1, <1>3, <2>1
<1>4. CASE HostSends
  <2> DEFINE k == <<Host, Host>>
             m == NextMessage(Host)
             more == Adding(doc[k].messages, <<m>>)
             d == [doc[k] EXCEPT !.published = TRUE, !.messages = more]
  <2>1. k \in Documents /\ <<m>> \in Seq({m})
    BY DeliveryAssumption DEF Threads, Documents
  <2>2. doc' = [doc EXCEPT ![k] = HostDocument(Host, d, side)]
    BY <1>4 DEF HostSends, HostStepped, HostDocument
  <2>3. doc[k] \in Docs(SentBy(sent))
    BY <1>1, <2>1
  <2> HIDE DEF k, more, m
  <2>4. HostDocument(Host, d, side).messages = more
    BY <2>3 DEF HostDocument, Docs
  <2> HIDE DEF d
  <2>5. doc'[k].messages = more /\ \A k2 \in Documents \ {k} : doc'[k2] = doc[k2]
    BY <1>1, <2>1, <2>2, <2>4
  <2> QED BY <1>3, <2>1, <2>5 DEF more
<1>5. ASSUME NEW g \in Sides, GuestSends(g)
      PROVE  doc'[Own(s)].messages # << >>
  <2> DEFINE k == Own(g)
             m == NextMessage(Self(g))
             more == Adding(doc[k].messages, <<m>>)
  <2>1. k \in Documents /\ <<m>> \in Seq({m})
    BY SideFacts
  <2>2. doc' = [doc EXCEPT ![k].messages = more]
    BY <1>5 DEF GuestSends
  <2>3. doc[k] \in Docs(SentBy(sent))
    BY <1>1, <2>1
  <2> HIDE DEF k, more, m
  <2>4. doc'[k].messages = more /\ \A k2 \in Documents \ {k} : doc'[k2] = doc[k2]
    BY <1>1, <2>1, <2>2, <2>3 DEF Docs
  <2> QED BY <1>3, <2>1, <2>4 DEF more
<1>6. ASSUME NEW h \in Sides, OnSlavePublicationUpdated(h)
      PROVE  doc'[Own(s)].messages # << >>
  <2> DEFINE k == Own(h)
             t == Thread(h)
             new == Changed(side[h].seen, doc[Theirs(h)])
             more == Adding(doc[k].messages, new)
             d == [doc[k] EXCEPT !.messages = more]
  <2>1. k \in Documents /\ Theirs(h) \in Documents /\ k = <<t, t>>
    BY <1>6, SideFacts DEF OnSlavePublicationUpdated, Own
  <2>2. new \in Seq(SentBy(sent))
    <3>1. doc[Theirs(h)] \in Docs(SentBy(sent)) /\ IsInjective(doc[Theirs(h)].messages)
      BY <1>1, <2>1, DocumentFacts
    <3> QED BY <3>1, ChangedIs
  <2>3. \E S : doc' = [doc EXCEPT ![<<t, t>>] = HostDocument(t, d, S)]
    BY <1>6 DEF OnSlavePublicationUpdated, HostStepped, HostDocument
  <2>4. PICK S : doc' = [doc EXCEPT ![k] = HostDocument(t, d, S)]
    BY <2>1, <2>3
  <2>5. doc[k] \in Docs(SentBy(sent))
    BY <1>1, <2>1
  <2> HIDE DEF k, t, new, more
  <2>6. HostDocument(t, d, S).messages = more
    BY <2>5 DEF HostDocument, Docs
  <2> HIDE DEF d
  <2>7. doc'[k].messages = more /\ \A k2 \in Documents \ {k} : doc'[k2] = doc[k2]
    BY <1>1, <2>1, <2>4, <2>6
  <2> QED BY <1>3, <2>1, <2>2, <2>7 DEF more
<1>7. ASSUME NEW g \in Sides, NEW late, OnHostPublicationUpdated(g, late)
      PROVE  doc'[Own(s)].messages # << >>
  <2> DEFINE k == Own(g)
  <2>1. k \in Documents /\ doc[k] \in Docs(SentBy(sent))
    BY <1>1, SideFacts
  <2>2. \E R : doc' = [doc EXCEPT ![k] = [doc[k] EXCEPT !.published = TRUE, !.receipts = R]]
    BY <1>7 DEF OnHostPublicationUpdated
  <2> HIDE DEF k
  <2>3. doc'[k].messages = doc[k].messages /\ \A k2 \in Documents \ {k} : doc'[k2] = doc[k2]
    BY <1>1, <2>1, <2>2 DEF Docs
  <2> QED BY <1>1, <2>3
<1>8. ASSUME NEW g \in Sides, NEW late, Steps(g, late)
      PROVE  doc'[Own(s)].messages # << >>
  <2>1. CASE doc' = doc
    BY <2>1
  <2>2. CASE Converts(g)
    <3> DEFINE k == <<Self(g), Self(g)>>
    <3>1. ~Hosting(g) /\ Thread(g) = Host /\ ~side[g].converted
      BY <2>2 DEF Converts
    <3>2. \E d : doc' = [doc EXCEPT ![k] = d]
      BY <1>8, <2>2, <3>1 DEF Steps, GuestSteps, HostStepped
    <3>3. Own(s) # k
      <4> SUFFICES ASSUME Own(s) = k PROVE FALSE
        OBVIOUS
      <4>1. Self(g) = Thread(s) /\ Thread(s) \in Threads
        BY SideFacts DEF Own
      <4> QED BY <1>1, <3>1, <4>1 DEF DeliveryHolds, NotConverted
    <3> HIDE DEF k
    <3> QED BY <1>1, <3>2, <3>3
  <2> QED BY <1>8, <2>1, <2>2 DEF Steps, ContactSteps, GuestSteps
<1>9. ASSUME NEW g \in Sides, OnWake(g) \/ OnTimer(g)
      PROVE  doc'[Own(s)].messages # << >>
  BY <1>8, <1>9 DEF OnWake, OnTimer
<1>10. ASSUME NEW e, NEW x, Find(e, x) \/ FindEnds(e, x) \/ Connect(e, x) \/ Disconnect(e, x)
       PROVE  doc' = doc
  BY <1>10 DEF Find, FindEnds, Connect, Disconnect
<1>11. CASE Restart
  <2>1. /\ doc' = [d \in Documents |-> IF d[2] = Host THEN Unpublished ELSE doc[d]]
        /\ Self(s) = Host => side'[s] = NewSide
    BY <1>11 DEF Restart
  <2>2. Own(s)[2] = Self(s)
    BY DEF Own
  <2> QED BY <1>1, <2>1, <2>2
<1> QED BY <1>2, <1>4, <1>5, <1>6, <1>7, <1>9, <1>10, <1>11 DEF DeliveryNext

(* Two threads in which an end has messages for the same other one: that of *)
(* the host, and the one of its own that it moved them to.                  *)
LEMMA TwoThreads ==
  ASSUME DeliveryInv, NEW s \in Sides, NEW r \in About(Self(s), Other(s)) \ {s},
         Written(s), Written(r)
  PROVE  \E g \in About(Self(s), Other(s)) : side[g].converted
<1>1. r \in Sides /\ Self(r) = Self(s) /\ Other(r) = Other(s) /\ r # s
  BY DEF About
<1>2. PICK g \in {s, r}, h \in {s, r} : ~Hosting(g) /\ Hosting(h)
  <2>1. Thread(s) # Thread(r)
    BY <1>1, SideFacts
  <2>2. Hosting(s) # Hosting(r)
    BY <1>1, <2>1, SideFacts
  <2> QED BY <2>2 DEF Hosting
<1>3. /\ g \in Sides /\ h \in Sides /\ Written(g) /\ Written(h) /\ Self(h) = Self(g)
      /\ g \in About(Self(s), Other(s))
  BY <1>1 DEF About
<1>4. GuestsWrite(doc, side) /\ NotConverted(doc, side)
  BY DEF DeliveryInv, DeliveryHolds
<1>5. Thread(g) = Host
  BY <1>2, <1>3, <1>4 DEF GuestsWrite, Written
<1>6. Own(h) = <<Self(g), Self(g)>> /\ Self(g) \in Threads
  <2>1. Thread(h) \in Threads /\ Thread(h) = Self(h)
    BY <1>2, <1>3, SideFacts DEF Hosting
  <2>2. Thread(h) = Self(g)
    BY <1>3, <2>1
  <2> QED BY <1>3, <2>1, <2>2 DEF Own
<1>7. side[g].converted
  BY <1>2, <1>3, <1>4, <1>5, <1>6 DEF NotConverted, Written
<1> QED BY <1>3, <1>7

-----------------------------------------------------------------------------
(* Nothing is pushed twice, and nothing that was acknowledged *)

LEMMA LostIs ==
  ASSUME NEW s, NEW sd, NEW q, NEW late, NEW m \in Lost(s, sd, q, late)
  PROVE  \E i \in DOMAIN q : q[i] = m /\ \A k \in i..Len(q) : ~Resolved(sd.state[q[k]])
<1>1. PICK i \in IF Undelivered(q, sd.state) THEN GivenUp(q, sd.state, Hopeless(s), late) ELSE {} :
        m = q[i]
  BY DEF Lost
<1>2. i \in Outstanding(q, sd.state)
  BY <1>1 DEF GivenUp
<1> QED BY <1>1, <1>2 DEF Outstanding

(* What is appended is what the rest of the sequence is.                    *)
LEMMA RestIs ==
  ASSUME NEW M, NEW p \in Seq(M), NEW r \in Seq(M)
  PROVE  ToSet(SubSeq(p \o r, Len(p) + 1, Len(p \o r))) \subseteq ToSet(r)
<1>1. /\ Len(p) \in Nat /\ Len(r) \in Nat /\ Len(p \o r) = Len(p) + Len(r)
      /\ \A j \in 1..Len(p) + Len(r) :
           (p \o r)[j] = IF j <= Len(p) THEN p[j] ELSE r[j - Len(p)]
  OBVIOUS
<1> DEFINE rest == SubSeq(p \o r, Len(p) + 1, Len(p) + Len(r))
<1>2. /\ DOMAIN rest = 1..Len(r)
      /\ \A j \in 1..Len(r) : rest[j] = (p \o r)[Len(p) + 1 + j - 1]
  BY <1>1
<1> HIDE DEF rest
<1>3. \A j \in 1..Len(r) : rest[j] = r[j]
  <2> SUFFICES ASSUME NEW j \in 1..Len(r) PROVE rest[j] = r[j]
    OBVIOUS
  <2>1. /\ Len(p) + 1 + j - 1 = Len(p) + j /\ Len(p) + j \in 1..Len(p) + Len(r)
        /\ ~(Len(p) + j <= Len(p)) /\ Len(p) + j - Len(p) = j
    BY <1>1
  <2>2. rest[j] = (p \o r)[Len(p) + j]
    BY <1>2, <2>1
  <2>3. (p \o r)[Len(p) + j] = r[j]
    <3> DEFINE k == Len(p) + j
    <3>1. (p \o r)[k] = IF k <= Len(p) THEN p[k] ELSE r[k - Len(p)]
      BY <1>1, <2>1
    <3>2. ~(k <= Len(p)) /\ k - Len(p) = j
      BY <2>1
    <3> HIDE DEF k
    <3> QED BY <3>1, <3>2 DEF k
  <2> QED BY <2>2, <2>3
<1>4. ToSet(rest) \subseteq ToSet(r)
  BY <1>1, <1>2, <1>3 DEF ToSet
<1> QED BY <1>1, <1>4 DEF rest

PushesWell(s) ==
  Len(side'[s].pushed) > Len(side[s].pushed) =>
    /\ IsInjective(side'[s].pushed)
    /\ PushedNow(s) \cap Covered(s) = {}

(* What is pushed stands in the document.                                   *)
PushesWritten(s) ==
  /\ side'[s].pushed # << >> => side[s].pushed # << >> \/ Written(s)
  /\ Len(side'[s].pushed) > Len(side[s].pushed) => Written(s)

LEMMA PushesAre ==
  ASSUME DeliveryInv, PushedOnce, NEW s \in Sides, Moves(s)
  PROVE  /\ IsInjective(side'[s].pushed)
         /\ \A m \in ToSet(side'[s].pushed) : Resolved(side'[s].state[m])
         /\ PushesWell(s) /\ PushesWritten(s)
<1> DEFINE a == side[s]
           b == side'[s]
           q == doc[Own(s)].messages
<1>1. /\ IsInjective(a.pushed) /\ \A m \in ToSet(a.pushed) : Resolved(a.state[m])
  BY DEF PushedOnce
<1>2. /\ a \in SideRecords(SentBy(sent)) /\ q \in Seq(SentBy(sent))
      /\ SentBy(sent) \subseteq Messages
  BY SidesAre
<1>3. a.pushed \in Seq(Messages) /\ q \in Seq(Messages)
  BY <1>2 DEF SideRecords
<1>4. ToSet(a.pushed) \subseteq Messages /\ Len(a.pushed) \in Nat
  BY <1>3 DEF ToSet
<1>5. IsInjective(q)
  <2>1. DeliveryHolds(doc, side, reached, sent, restarted) /\ Own(s) \in Documents
    BY SideFacts DEF DeliveryInv
  <2> QED BY <2>1, DocumentFacts
<1>6. CASE b = NewSide
  <2>1. b.pushed = << >>
    BY <1>6, NewSideIs
  <2>2. IsInjective(<< >>) /\ ToSet(<< >>) = {} /\ Len(<< >>) = 0
    BY DEF IsInjective, ToSet
  <2> QED BY <1>4, <2>1, <2>2 DEF PushesWell, PushesWritten
<1>7. CASE KeepsPushed(a, b)
  BY <1>1, <1>4, <1>7 DEF KeepsPushed, PushesWell, PushesWritten
<1>8. CASE LooksOn(s, q, a, b)
  <2>1. PICK sd \in SideRecords(Messages), late \in Nat :
          /\ KeepsPushed(a, sd)
          /\ b.pushed = Stepped(s, sd, q, late).pushed
          /\ b.state = Stepped(s, sd, q, late).state
    BY <1>8 DEF LooksOn
  <2> DEFINE lost == Only(q, Lost(s, sd, q, late))
             r == Reverse(lost)
  <2>2. /\ b.pushed = sd.pushed \o r
        /\ \A m \in Messages :
             /\ m \in Lost(s, sd, q, late) => b.state[m] = "UserNotAvailable"
             /\ Resolved(sd.state[m]) => b.state[m] = sd.state[m]
    <3> DEFINE after == Stepped(s, sd, q, late)
    <3>1. /\ after.pushed = sd.pushed \o r
          /\ \A m \in Messages :
               /\ m \in Lost(s, sd, q, late) => after.state[m] = "UserNotAvailable"
               /\ Resolved(sd.state[m]) => after.state[m] = sd.state[m]
      <4> HIDE DEF q
      <4> QED BY <1>3, SteppedIs
    <3>2. b.pushed = after.pushed /\ b.state = after.state
      BY <2>1
    <3> HIDE DEF after, b, q, r
    <3> QED BY <3>1, <3>2
  <2>3. sd.pushed = a.pushed
    BY <2>1 DEF KeepsPushed
  <2>4. lost \in Seq(Messages) /\ ToSet(lost) = ToSet(q) \cap Lost(s, sd, q, late) /\ IsInjective(lost)
    <3> HIDE DEF q
    <3> QED BY <1>3, <1>5, OnlyIs
  <2> HIDE DEF lost
  <2>5. r \in Seq(Messages) /\ ToSet(r) = ToSet(lost) /\ IsInjective(r)
    BY <2>4, ReverseIs
  <2> HIDE DEF r
  <2>6. \A m \in ToSet(r) :
          m \in Lost(s, sd, q, late)
          /\ \E i \in DOMAIN q : q[i] = m /\ \A k \in i..Len(q) : ~Resolved(sd.state[q[k]])
    BY <2>4, <2>5, LostIs
  <2>7. DOMAIN q = 1..Len(q) /\ Len(q) \in Nat /\ ToSet(r) \subseteq Messages
    <3>1. ToSet(r) \subseteq Messages
      BY <2>5 DEF ToSet
    <3> HIDE DEF q
    <3> QED BY <1>3, <3>1
  <2>8. \A m \in ToSet(r) : ~Resolved(sd.state[m])
    <3> SUFFICES ASSUME NEW m \in ToSet(r) PROVE ~Resolved(sd.state[m])
      OBVIOUS
    <3>1. PICK i \in DOMAIN q : q[i] = m /\ \A k \in i..Len(q) : ~Resolved(sd.state[q[k]])
      BY <2>6
    <3>2. i \in i..Len(q)
      BY <2>7
    <3> QED BY <3>1, <3>2
  <2>9. ToSet(a.pushed) \cap ToSet(r) = {}
    BY <1>1, <1>4, <2>1, <2>8 DEF KeepsPushed
  <2>10. IsInjective(b.pushed) /\ ToSet(b.pushed) = ToSet(a.pushed) \cup ToSet(r)
    <3> HIDE DEF a, b
    <3> QED BY <1>1, <1>3, <2>2, <2>3, <2>5, <2>9, InjectiveAppended, ToSetAppended
  <2>11. \A m \in ToSet(b.pushed) : Resolved(b.state[m])
    <3> SUFFICES ASSUME NEW m \in ToSet(b.pushed) PROVE Resolved(b.state[m])
      OBVIOUS
    <3>1. CASE m \in ToSet(r)
      <4>1. b.state[m] = "UserNotAvailable"
        BY <2>2, <2>6, <2>7, <3>1
      <4> QED BY <4>1 DEF Resolved
    <3>2. CASE m \in ToSet(a.pushed)
      <4>1. m \in Messages /\ Resolved(sd.state[m])
        BY <1>1, <1>4, <2>1, <3>2 DEF KeepsPushed
      <4> QED BY <2>2, <4>1
    <3> QED BY <2>10, <3>1, <3>2
  <2>12. ToSet(r) \cap Covered(s) = {}
    <3> SUFFICES ASSUME NEW m \in ToSet(r), m \in Covered(s) PROVE FALSE
      OBVIOUS
    <3>1. PICK i \in DOMAIN q : q[i] = m /\ \A k \in i..Len(q) : ~Resolved(sd.state[q[k]])
      BY <2>6
    <3>2. PICK j \in DOMAIN q, k \in DOMAIN q :
            j <= k /\ q[j] = m /\ a.state[q[k]] = "Delivered"
      BY DEF Covered
    <3>3. i = j /\ k \in i..Len(q) /\ q[k] \in Messages
      <4>1. q[k] \in Messages
        <5> HIDE DEF q
        <5> QED BY <1>3, <3>2
      <4>2. i = j
        BY <1>5, <3>1, <3>2 DEF IsInjective
      <4> QED BY <2>7, <3>2, <4>1, <4>2
    <3>4. sd.state[q[k]] = "Delivered"
      BY <2>1, <3>2, <3>3 DEF KeepsPushed
    <3> QED BY <3>1, <3>3, <3>4 DEF Resolved
  <2>13. ToSet(SubSeq(b.pushed, Len(a.pushed) + 1, Len(b.pushed))) \subseteq ToSet(r)
    <3> HIDE DEF a, b
    <3> QED BY <1>3, <2>2, <2>3, <2>5, RestIs
  <2>14. q = << >> => b.pushed = a.pushed
    <3> SUFFICES ASSUME q = << >> PROVE r = << >>
      <4> HIDE DEF a, b
      <4> QED BY <1>3, <2>2, <2>3
    <3>1. ToSet(r) = {}
      BY <2>4, <2>5 DEF ToSet
    <3> QED BY <2>5, <3>1 DEF ToSet
  <2>15. PushesWell(s)
    BY <2>10, <2>12, <2>13 DEF PushesWell, PushedNow
  <2>16. PushesWritten(s)
    BY <1>4, <2>14 DEF PushesWritten, Written
  <2> QED BY <2>10, <2>11, <2>15, <2>16
<1> QED BY <1>6, <1>7, <1>8 DEF Moves

-----------------------------------------------------------------------------
(* What is told and received, in its types *)

TellsTypes == told \in [Locations -> [Messages -> States]] /\ got \in [Locations -> SUBSET Messages]

LEMMA ToldIs ==
  ASSUME TellsTypes, NEW e, NEW K, NEW state \in States,
         told' = [told EXCEPT ![e] = Raised(told[e], K, state)]
  PROVE  told' \in [Locations -> [Messages -> States]]
<1>1. CASE e \in Locations
  <2>1. told[e] \in [Messages -> States]
    BY <1>1 DEF TellsTypes
  <2>2. Raised(told[e], K, state) \in [Messages -> States]
    BY <2>1, RaisedIs
  <2> QED BY <2>2 DEF TellsTypes
<1>2. CASE e \notin Locations
  BY <1>2 DEF TellsTypes
<1> QED BY <1>1, <1>2

LEMMA SendsTells ==
  ASSUME TellsTypes, NEW e, Sends(e)
  PROVE  TellsTypes'
<1>1. told' = [told EXCEPT ![e][NextMessage(e)] = "Discovering"] /\ got' = got
  BY DEF Sends
<1>2. "Discovering" \in States
  BY DEF States
<1>3. CASE e \in Locations
  <2> DEFINE f == [told[e] EXCEPT ![NextMessage(e)] = "Discovering"]
  <2>1. told[e] \in [Messages -> States]
    BY <1>3 DEF TellsTypes
  <2>2. f \in [Messages -> States]
    BY <1>2, <2>1
  <2>3. told' = [told EXCEPT ![e] = f]
    BY <1>1
  <2> HIDE DEF f
  <2> QED BY <1>1, <2>2, <2>3 DEF TellsTypes
<1>4. CASE e \notin Locations
  BY <1>1, <1>4 DEF TellsTypes
<1> QED BY <1>3, <1>4

LEMMA DeliveryStepTells ==
  ASSUME DeliveryInv, TellsTypes, DeliveryNext
  PROVE  TellsTypes'
<1>0. {"Delivered", "UserNotAvailable", "None"} \subseteq States
  BY DEF States
<1>1. CASE HostSends
  BY <1>1, SendsTells DEF HostSends
<1>2. ASSUME NEW s \in Sides, GuestSends(s) PROVE TellsTypes'
  BY <1>2, SendsTells DEF GuestSends
<1>3. ASSUME NEW s \in Sides, NEW e, NEW K, NEW more \in SUBSET Messages,
             told' = [told EXCEPT ![e] = Raised(told[e], K, "Delivered")],
             got' = [got EXCEPT ![e] = got[e] \cup more]
      PROVE  TellsTypes'
  <2>1. told' \in [Locations -> [Messages -> States]]
    BY <1>0, <1>3, ToldIs
  <2>2. got' \in [Locations -> SUBSET Messages]
    BY <1>3 DEF TellsTypes
  <2> QED BY <2>1, <2>2 DEF TellsTypes
<1>4. ASSUME NEW s \in Sides
      PROVE  ToSet(Changed(side[s].seen, doc[Theirs(s)])) \in SUBSET Messages
  <2> DEFINE theirs == doc[Theirs(s)]
  <2>1. DeliveryHolds(doc, side, reached, sent, restarted) /\ Theirs(s) \in Documents
    BY SideFacts DEF DeliveryInv
  <2>2. theirs \in Docs(SentBy(sent)) /\ IsInjective(theirs.messages)
        /\ theirs.messages \in Seq(SentBy(sent))
    BY <2>1, DocumentFacts
  <2>3. ToSet(theirs.messages) \subseteq Messages
    BY <2>2 DEF ToSet, SentBy
  <2> HIDE DEF theirs
  <2>4. ToSet(Changed(side[s].seen, theirs)) \subseteq ToSet(theirs.messages)
    BY <2>2, ChangedIs
  <2> QED BY <2>3, <2>4 DEF theirs
<1>5. ASSUME NEW s \in Sides, OnSlavePublicationUpdated(s) PROVE TellsTypes'
  <2> DEFINE t == Thread(s)
             more == ToSet(Changed(side[s].seen, doc[Theirs(s)]))
  <2>1. got' = [got EXCEPT ![t] = got[t] \cup more]
        /\ \E K : told' = [told EXCEPT ![t] = Raised(told[t], K, "Delivered")]
    BY <1>5 DEF OnSlavePublicationUpdated
  <2>2. more \in SUBSET Messages
    BY <1>4
  <2> HIDE DEF t, more
  <2> QED BY <1>3, <2>1, <2>2
<1>6. ASSUME NEW s \in Sides, NEW late, OnHostPublicationUpdated(s, late) PROVE TellsTypes'
  <2> DEFINE e == Self(s)
             more == Unknown(Changed(side[s].seen, doc[Theirs(s)]), doc[Own(s)])
  <2>1. got' = [got EXCEPT ![e] = got[e] \cup more]
        /\ \E K, L : told' = [told EXCEPT ![e] =
             Raised(Raised(told[e], K, "Delivered"), L, "UserNotAvailable")]
    BY <1>6 DEF OnHostPublicationUpdated
  <2>2. more \in SUBSET Messages /\ e \in Locations
    BY <1>4, SideFacts DEF Unknown
  <2> HIDE DEF e, more
  <2>3. told[e] \in [Messages -> States]
    BY <2>2 DEF TellsTypes
  <2>4. PICK K, L : told' = [told EXCEPT ![e] =
             Raised(Raised(told[e], K, "Delivered"), L, "UserNotAvailable")]
    BY <2>1
  <2>5. Raised(Raised(told[e], K, "Delivered"), L, "UserNotAvailable") \in [Messages -> States]
    <3>1. Raised(told[e], K, "Delivered") \in [Messages -> States]
      BY <1>0, <2>3, RaisedIs
    <3> HIDE DEF Raised
    <3> QED BY <1>0, <3>1, RaisedIs
  <2> QED BY <2>1, <2>2, <2>4, <2>5 DEF TellsTypes
<1>7. ASSUME NEW s \in Sides, NEW late, Steps(s, late) PROVE TellsTypes'
  <2>1. got' = got /\ \E e, K : told' = [told EXCEPT ![e] = Raised(told[e], K, "UserNotAvailable")]
    BY <1>7 DEF Steps, ContactSteps, GuestSteps
  <2> QED BY <1>0, <2>1, ToldIs DEF TellsTypes
<1>8. ASSUME NEW s \in Sides, OnWake(s) \/ OnTimer(s) PROVE TellsTypes'
  BY <1>7, <1>8 DEF OnWake, OnTimer
<1>9. ASSUME NEW e, NEW x, Find(e, x) \/ FindEnds(e, x) \/ Connect(e, x) \/ Disconnect(e, x)
      PROVE  TellsTypes'
  BY <1>9 DEF Find, FindEnds, Connect, Disconnect, TellsTypes
<1>10. CASE Restart
  <2>1. /\ told' = [told EXCEPT ![Host] = [m \in Messages |-> "None"]]
        /\ got' = [got EXCEPT ![Host] = {}]
    BY <1>10 DEF Restart
  <2>2. [m \in Messages |-> "None"] \in [Messages -> States]
    BY <1>0
  <2> QED BY <2>1, <2>2 DEF TellsTypes
<1> QED BY <1>1, <1>2, <1>5, <1>6, <1>8, <1>9, <1>10 DEF DeliveryNext

-----------------------------------------------------------------------------
(* The conversation, for any locations and messages *)

LEMMA DeliveryStep ==
  ASSUME DeliveryInv, DeliveryNext
  PROVE  DeliveryInv' /\ \A s \in Sides : Moves(s)
<1>1. CASE HostSends
  BY <1>1, HostSendsHolds, HostSendsMoves
<1>2. CASE \E s \in Sides : GuestSends(s)
  BY <1>2, GuestSendsHolds, GuestSendsMoves
<1>3. CASE \E s \in Sides : OnSlavePublicationUpdated(s)
  BY <1>3, OnSlavePublicationUpdatedHolds, OnSlavePublicationUpdatedMoves
<1>4. \A s \in Sides : 0 .. Len(doc[Own(s)].messages) \subseteq Nat
  OBVIOUS
<1>5. CASE \E s \in Sides : \E late \in 0 .. Len(doc[Own(s)].messages) :
             OnHostPublicationUpdated(s, late)
  BY <1>4, <1>5, OnHostPublicationUpdatedHolds, OnHostPublicationUpdatedMoves
<1>6. ASSUME NEW s \in Sides, OnWake(s) \/ OnTimer(s)
      PROVE  DeliveryInv' /\ \A s2 \in Sides : Moves(s2)
  <2>1. PICK late \in 0 .. Len(doc[Own(s)].messages) : Steps(s, late)
    BY <1>6 DEF OnWake, OnTimer
  <2>2. late \in Nat
    OBVIOUS
  <2>3. ContactSteps(s, late) \/ GuestSteps(s, late)
    BY <2>1 DEF Steps
  <2> QED BY <2>2, <2>3, ContactStepsHolds, ContactStepsMoves, GuestStepsHolds, GuestStepsMoves
<1>7. ASSUME NEW e, NEW x, Find(e, x) \/ FindEnds(e, x) \/ Connect(e, x) \/ Disconnect(e, x)
      PROVE  DeliveryInv' /\ \A s \in Sides : Moves(s)
  BY <1>7, FindHolds, DisconnectHolds, OthersMove
<1>8. CASE Restart
  BY <1>8, RestartHolds, RestartMoves
<1> QED BY <1>1, <1>2, <1>3, <1>5, <1>6, <1>7, <1>8 DEF DeliveryNext

LEMMA DeliveryStutters ==
  ASSUME DeliveryInv, UNCHANGED deliveryVars
  PROVE  DeliveryInv' /\ \A s \in Sides : Moves(s)
BY KeepsItself DEF deliveryVars, DeliveryInv, Moves

DeliveryAll == DeliveryInv /\ PushedOnce /\ PushedIsWritten /\ TellsTypes

LEMMA DeliveryAllInit ==
  ASSUME DeliveryInit
  PROVE  DeliveryAll
<1>1. PushedOnce
  <2>1. \A s \in Sides : side[s].pushed = << >>
    BY NewSideIs DEF DeliveryInit
  <2>2. IsInjective(<< >>) /\ ToSet(<< >>) = {}
    BY DEF IsInjective, ToSet
  <2> QED BY <2>1, <2>2 DEF PushedOnce
<1>2. PushedIsWritten /\ TellsTypes
  BY NewSideIs DEF DeliveryInit, PushedIsWritten, TellsTypes, States
<1> QED BY <1>1, <1>2, InitHolds DEF DeliveryAll

LEMMA DeliveryAllStep ==
  ASSUME DeliveryAll, [DeliveryNext]_deliveryVars
  PROVE  /\ DeliveryAll'
         /\ \A s \in Sides : Len(side'[s].pushed) > Len(side[s].pushed) => PushesOutstanding(s)
<1>1. DeliveryInv' /\ \A s \in Sides : Moves(s)
  BY DeliveryStep, DeliveryStutters DEF DeliveryAll
<1>2. \A s \in Sides : /\ IsInjective(side'[s].pushed)
                       /\ \A m \in ToSet(side'[s].pushed) : Resolved(side'[s].state[m])
                       /\ PushesWell(s) /\ PushesWritten(s)
  BY <1>1, PushesAre DEF DeliveryAll
<1>3. TellsTypes'
  <2>1. CASE DeliveryNext
    BY <2>1, DeliveryStepTells DEF DeliveryAll
  <2>2. CASE UNCHANGED deliveryVars
    BY <2>2 DEF DeliveryAll, TellsTypes, deliveryVars
  <2> QED BY <2>1, <2>2
<1>4. PushedIsWritten'
  <2> SUFFICES ASSUME NEW s \in Sides, side'[s].pushed # << >>
               PROVE  doc'[Own(s)].messages # << >>
    BY DEF PushedIsWritten, Written, Own, Thread, Self
  <2>1. Written(s)
    BY <1>2 DEF DeliveryAll, PushedIsWritten, PushesWritten
  <2>2. CASE DeliveryNext
    BY <2>1, <2>2, DocumentsLast, NewSideIs DEF DeliveryAll, Lasts
  <2>3. CASE UNCHANGED deliveryVars
    BY <2>1, <2>3 DEF Written, deliveryVars
  <2> QED BY <2>2, <2>3
<1>5. ASSUME NEW s \in Sides, Len(side'[s].pushed) > Len(side[s].pushed)
      PROVE  PushesOutstanding(s)
  <2> SUFFICES ASSUME NEW r \in About(Self(s), Other(s)) \ {s},
                      PushedNow(s) \cap (ToSet(side[r].pushed) \cup Covered(r)) # {}
               PROVE  \E g \in About(Self(s), Other(s)) : side[g].converted
    BY <1>2, <1>5 DEF PushesOutstanding, PushesWell, MetElsewhere
  <2>1. Written(s)
    BY <1>2, <1>5 DEF PushesWritten
  <2>2. r \in Sides
    BY DEF About
  <2>3. Written(r)
    <3> SUFFICES ASSUME ~Written(r) PROVE FALSE
      OBVIOUS
    <3>1. side[r].pushed = << >>
      BY <2>2 DEF DeliveryAll, PushedIsWritten
    <3>2. ToSet(side[r].pushed) = {}
      BY <3>1 DEF ToSet
    <3>3. Covered(r) = {}
      BY DEF Covered, Written
    <3> QED BY <3>2, <3>3
  <2> QED BY <2>1, <2>3, TwoThreads DEF DeliveryAll
<1> QED BY <1>1, <1>2, <1>3, <1>4, <1>5 DEF DeliveryAll, PushedOnce

LEMMA SpecDeliveryAll == DeliverySpec => []DeliveryAll
<1>1. DeliveryInit => DeliveryAll
  BY DeliveryAllInit
<1>2. DeliveryAll /\ [DeliveryNext]_deliveryVars => DeliveryAll'
  BY DeliveryAllStep
<1> QED BY <1>1, <1>2, PTL DEF DeliverySpec

(* The documents hold each message once, and everything has its type.       *)
THEOREM SpecDeliveryTypeOK == DeliverySpec => []DeliveryTypeOK
<1>1. DeliveryAll => DeliveryTypeOK
  <2> SUFFICES ASSUME DeliveryAll PROVE DeliveryTypeOK
    OBVIOUS
  <2>1. DeliveryHolds(doc, side, reached, sent, restarted) /\ TellsTypes
    BY DEF DeliveryAll, DeliveryInv
  <2>2. SentBy(sent) \subseteq Messages
    BY DEF SentBy
  <2>3. \A d \in Documents :
          /\ doc[d].messages \in Seq(SentBy(sent)) /\ IsInjective(doc[d].messages)
          /\ doc[d].receipts \subseteq SentBy(sent)
    BY <2>1, DocumentFacts
  <2>4. \A s \in Sides : side[s] \in SideRecords(SentBy(sent))
    BY <2>1, SideRecordFacts
  <2>5. \A s \in Sides :
          /\ side[s].acked \subseteq Messages
          /\ side[s].state \in [Messages -> States]
          /\ side[s].wake \in {"No", "Step", "Located"}
          /\ side[s].subscribed \in BOOLEAN /\ side[s].timer \in BOOLEAN
    BY <2>4 DEF SideRecords
  <2>6. \A d \in Documents : doc[d].messages \in Seq(Messages)
    BY <2>2, <2>3
  <2> QED BY <2>1, <2>2, <2>3, <2>5, <2>6 DEF DeliveryTypeOK, TellsTypes
<1> QED BY <1>1, SpecDeliveryAll, PTL

(* What counts as delivered to the other end was given to its application   *)
(* or comes from it, however documents are read, connections are lost and   *)
(* the host is started anew.                                                *)
THEOREM SpecDeliveredIsReceived == DeliverySpec => []DeliveredIsReceived
<1>1. DeliveryAll => DeliveredIsReceived
  <2> SUFFICES ASSUME DeliveryAll, NEW s \in Sides, NEW m \in Covered(s) \cup side[s].acked
               PROVE  m[1] = Other(s) \/ <<Other(s), m>> \in reached
    BY DEF DeliveredIsReceived
  <2> DEFINE q == doc[Own(s)].messages
  <2>1. DeliveryHolds(doc, side, reached, sent, restarted) /\ Own(s) \in Documents
    BY SideFacts DEF DeliveryAll, DeliveryInv
  <2>2. /\ UpTo(q, DeliveredTo(side[s]), Other(s), reached)
        /\ \A r \in side[s].acked : Received(Other(s), reached, r)
    BY <2>1 DEF DeliveryHolds, DeliveredTrue
  <2>3. q \in Seq(SentBy(sent)) /\ SentBy(sent) \subseteq Messages
    BY <2>1, DocumentFacts DEF SentBy
  <2>4. CASE m \in Covered(s)
    <3>1. PICK i \in DOMAIN q, k \in DOMAIN q :
            i <= k /\ q[i] = m /\ side[s].state[q[k]] = "Delivered"
      BY <2>4 DEF Covered
    <3> HIDE DEF q
    <3>2. i \in 1..Len(q) /\ k \in 1..Len(q) /\ q[k] \in Messages
      BY <2>3, <3>1
    <3>3. q[k] \in DeliveredTo(side[s])
      BY <3>1, <3>2 DEF DeliveredTo
    <3> QED BY <2>2, <3>1, <3>2, <3>3 DEF UpTo, Received
  <2>5. CASE m \in side[s].acked
    BY <2>2, <2>5 DEF Received
  <2> QED BY <2>4, <2>5
<1> QED BY <1>1, SpecDeliveryAll, PTL

(* In a thread, a message is given to the application to be pushed once for *)
(* each contact, and never when the contact acknowledged it there or a      *)
(* later one.  What another thread gave it for the same contact, or has     *)
(* acknowledged, is given again only by a guest that moved its messages to  *)
(* a thread of its own when it met the host started anew.                   *)
THEOREM SpecPushesOnlyOutstanding == DeliverySpec => PushesOnlyOutstanding
<1>1. DeliveryAll /\ [DeliveryNext]_deliveryVars =>
        [\A s \in Sides : Len(side'[s].pushed) > Len(side[s].pushed) => PushesOutstanding(s)]_deliveryVars
  BY DeliveryAllStep
<1> QED BY <1>1, SpecDeliveryAll, PTL DEF DeliverySpec, PushesOnlyOutstanding
=============================================================================
