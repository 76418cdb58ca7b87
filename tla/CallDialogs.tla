----------------------------- MODULE CallDialogs -----------------------------
(* A call between the location it is placed from and the locations of the   *)
(* contact it is placed to (openpeer/core/cpp: core_Call.cpp, and what the  *)
(* threads of a conversation do about calls).                               *)
(*                                                                          *)
(* Every location has a Call object and publishes its dialog in its         *)
(* document of the conversation; the documents reach the others later, and  *)
(* only the latest of several versions may.  Nobody asks anybody: each end  *)
(* steps when something changed, from the dialogs it has seen.              *)
EXTENDS Naturals, Sequences, SequencesExt

CONSTANTS
  Callees,        (* the locations that ring, as they are ordered by their  *)
                  (* IDs: a sequence                                        *)
  MaxTrouble      (* bound: calls of hangup() and connections that fail     *)

ASSUME CalleesAssumption ==
  /\ Callees \in Seq(ToSet(Callees)) /\ Callees # << >>
  /\ "a" \notin ToSet(Callees) /\ "none" \notin ToSet(Callees)

VARIABLES
  call,           (* per end: its Call                                      *)
  location,       (* per end: mCallLocations, by the other end              *)
  published,      (* per end: its dialog, in the document it publishes      *)
  seen,           (* per end: the dialogs of the others that it has         *)
  wake,           (* the ends with an onWake posted                         *)
  handled,        (* those called that have a handler for the call          *)
  used            (* bounded: the calls and failures so far             *)

dialogVars == <<call, location, published, seen, wake, handled, used>>

Caller == "a"
Called == ToSet(Callees)
Ends == {Caller} \cup Called
OtherEnds(e) == IF e = Caller THEN Called ELSE {Caller}

None == "none"
NoDialog == [state |-> None, reason |-> None, callee |-> None]
NoLocation == [state |-> None, dialog |-> NoDialog]

Over(dialog) == dialog.state \in {"Closing", "Closed"}

-----------------------------------------------------------------------------
(* Publishing: notifyCallStateChanged with the dialog of the new state *)

DialogOf(e, state, reason, callee) ==
  [state |-> state, reason |-> IF state = "Closed" THEN reason ELSE None, callee |-> callee]

(* setCurrentState: without a dialog there is nothing to publish. *)
Publish(e, c) ==
  published' =
    IF c.dialog /\ (c.state # call[e].state \/ c.told # call[e].told)
    THEN [published EXCEPT ![e] = DialogOf(e, c.state, c.reason, IF e = Caller THEN c.picked ELSE e)]
    ELSE published

(* setClosedReason: the first one stays. *)
WithReason(c, reason) == IF c.reason = None THEN [c EXCEPT !.reason = reason] ELSE c

(* cancel() as far as Closing *)
Cancelled(c, reason) == [WithReason(c, reason) EXCEPT !.state = "Closing"]

-----------------------------------------------------------------------------
(* The application *)

(* placeCall(), and its first step: the dialog is published by the thread. *)
PlaceCall ==
  /\ call[Caller].state = None
  /\ call' = [call EXCEPT ![Caller].state = "Preparing", ![Caller].dialog = TRUE]
  /\ published' = [published EXCEPT ![Caller] = DialogOf(Caller, "Preparing", None, None)]
  /\ UNCHANGED <<location, seen, wake, handled, used>>

(* "do not present this call to a user yet" (ICall.h), of one that prepares *)
Presented(e) ==
  call[e].state \in (IF e = Caller THEN {"Preparing", "Placed", "Open"} ELSE {"Incoming", "Open"})

Answer(e) ==
  /\ call[e].state = "Incoming" /\ ~call[e].answered
  /\ call' = [call EXCEPT ![e].answered = TRUE]
  /\ wake' = wake \cup {e}
  /\ UNCHANGED <<location, published, seen, handled, used>>

Reasons(e) == IF e = Caller THEN {"User"} ELSE {"User", "Decline"}

(* hangup(), and cancel() when it is its turn in the queue *)
Hangup(e, reason) ==
  /\ Presented(e) /\ used < MaxTrouble
  /\ used' = used + 1
  /\ LET c == Cancelled(call[e], reason) IN
       call' = [call EXCEPT ![e] = c] /\ Publish(e, c)
  /\ UNCHANGED <<location, seen, wake, handled>>

-----------------------------------------------------------------------------
(* The connections to the other end *)

(* Both have made a location of the other, and the connections are there. *)
LocationReady(e, x) ==
  /\ location[e][x].state = "Pending" /\ location[x][e].state # None
  /\ location' = [location EXCEPT ![e][x].state = "Ready"]
  /\ wake' = wake \cup {e}
  /\ UNCHANGED <<call, published, seen, handled, used>>

(* notifyStateChanged of a location that closes *)
LocationFails(e, x) ==
  /\ location[e][x].state # None /\ used < MaxTrouble
  /\ used' = used + 1
  /\ location' = [location EXCEPT ![e][x] = NoLocation]
  /\ call' = IF call[e].picked = x
             THEN [call EXCEPT ![e] = [WithReason(@, "User") EXCEPT !.picked = None]]
             ELSE call
  /\ wake' = wake \cup {e}
  /\ UNCHANGED <<published, seen, handled>>

-----------------------------------------------------------------------------
(* step() *)

Replies(e) == {x \in OtherEnds(e) : seen[e][x] # NoDialog}

(* stepPrepareCallLocations: who is known already has its dialog updated, a *)
(* location is made of who is not and is not over.                          *)
Prepared(e) ==
  [x \in OtherEnds(e) |->
     IF x \notin Replies(e) THEN location[e][x]
     ELSE IF location[e][x] # NoLocation
     THEN IF call[e].picked \notin {None, x} THEN NoLocation
          ELSE [location[e][x] EXCEPT !.dialog = seen[e][x]]
     ELSE IF call[e].picked = None /\ ~Over(seen[e][x])
     THEN [state |-> "Pending", dialog |-> seen[e][x]]
     ELSE NoLocation]

(* Those that are over and that no location is left of *)
OverElsewhere(e) ==
  {x \in Replies(e) : call[e].picked = None /\ location[e][x] = NoLocation /\ Over(seen[e][x])}

ReasonsElsewhere(e) == {seen[e][x].reason : x \in OverElsewhere(e)}

(* the mutant of LockedElsewhere: only who rings still is told *)
MutantLockedElsewhere(e, dialog) ==
  e # Caller /\ dialog.callee \notin {None, e} /\ ~call[e].answered

(* isLockedToAnotherLocation: the dialog of the caller names who it picked, *)
(* the dialogs of those called do not say who calls.                        *)
LockedElsewhere(e, dialog) == e # Caller /\ dialog.callee \notin {None, e}

(* The caller picks the first that answered, in the order of their IDs, and *)
(* looks no further.                                                        *)
Answered(l) == l.state = "Ready" /\ l.dialog.state = "Open"
FirstAnswered(known) == SelectInSeq(Callees, LAMBDA x : Answered(known[x]))

(* Those before it that are over are removed. *)
Removed(known) ==
  {Callees[i] : i \in {j \in 1..Len(Callees) :
     /\ FirstAnswered(known) = 0 \/ j < FirstAnswered(known)
     /\ known[Callees[j]] # NoLocation
     /\ Over(known[Callees[j]].dialog)}}

StateOfCaller(known, c) ==
  IF c.picked # None THEN "Open"
  ELSE IF \E x \in Called \ Removed(known) : known[x].state = "Ready" THEN "Placed" ELSE c.state

(* stepTryToPickALocation and stepHandlePickedLocation of the caller *)
StepOfCaller(c, known) ==
  LET i == FirstAnswered(known)
      picked == IF c.picked = None /\ i # 0 THEN [c EXCEPT !.picked = Callees[i]] ELSE c
  IN [picked EXCEPT !.state = StateOfCaller(known, picked)]

(* ... and of an end that is called: "told" is whether it has published     *)
(* that it prepares.                                                        *)
StepOfCalled(c, known) ==
  LET ready == known[Caller].state = "Ready" IN
  [c EXCEPT !.picked = Caller, !.dialog = TRUE, !.told = TRUE,
            !.state = IF ~ready THEN @ ELSE IF c.answered THEN "Open" ELSE "Incoming"]

(* What is found to be over, or no longer there, closes the call: see which *)
(* of its conditions is for whom.                                           *)
MustClose(e, known) ==
  LET c == call[e] IN
  \/ c.reason # None
  \/ c.picked # None /\ (c.picked \notin Replies(e) \/ Over(seen[e][c.picked]))
  \/ "Decline" \in ReasonsElsewhere(e)
  \/ e # Caller /\ (known[Caller] = NoLocation \/ LockedElsewhere(e, known[Caller].dialog))
  \/ /\ e = Caller /\ c.picked = None /\ c.closedTime = "past"
     /\ OverElsewhere(e) # {} /\ \A x \in Called : known[x] = NoLocation

(* ... with the reason of the other end, if it gave one *)
ReasonToClose(e) ==
  LET c == call[e]
      reasons == IF c.picked # None /\ c.picked \in Replies(e) THEN {seen[e][c.picked].reason}
                 ELSE ReasonsElsewhere(e)
  IN IF reasons \ {None} = {} THEN "User"
     ELSE IF "Decline" \in reasons THEN "Decline" ELSE CHOOSE r \in reasons \ {None} : TRUE

(* The time of the first that was over; the timer is for when no other is   *)
(* left, and stopped when one has picked up.                                *)
Timed(e, c, known) ==
  IF e # Caller THEN c
  ELSE IF c.picked # None THEN [c EXCEPT !.timer = FALSE]
  ELSE [c EXCEPT
    !.closedTime = IF @ = "never" /\ OverElsewhere(e) # {} THEN "running" ELSE @,
    !.timer = @ \/ (OverElsewhere(e) # {} /\ \A x \in Called : known[x] = NoLocation)]

Step(e) ==
  /\ e \in wake /\ call[e].state # "Closing"
  /\ IF call[e].state \in {None, "Closed"}
     THEN wake' = wake \ {e} /\ UNCHANGED <<call, location, published>>
     ELSE IF MustClose(e, Prepared(e))
     THEN /\ LET c == Cancelled([call[e] EXCEPT !.dialog = TRUE], ReasonToClose(e)) IN
               call' = [call EXCEPT ![e] = c] /\ Publish(e, c)
          /\ wake' = wake \ {e}
          /\ UNCHANGED location
     ELSE LET known == Prepared(e)
              c == Timed(e, call[e], known)
              stepped == IF e = Caller THEN StepOfCaller(c, known) ELSE StepOfCalled(c, known)
              removed == IF e = Caller /\ c.picked = None THEN Removed(known) ELSE {}
              again == e = Caller /\ (removed # {} \/ stepped.picked # c.picked)
          IN /\ call' = [call EXCEPT ![e] = stepped]
             /\ Publish(e, stepped)
             /\ location' = [location EXCEPT ![e] =
                  [x \in OtherEnds(e) |-> IF x \in removed THEN NoLocation ELSE known[x]]]
             /\ wake' = IF again THEN wake ELSE wake \ {e}
  /\ UNCHANGED <<seen, handled, used>>

(* the mutant of CancelCloses: the locations stay *)
MutantCancelCloses(e) ==
  /\ call[e].state = "Closing"
  /\ LET c == [call[e] EXCEPT !.state = "Closed", !.timer = FALSE] IN
       /\ Publish(e, c)
       /\ call' = [call EXCEPT ![e] = [c EXCEPT !.picked = None]]
  /\ UNCHANGED <<location, seen, wake, handled, used>>

(* The rest of cancel(), and the timer that has the dialog removed *)
CancelCloses(e) ==
  /\ call[e].state = "Closing"
  /\ LET c == [call[e] EXCEPT !.state = "Closed", !.timer = FALSE] IN
       /\ Publish(e, c)
       /\ call' = [call EXCEPT ![e] = [c EXCEPT !.picked = None]]
  /\ location' = [location EXCEPT ![e] = [x \in OtherEnds(e) |-> NoLocation]]
  /\ UNCHANGED <<seen, wake, handled, used>>

(* onTimer of mFirstClosedRemoteCallTimer; the time passes without it, too. *)
TimePasses ==
  /\ call[Caller].closedTime = "running"
  /\ call' = [call EXCEPT ![Caller].closedTime = "past", ![Caller].timer = FALSE]
  /\ wake' = IF call[Caller].timer THEN wake \cup {Caller} ELSE wake
  /\ UNCHANGED <<location, published, seen, handled, used>>

-----------------------------------------------------------------------------
(* The threads of the conversation *)

(* A later version of the document of x arrives at e: a dialog that changed *)
(* wakes the call; at an end that is called one is made of a dialog that    *)
(* has no handler, and a dialog that is gone takes the handler with it.     *)
Replicate(e, x) ==
  /\ seen[e][x] # published[x]
  /\ seen' = [seen EXCEPT ![e][x] = published[x]]
  /\ wake' = wake \cup {e}
  /\ IF e = Caller THEN UNCHANGED <<call, handled>>
     ELSE IF published[x] = NoDialog THEN handled' = handled \ {e} /\ UNCHANGED call
     ELSE IF e \in handled THEN UNCHANGED <<call, handled>>
     ELSE handled' = handled \cup {e} /\ call' = [call EXCEPT ![e].state = "Preparing"]
  /\ UNCHANGED <<location, published, used>>

(* Nothing is under way that takes seconds. *)
Settled ==
  /\ wake = {} /\ \A e \in Ends : call[e].state # "Closing"
  /\ \A e \in Ends : \A x \in OtherEnds(e) : seen[e][x] = published[x]
  /\ ~call[Caller].timer

(* onTimer of mCleanupTimer, and notifyCallCleanup: it takes two minutes,   *)
(* and all the rest seconds.                                                *)
Cleanup(e) ==
  /\ Settled /\ call[e].state = "Closed" /\ published[e] # NoDialog
  /\ published' = [published EXCEPT ![e] = NoDialog]
  /\ UNCHANGED <<call, location, seen, wake, handled, used>>

DialogInit ==
  /\ call = [e \in Ends |-> [state |-> None, reason |-> None, picked |-> None,
                             dialog |-> FALSE, told |-> FALSE, answered |-> FALSE,
                             closedTime |-> "never", timer |-> FALSE]]
  /\ location = [e \in Ends |-> [x \in OtherEnds(e) |-> NoLocation]]
  /\ published = [e \in Ends |-> NoDialog]
  /\ seen = [e \in Ends |-> [x \in OtherEnds(e) |-> NoDialog]]
  /\ wake = {}
  /\ handled = {}
  /\ used = 0

DialogNext ==
  \/ PlaceCall \/ TimePasses
  \/ \E e \in Ends :
       \/ Answer(e) \/ Step(e) \/ CancelCloses(e) \/ Cleanup(e)
       \/ \E reason \in Reasons(e) : Hangup(e, reason)
       \/ \E x \in OtherEnds(e) :
            LocationReady(e, x) \/ LocationFails(e, x) \/ Replicate(e, x)

DialogSpec == DialogInit /\ [][DialogNext]_dialogVars
-----------------------------------------------------------------------------
(* Properties. *)

(* The variables have their types, who has a location of another end has a  *)
(* call, and a call that is closed has none left.                           *)
DialogTypeOK ==
  /\ \A e \in Ends :
       /\ call[e].state \in {None, "Preparing", "Placed", "Incoming", "Open", "Closing", "Closed"}
       /\ call[e].reason \in {None, "User", "Decline"}
       /\ call[e].picked \in OtherEnds(e) \cup {None}
       /\ call[e].state = "Closed" =>
            call[e].picked = None /\ \A x \in OtherEnds(e) : location[e][x] = NoLocation
       /\ \A x \in OtherEnds(e) :
            /\ location[e][x].state \in {None, "Pending", "Ready"}
            /\ location[e][x].state # None => call[e].state # None
  /\ wake \subseteq Ends /\ handled \subseteq Called

IsOpen(e) == call[e].state = "Open"
IsOver(e) == call[e].state = "Closed"

(* When everything has settled the ends agree: who answered and is not over *)
(* is the one the caller picked, or the caller waits for the connections to *)
(* it; whoever is picked is in the call; when the caller is over so are all *)
(* that were called, and when one declined, or all are over, so is the      *)
(* caller, unless it picked another.                                        *)
CallAgreed ==
  Settled =>
    /\ \A b \in Called : IsOpen(b) =>
         call[Caller].picked = b \/ (call[Caller].picked = None /\ location[Caller][b].state # "Ready"
                                     /\ ~IsOver(Caller))
    /\ IsOpen(Caller) => IsOpen(call[Caller].picked)
    /\ IsOver(Caller) => \A b \in Called : call[b].state \in {None, "Closed"}
    /\ (\/ \A b \in Called : IsOver(b)
        \/ \E b \in Called : IsOver(b) /\ call[b].reason = "Decline" /\ published[b] # NoDialog) =>
         IsOpen(Caller) \/ IsOver(Caller)
=============================================================================
