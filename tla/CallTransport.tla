---------------------------- MODULE CallTransport ----------------------------
(* Which call is heard (openpeer/core/cpp: core_CallTransport.cpp and what  *)
(* core_Call.cpp does about the focus).                                     *)
(*                                                                          *)
(* A call steps on the core queue, from what it was told so far, and posts  *)
(* onSetFocus to the media queue before it stores the location that it      *)
(* picked.  The transport gives the focus to one call, puts the one that    *)
(* had it on hold, and has the media engine stopped and started.  Each step *)
(* here is what is done under one lock.  A call may also hear a location     *)
(* before it is picked, one that publishes Early: none does in this code    *)
(* (see CallDialogs), so there is no such location here.                    *)
EXTENDS Naturals, Sequences, FiniteSets

CONSTANTS
  Calls,
  Incoming,       (* those of them that are not placed here                 *)
  MaxTurns,       (* bound: calls of hold() and other reasons for a step    *)
  MayHangup       (* bound: those that may be ended                         *)

VARIABLES
  call,           (* per call, what it keeps                                *)
  stepping,       (* the core queue: where a step() or a cancel() has got   *)
  wake,           (* calls with a posted onWake                             *)
  media,          (* the media queue                                        *)
  playing,        (* its thread: what is under way                          *)
  focus,          (* mFocusCallID, mFocus                                   *)
  transport,      (* mTotalCalls, mStarted, mBlockUntilStartStopCompleted   *)
  engine,         (* the call the media engine runs for                     *)
  asked           (* bounded, and history: the last hold() of the user      *)

callVars == <<call, stepping, wake, media, playing, focus, transport, engine, asked>>

None == "none"

(* None stands for no call. *)
ASSUME CallsAreNamed == None \notin Calls

Idle == [at |-> "idle", call |-> None]

SetFocus(c, on) == [kind |-> "focus", call |-> c, on |-> on]
Start == [kind |-> "start", call |-> None, on |-> TRUE]
Stop  == [kind |-> "stop", call |-> None, on |-> FALSE]

-----------------------------------------------------------------------------
(* The transport, under its lock *)

(* focus() of no call: mFocus is left as it is. *)
Unfocus(queue) ==
  /\ focus' = [focus EXCEPT !.call = None]
  /\ transport' = [transport EXCEPT !.block = @ + 1]
  /\ media' = Append(queue, Stop)

LoseFocus(c, queue) ==
  IF focus.call = c THEN Unfocus(queue)
  ELSE media' = queue /\ UNCHANGED <<focus, transport>>

(* focus() of a call: whatever mFocus is loses the focus, if it goes to     *)
(* another call than the one that has it.  (A call has but one location to  *)
(* ask for, so the media are never restarted for another one of it.)        *)
Focus(c) ==
  IF focus.call = c THEN playing' = Idle /\ UNCHANGED <<focus, transport, media>>
  ELSE /\ focus' = [call |-> c, object |-> c]
       /\ playing' = IF focus.object = None THEN Idle ELSE [at |-> "tell", call |-> focus.object]
       /\ transport' = [transport EXCEPT !.block = @ + 1]
       /\ media' = Append(media, Start)

-----------------------------------------------------------------------------
(* The application and the other end *)

(* init() and notifyCallCreation; a call that is not there is in no state. *)
Create(c) ==
  /\ call[c].state = None
  /\ call' = [call EXCEPT ![c].state = "Preparing"]
  /\ transport' = [transport EXCEPT !.total = @ + 1]
  /\ wake' = wake \cup {c}
  /\ UNCHANGED <<stepping, media, playing, focus, engine, asked>>

Answer(c) ==
  /\ c \in Incoming /\ call[c].state # None /\ ~call[c].answered
  /\ call' = [call EXCEPT ![c].answered = TRUE]
  /\ wake' = wake \cup {c}
  /\ UNCHANGED <<stepping, media, playing, focus, transport, engine, asked>>

(* The location that calls has its connections. *)
LocationReady(c) ==
  /\ c \in Incoming /\ call[c].picked /\ ~call[c].ready
  /\ call' = [call EXCEPT ![c].ready = TRUE]
  /\ wake' = wake \cup {c}
  /\ UNCHANGED <<stepping, media, playing, focus, transport, engine, asked>>

Hold(c, hold) ==
  /\ call[c].state # None /\ asked.turns < MaxTurns
  /\ call[c].hold # hold
  /\ call' = [call EXCEPT ![c].hold = hold]
  /\ asked' = [asked EXCEPT !.turns = @ + 1, !.hold[c] = hold]
  /\ wake' = wake \cup {c}
  /\ UNCHANGED <<stepping, media, playing, focus, transport, engine>>

(* The conversation changed, a timer fired, or a location did. *)
Wake(c) ==
  /\ call[c].state \notin {None, "Closed"} /\ c \notin wake
  /\ asked.turns < MaxTurns
  /\ asked' = [asked EXCEPT !.turns = @ + 1]
  /\ wake' = wake \cup {c}
  /\ UNCHANGED <<call, stepping, media, playing, focus, transport, engine>>

-----------------------------------------------------------------------------
(* The core queue *)

Ready(c) == c \in Incoming => call[c].ready
Talking(c) == Ready(c) /\ (c \in Incoming => call[c].answered)

(* What a step makes of a call, with a location picked or not: the state,   *)
(* and mediaHolding.                                                        *)
StateOf(c, picked) ==
  CASE picked /\ ~Ready(c)   -> call[c].state
    [] picked /\ ~Talking(c) -> "Incoming"
    [] picked /\ Talking(c)  -> IF call[c].hold THEN "Hold" ELSE "Open"
    [] ~picked               -> call[c].state

HoldingOf(c, picked, remoteHolds) ==
  IF picked THEN ~Talking(c) \/ call[c].hold \/ remoteHolds ELSE call[c].mediaHolding

(* the mutant of WakesAgain: nothing more is left to be done *)
MutantWakesAgain(c, picked) == FALSE

(* A location that is picked among those rung leaves a step to be made. *)
WakesAgain(c, picked) == c \notin Incoming /\ picked /\ ~call[c].picked

(* step() as far as onSetFocus is posted: a location may have picked up. *)
Step(c) ==
  /\ stepping = Idle /\ c \in wake
  /\ IF call[c].state \in {"Closing", "Closed"}
     THEN /\ wake' = wake \ {c}
          /\ UNCHANGED <<call, stepping, media>>
     ELSE \E picked, remoteHolds \in BOOLEAN :
          LET state   == StateOf(c, picked)
              holding == HoldingOf(c, picked, remoteHolds)
          IN /\ (call[c].picked \/ c \in Incoming) => picked
             /\ call' = [call EXCEPT ![c].state = state]
             /\ media' = Append(media, SetFocus(c, picked /\ state # "Hold" /\ ~holding))
             /\ stepping' = [at |-> "step", call |-> c, picked |-> picked,
                             holding |-> holding]
             /\ wake' = IF WakesAgain(c, picked) THEN wake ELSE wake \ {c}
  /\ UNCHANGED <<playing, focus, transport, engine, asked>>

(* The rest of it, under the lock of the media *)
EndStep ==
  /\ stepping.at = "step"
  /\ call' = [call EXCEPT ![stepping.call].mediaHolding = stepping.holding,
                          ![stepping.call].picked = @ \/ stepping.picked]
  /\ stepping' = Idle
  /\ UNCHANGED <<wake, media, playing, focus, transport, engine, asked>>

(* cancel(), of a hangup or of a call that is over: the locations are       *)
(* closed, of which the call forgets the one it picked.                     *)
OnHangup(c) ==
  /\ c \in MayHangup /\ stepping = Idle
  /\ call[c].state \notin {None, "Closed"}
  /\ call' = [call EXCEPT ![c].state = "Closing", ![c].picked = FALSE]
  /\ stepping' = [at |-> "lose", call |-> c]
  /\ UNCHANGED <<wake, media, playing, focus, transport, engine, asked>>

CancelLosesFocus ==
  /\ stepping.at = "lose"
  /\ LoseFocus(stepping.call, media)
  /\ stepping' = [stepping EXCEPT !.at = "close"]
  /\ UNCHANGED <<call, wake, playing, engine, asked>>

(* the mutant of CancelCloses: the transport is not told *)
MutantCancelCloses ==
  /\ stepping.at = "close"
  /\ call' = [call EXCEPT ![stepping.call].state = "Closed", ![stepping.call].picked = FALSE]
  /\ stepping' = Idle
  /\ UNCHANGED <<wake, media, playing, focus, transport, engine, asked>>

(* notifyCallDestruction *)
CancelCloses ==
  /\ stepping.at = "close"
  /\ call' = [call EXCEPT ![stepping.call].state = "Closed",
                          ![stepping.call].picked = FALSE]
  /\ transport' = [transport EXCEPT !.total = @ - 1]
  /\ stepping' = Idle
  /\ UNCHANGED <<wake, media, playing, focus, engine, asked>>

-----------------------------------------------------------------------------
(* The media queue *)

NextMessage(kind) == playing = Idle /\ media # << >> /\ Head(media).kind = kind

(* onSetFocus: the location is read under the lock, which is let go of      *)
(* before the focus is given.                                               *)
OnSetFocus ==
  /\ NextMessage("focus")
  /\ LET c == Head(media).call IN
     IF Head(media).on /\ call[c].picked
     THEN /\ playing' = [at |-> "focus", call |-> c]
          /\ media' = Tail(media)
          /\ UNCHANGED <<focus, transport>>
     ELSE LoseFocus(c, Tail(media)) /\ UNCHANGED playing
  /\ UNCHANGED <<call, stepping, wake, engine, asked>>

(* It throws when no call is left. *)
GiveFocus ==
  /\ playing.at = "focus"
  /\ IF transport.total = 0
     THEN transport' = [transport EXCEPT !.thrown = TRUE]
          /\ UNCHANGED <<media, playing, focus>>
     ELSE Focus(playing.call)
  /\ UNCHANGED <<call, stepping, wake, engine, asked>>

(* notifyLostFocus of the call that mFocus was *)
NotifyLostFocus ==
  /\ playing.at = "tell"
  /\ call' = [call EXCEPT ![playing.call].hold = TRUE]
  /\ wake' = wake \cup {playing.call}
  /\ playing' = Idle
  /\ UNCHANGED <<stepping, media, focus, transport, engine, asked>>

(* the mutant of BlockAfterStart: no count for the stop in a start *)
MutantBlockAfterStart == transport.block - (IF transport.started THEN 2 ELSE 1)

(* The count of the start is given back at once, that of a stop that it     *)
(* makes by itself is added before.                                         *)
BlockAfterStart == transport.block - 1

(* start(): what runs is stopped first. *)
OnStart ==
  /\ NextMessage("start")
  /\ media' = Tail(media)
  /\ transport' = [transport EXCEPT !.block = BlockAfterStart, !.started = focus.call # None]
  /\ engine' = None
  /\ playing' = IF focus.call = None THEN Idle
                ELSE [at |-> "start", call |-> focus.call]
  /\ UNCHANGED <<call, stepping, wake, focus, asked>>

EngineStarted ==
  /\ playing.at = "start"
  /\ engine' = playing.call
  /\ playing' = Idle
  /\ UNCHANGED <<call, stepping, wake, media, focus, transport, asked>>

(* stop() *)
OnStop ==
  /\ NextMessage("stop")
  /\ media' = Tail(media)
  /\ transport' = [transport EXCEPT !.block = @ - 1, !.started = FALSE]
  /\ playing' = IF transport.started THEN [Idle EXCEPT !.at = "stop"] ELSE Idle
  /\ UNCHANGED <<call, stepping, wake, focus, engine, asked>>

EngineStopped ==
  /\ playing.at = "stop"
  /\ engine' = None
  /\ playing' = Idle
  /\ UNCHANGED <<call, stepping, wake, media, focus, transport, asked>>

CallInit ==
  /\ call = [c \in Calls |-> [state |-> None, answered |-> FALSE, hold |-> FALSE,
                              ready |-> FALSE,
                              picked |-> FALSE, mediaHolding |-> FALSE]]
  /\ stepping = Idle
  /\ wake = {}
  /\ media = << >>
  /\ playing = Idle
  /\ focus = [call |-> None, object |-> None]
  /\ transport = [total |-> 0, started |-> FALSE, block |-> 0, thrown |-> FALSE]
  /\ engine = None
  /\ asked = [turns |-> 0, hold |-> [c \in Calls |-> FALSE]]

CallNext ==
  /\ ~transport.thrown
  /\ \/ \E c \in Calls :
          \/ Create(c) \/ Answer(c) \/ LocationReady(c) \/ Wake(c) \/ Step(c) \/ OnHangup(c)
          \/ \E hold \in BOOLEAN : Hold(c, hold)
     \/ EndStep \/ CancelLosesFocus \/ CancelCloses
     \/ OnSetFocus \/ GiveFocus \/ NotifyLostFocus
     \/ OnStart \/ EngineStarted \/ OnStop \/ EngineStopped

CallSpec == CallInit /\ [][CallNext]_callVars
-----------------------------------------------------------------------------
(* Properties. *)

(* The variables have their types, and the transport counts the calls that  *)
(* are not closed.                                                          *)
CallTypeOK ==
  /\ \A c \in Calls : call[c].state \in {None, "Preparing", "Incoming", "Open",
                                        "Hold", "Closing", "Closed"}
  /\ wake \subseteq {c \in Calls : call[c].state # None}
  /\ transport.total = Cardinality({c \in Calls : call[c].state \notin {None, "Closed"}})
  /\ transport.block \in Nat /\ transport.started \in BOOLEAN
  /\ focus.call \in {None, focus.object} /\ focus.object \in Calls \cup {None}
  /\ engine \in Calls \cup {None}

(* Nothing is posted and nothing is under way. *)
Settled == wake = {} /\ media = << >> /\ stepping = Idle /\ playing = Idle

(* A call that is open, that neither side holds and that no other call took *)
(* the focus from is the one that is heard, whichever of its step and the   *)
(* onSetFocus it posts ends first.                                          *)
OpenIsHeard ==
  Settled => \A c \in Calls :
    call[c].state = "Open" /\ ~call[c].mediaHolding =>
      focus.call = c

(* When everything has settled the media engine runs if and only if some    *)
(* call has the focus, and for that call; while something waits to be done  *)
(* the transport lets no packet through, and afterwards it lets them: the   *)
(* count of restarts goes back to what is posted, and so to zero.           *)
MediaFollowsFocus ==
  /\ Settled => engine = focus.call /\ (transport.started <=> focus.call # None)
  /\ transport.block = Cardinality({i \in 1..Len(media) : media[i].kind # "focus"})

(* hold(false) takes a call off hold: with no other call to take the focus, *)
(* it is on hold if and only if hold() was last called so.                  *)
HoldIsTheUsers ==
  Settled => \A c \in Calls :
    (\A d \in Calls \ {c} : call[d].state = None) => call[c].hold = asked.hold[c]
=============================================================================
