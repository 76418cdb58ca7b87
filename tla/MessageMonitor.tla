--------------------------- MODULE MessageMonitor ---------------------------
(* Requests of the stack that wait for their result                         *)
(* (openpeer/stack/cpp: stack_MessageMonitor.cpp and                        *)
(* stack_MessageMonitorManager.cpp).                                        *)
(*                                                                          *)
(* A message that carries the identifier of a request is found its monitor  *)
(* at once, under the manager's lock, and handed to the delegate later, by  *)
(* the stack's queue, which runs the monitor's timer as well.  The delegate *)
(* says whether the message was what it waited for; if not the monitor      *)
(* waits on.  cancel() comes from any thread.                               *)
EXTENDS Naturals, Sequences, SequencesExt

CONSTANTS
  Monitors,       (* monitors, each with a message identifier of its own    *)
  MaxMessages     (* bound: messages received with one identifier           *)

VARIABLES
  monitor,        (* the objects                                            *)
  monitors,       (* the manager's map                                      *)
  stackQueue,     (* calls posted to the stack's queue                      *)
  handling,       (* the monitor in onHandleMessage, its delegate asked     *)
  ends            (* history: what each delegate was told of its end        *)

monitorVars == <<monitor, monitors, stackQueue, handling, ends>>

NoMonitor ==
  [state |-> "none", delegate |-> FALSE, timer |-> FALSE,
   timeoutFired |-> FALSE, pendingHandled |-> 0, received |-> 0]

(* cancel() *)
CancelledMonitor(m) == [m EXCEPT !.delegate = FALSE, !.timer = FALSE]

(* The delegate is told of a timeout, and the monitor is over. *)
TimeOut(m) ==
  /\ monitor' = [monitor EXCEPT ![m] = CancelledMonitor(@)]
  /\ monitors' = monitors \ {m}
  /\ ends' = [ends EXCEPT ![m] = Append(@, "timed out")]

(* monitor(), and monitorAndSendToLocation() or -Service().  A message that *)
(* could not be sent gets a result made up for it, unless it is of a kind   *)
(* that has none: that ends the monitor at once.                            *)
Monitor(m) ==
  /\ monitor[m].state = "none"
  /\ monitor' = [monitor EXCEPT ![m] = [@ EXCEPT !.state = "created", !.delegate = TRUE,
                                                 !.timer = TRUE]]
  /\ monitors' = monitors \cup {m}
  /\ UNCHANGED <<stackQueue, handling, ends>>

NotifyMessageSendFailed(m) ==
  /\ monitor[m].delegate /\ monitor[m].state = "created"
  /\ \/ /\ stackQueue' = Append(stackQueue, [call |-> "onAutoHandleFailureResult", m |-> m])
        /\ monitor' = [monitor EXCEPT ![m].state = "failed"]
        /\ UNCHANGED <<monitors, ends>>
     \/ TimeOut(m) /\ UNCHANGED stackQueue
  /\ UNCHANGED handling

(* The message was sent, and can be answered. *)
MessageSent(m) ==
  /\ monitor[m].state = "created"
  /\ monitor' = [monitor EXCEPT ![m].state = "sent"]
  /\ UNCHANGED <<monitors, stackQueue, handling, ends>>

(* A message that goes to the delegate, and one that it has looked at *)
Counted(r) == [r EXCEPT !.received = @ + 1, !.pendingHandled = @ + 1]

Judged(r) == [r EXCEPT !.pendingHandled = @ - 1]

(* the mutant of Received: what is pending is not counted *)
MutantReceived(m, rest) ==
  IF m \notin monitors \/ ~monitor[m].delegate \/ monitor[m].timeoutFired
  THEN /\ monitor' = [monitor EXCEPT ![m].received = @ + 1]
       /\ stackQueue' = rest
  ELSE /\ monitor' = [monitor EXCEPT ![m].received = @ + 1]
       /\ stackQueue' = Append(rest, [call |-> "onHandleMessage", m |-> m])

(* handleMessage() of the manager and of the monitor it finds: a message    *)
(* that comes after the timer is dropped.                                   *)
Received(m, rest) ==
  IF m \notin monitors \/ ~monitor[m].delegate \/ monitor[m].timeoutFired
  THEN /\ monitor' = [monitor EXCEPT ![m].received = @ + 1]
       /\ stackQueue' = rest
  ELSE /\ monitor' = [monitor EXCEPT ![m] = Counted(@)]
       /\ stackQueue' = Append(rest, [call |-> "onHandleMessage", m |-> m])

HandleMessageReceived(m) ==
  /\ monitor[m].state = "sent" /\ monitor[m].received < MaxMessages
  /\ Received(m, stackQueue)
  /\ UNCHANGED <<monitors, handling, ends>>

StackIdle == handling = {}

(* onAutoHandleFailureResult hands the result in like one that came. *)
OnAutoHandleFailureResult ==
  /\ StackIdle /\ stackQueue # << >>
  /\ stackQueue[1].call = "onAutoHandleFailureResult"
  /\ Received(stackQueue[1].m, Tail(stackQueue))
  /\ UNCHANGED <<monitors, handling, ends>>

(* onHandleMessage asks the delegate, which was kept when the message came, *)
(* without the lock ...                                                     *)
OnHandleMessage ==
  /\ StackIdle /\ stackQueue # << >>
  /\ stackQueue[1].call = "onHandleMessage"
  /\ handling' = {stackQueue[1].m}
  /\ stackQueue' = Tail(stackQueue)
  /\ UNCHANGED <<monitor, monitors, ends>>

(* the mutant of Refused: the timer that fired meanwhile is forgotten *)
MutantRefused(m) ==
  /\ monitor' = [monitor EXCEPT ![m].pendingHandled = @ - 1]
  /\ UNCHANGED <<monitors, ends>>

(* ... and when the message was not what the delegate waited for, a timer   *)
(* that fired meanwhile ends the monitor.                                   *)
Refused(m) ==
  IF monitor[m].timeoutFired
  THEN /\ monitor' = [monitor EXCEPT ![m] = CancelledMonitor(Judged(@))]
       /\ monitors' = monitors \ {m}
       /\ ends' = [ends EXCEPT ![m] = Append(@, "timed out")]
  ELSE /\ monitor' = [monitor EXCEPT ![m] = Judged(@)]
       /\ UNCHANGED <<monitors, ends>>

Handled(m) ==
  /\ monitor' = [monitor EXCEPT ![m] = CancelledMonitor(Judged(@))]
  /\ monitors' = monitors \ {m}
  /\ ends' = [ends EXCEPT ![m] = Append(@, "handled")]

DelegateReturns(handled) ==
  /\ \E m \in handling : IF handled THEN Handled(m) ELSE Refused(m)
  /\ handling' = {}
  /\ UNCHANGED stackQueue

(* the mutant of OnTimer: a message that waits for the delegate does not count *)
MutantOnTimer(m) ==
  /\ StackIdle
  /\ monitor[m].timer /\ monitor[m].delegate
  /\ TimeOut(m)
  /\ UNCHANGED <<stackQueue, handling>>

(* onTimer leaves the end to onHandleMessage when one is pending. *)
OnMonitorTimer(m) ==
  /\ StackIdle
  /\ monitor[m].timer /\ monitor[m].delegate
  /\ IF monitor[m].pendingHandled # 0
     THEN /\ monitor' = [monitor EXCEPT ![m] = [@ EXCEPT !.timeoutFired = TRUE, !.timer = FALSE]]
          /\ UNCHANGED <<monitors, ends>>
     ELSE TimeOut(m)
  /\ UNCHANGED <<stackQueue, handling>>

(* cancel() by the owner, or its release of the monitor *)
CancelMonitor(m) ==
  /\ monitor[m].delegate
  /\ monitor' = [monitor EXCEPT ![m] = CancelledMonitor(@)]
  /\ monitors' = monitors \ {m}
  /\ UNCHANGED <<stackQueue, handling, ends>>

MonitorInit ==
  /\ monitor = [m \in Monitors |-> NoMonitor]
  /\ monitors = {}
  /\ stackQueue = << >>
  /\ handling = {}
  /\ ends = [m \in Monitors |-> << >>]

Queue ==
  \/ OnAutoHandleFailureResult \/ OnHandleMessage
  \/ \E handled \in BOOLEAN : DelegateReturns(handled)

MonitorNext ==
  \/ Queue
  \/ \E m \in Monitors :
       \/ Monitor(m) \/ MessageSent(m) \/ NotifyMessageSendFailed(m)
       \/ HandleMessageReceived(m) \/ OnMonitorTimer(m) \/ CancelMonitor(m)

MonitorSpec == MonitorInit /\ [][MonitorNext]_monitorVars

(* The stack's queue is served, and its timers fire. *)
MonitorFairness == WF_monitorVars(Queue) /\ SF_monitorVars(\E m \in Monitors : OnMonitorTimer(m))

FairMonitorSpec == MonitorSpec /\ MonitorFairness
-----------------------------------------------------------------------------

MonitorTypeOK ==
  /\ monitor \in [Monitors ->
       [state : {"none", "created", "sent", "failed"}, delegate : BOOLEAN, timer : BOOLEAN,
        timeoutFired : BOOLEAN, pendingHandled : 0..MaxMessages, received : 0..MaxMessages]]
  /\ monitors \subseteq Monitors
  /\ handling \subseteq Monitors
  /\ ends \in [Monitors -> Seq({"handled", "timed out"})]

(* A delegate that one message reached is told of one end: a timer that     *)
(* fires while the message is on its way to the delegate, or being judged   *)
(* by it, does not report a timeout beside the answer, nor does it report   *)
(* one twice.                                                               *)
OneMessageOneEnd ==
  \A m \in Monitors : monitor[m].received <= 1 => Len(ends[m]) <= 1

(* Every monitor ends, also when its timer fires at a moment at which it    *)
(* can do nothing but leave a mark.                                         *)
MonitorEnds ==
  \A m \in Monitors : monitor[m].delegate ~> ~monitor[m].delegate
=============================================================================
