------------------------------ MODULE StackProofs ------------------------------
(***************************************************************************)
(* What is proved of the parts of stack. For any monitors and any number   *)
(* of messages: a delegate that one message reached is told of one end.    *)
(* For every number of versions, fetches, messages and lost connections:   *)
(* what a subscriber holds is the document of the version it claims, and   *)
(* one of the fetches that wait asks for it.                               *)
(***************************************************************************)
EXTENDS MessageMonitor, PublicationRepository, FiniteSetTheorems,
        WellFoundedInduction, TLAPS

-----------------------------------------------------------------------------
(* What is counted in a queue *)

Positions(q, S) == {i \in 1..Len(q) : q[i] \in S}

Count(q, S) == Cardinality(Positions(q, S))

LEMMA CountIsNat ==
  ASSUME NEW T, NEW q \in Seq(T), NEW S
  PROVE  IsFiniteSet(Positions(q, S)) /\ Count(q, S) \in Nat
<1>1. Len(q) \in Int /\ Positions(q, S) \subseteq 1..Len(q)
  BY DEF Positions
<1>2. IsFiniteSet(Positions(q, S))
  BY <1>1, FS_Interval, FS_Subset
<1> QED BY <1>2, FS_CardinalityType DEF Count

LEMMA CountAppend ==
  ASSUME NEW T, NEW q \in Seq(T), NEW x \in T, NEW S
  PROVE  Count(Append(q, x), S) = Count(q, S) + (IF x \in S THEN 1 ELSE 0)
<1>1. Positions(Append(q, x), S)
        = IF x \in S THEN Positions(q, S) \cup {Len(q) + 1} ELSE Positions(q, S)
  BY DEF Positions
<1>2. Len(q) + 1 \notin Positions(q, S)
  BY DEF Positions
<1>3. IsFiniteSet(Positions(q, S)) /\ Count(q, S) \in Nat
  BY CountIsNat
<1>4. Cardinality(Positions(q, S) \cup {Len(q) + 1}) = Cardinality(Positions(q, S)) + 1
  BY <1>2, <1>3, FS_AddElement
<1> QED BY <1>1, <1>3, <1>4 DEF Count

LEMMA CountTail ==
  ASSUME NEW T, NEW q \in Seq(T), q # << >>, NEW S
  PROVE  Count(q, S) = Count(Tail(q), S) + (IF Head(q) \in S THEN 1 ELSE 0)
<1> DEFINE P == Positions(Tail(q), S)
           shifted == Positions(q, S) \ {1}
           f == [i \in P |-> i + 1]
<1>1. /\ Tail(q) \in Seq(T) /\ Len(Tail(q)) = Len(q) - 1 /\ Len(q) \in Nat \ {0}
      /\ \A i \in 1..Len(q) - 1 : Tail(q)[i] = q[i + 1]
      /\ Head(q) = q[1]
  OBVIOUS
<1>2. f \in [P -> shifted]
  BY <1>1 DEF Positions
<1>3. \A i, j \in P : f[i] = f[j] => i = j
  BY <1>1 DEF Positions
<1>4. \A j \in shifted : j - 1 \in P /\ f[j - 1] = j
  BY <1>1 DEF Positions
<1>5. f \in Bijection(P, shifted)
  BY <1>2, <1>3, <1>4 DEF Bijection, Injection, Surjection, IsInjective
<1>6. IsFiniteSet(P) /\ Cardinality(P) \in Nat
  BY <1>1, CountIsNat DEF Count
<1>7. IsFiniteSet(shifted) /\ Cardinality(shifted) = Cardinality(P)
  BY <1>5, <1>6, FS_Bijection DEF ExistsBijection
<1>8. Positions(q, S) = IF Head(q) \in S THEN shifted \cup {1} ELSE shifted
  BY <1>1 DEF Positions
<1> HIDE DEF shifted, P
<1>9. 1 \notin shifted
  BY DEF shifted
<1>10. CASE Head(q) \in S
  <2>1. Cardinality(shifted \cup {1}) = Cardinality(shifted) + 1
    BY <1>7, <1>9, FS_AddElement
  <2> QED BY <1>6, <1>7, <1>8, <1>10, <2>1 DEF Count, P
<1>11. CASE Head(q) \notin S
  BY <1>6, <1>7, <1>8, <1>11 DEF Count, P
<1> QED BY <1>10, <1>11

LEMMA CountEmpty ==
  ASSUME NEW S
  PROVE  Count(<< >>, S) = 0
BY FS_EmptySet DEF Count, Positions

-----------------------------------------------------------------------------
(* The inductive invariant *)

MonitorState ==
  [state : {"none", "created", "sent", "failed"}, delegate : BOOLEAN, timer : BOOLEAN,
   timeoutFired : BOOLEAN, pendingHandled : Int, received : Nat]

Word == {"handled", "timed out"}

QueuedCall == [call : {"onAutoHandleFailureResult", "onHandleMessage"}, m : Monitors]

Message(m) == [call |-> "onHandleMessage", m |-> m]

(* The delegate of one monitor at a time is asked. *)
Types ==
  /\ monitor \in [Monitors -> MonitorState]
  /\ stackQueue \in Seq(QueuedCall)
  /\ handling = {} \/ \E m \in Monitors : handling = {m}
  /\ ends \in [Monitors -> Seq(Word)]

(* mPendingHandled counts the messages that wait for the delegate and the   *)
(* one that it is looking at.                                               *)
PendingCounted ==
  \A m \in Monitors :
    monitor[m].pendingHandled
      = Count(stackQueue, {Message(m)}) + (IF m \in handling THEN 1 ELSE 0)

(* A result is made up only for a message that was not sent. *)
MadeUp ==
  \A i \in 1..Len(stackQueue) :
    stackQueue[i].call = "onAutoHandleFailureResult" => monitor[stackQueue[i].m].state = "failed"

(* Nothing comes before the message is gone. *)
Early(r, end) ==
  /\ r.state \in {"none", "created"} => r.received = 0
  /\ r.state = "none" => ~r.delegate /\ end = << >>

(* A delegate that is there was told nothing; what it was told, and what it *)
(* may still be told, comes from a message of its own, save for one timeout *)
(* that finds none.                                                         *)
Accounted(r, end) ==
  /\ r.delegate => end = << >>
  /\ r.pendingHandled <= r.received
  /\ \/ Len(end) + r.pendingHandled <= 1
     \/ Len(end) + r.pendingHandled <= r.received

Sound(r, end) == r \in MonitorState /\ Early(r, end) /\ Accounted(r, end)

EndsAccounted == \A m \in Monitors : Sound(monitor[m], ends[m])

MonitorInv == Types /\ PendingCounted /\ MadeUp /\ EndsAccounted

-----------------------------------------------------------------------------
(* Steps that leave the queue alone and the count of one monitor *)

LEMMA QueuedForMonitors ==
  ASSUME Types
  PROVE  \A i \in 1..Len(stackQueue) : stackQueue[i] \in QueuedCall /\ stackQueue[i].m \in Monitors
<1> SUFFICES ASSUME NEW i \in 1..Len(stackQueue)
             PROVE  stackQueue[i] \in QueuedCall /\ stackQueue[i].m \in Monitors
  OBVIOUS
<1>1. stackQueue[i] \in QueuedCall
  <2>1. stackQueue \in Seq(QueuedCall)
    BY DEF Types
  <2> QED BY <2>1
<1> QED BY <1>1 DEF QueuedCall

LEMMA EndsAreSequences ==
  ASSUME Types
  PROVE  \A m \in Monitors : ends[m] \in Seq(Word) /\ Len(ends[m]) \in Nat
<1>1. \A m \in Monitors : ends[m] \in Seq(Word)
  BY DEF Types
<1>2. ASSUME NEW T, NEW e \in Seq(T) PROVE Len(e) \in Nat
  OBVIOUS
<1> QED BY <1>1, <1>2

LEMMA OneMonitorChanges ==
  ASSUME MonitorInv, NEW m \in Monitors, NEW new, NEW end \in Seq(Word),
         monitor' = [monitor EXCEPT ![m] = new], ends' = [ends EXCEPT ![m] = end],
         Sound(new, end), UNCHANGED <<stackQueue, handling>>,
         new.pendingHandled = monitor[m].pendingHandled,
         monitor[m].state = "failed" => new.state = "failed"
  PROVE  MonitorInv'
<1>1. \A n \in Monitors : /\ monitor'[n] = IF n = m THEN new ELSE monitor[n]
                          /\ ends'[n] = IF n = m THEN end ELSE ends[n]
  BY DEF MonitorInv, Types
<1>2. Types'
  BY DEF MonitorInv, Types, Sound
<1>3. PendingCounted'
  BY <1>1 DEF MonitorInv, PendingCounted
<1>4. MadeUp'
  <2>1. \A i \in 1..Len(stackQueue) : stackQueue[i].m \in Monitors
    BY QueuedForMonitors DEF MonitorInv
  <2> SUFFICES ASSUME NEW i \in 1..Len(stackQueue),
                      stackQueue[i].call = "onAutoHandleFailureResult"
               PROVE  monitor'[stackQueue[i].m].state = "failed"
    BY DEF MadeUp
  <2>2. monitor[stackQueue[i].m].state = "failed"
    BY DEF MonitorInv, MadeUp
  <2> QED BY <1>1, <2>1, <2>2
<1>5. EndsAccounted'
  BY <1>1 DEF MonitorInv, EndsAccounted
<1> QED BY <1>2, <1>3, <1>4, <1>5 DEF MonitorInv

(* The delegate that is told of a timeout was there, and nothing is pending. *)
LEMMA TimeOutInv ==
  ASSUME MonitorInv, NEW m \in Monitors, TimeOut(m), UNCHANGED <<stackQueue, handling>>,
         monitor[m].delegate, monitor[m].pendingHandled <= 0
  PROVE  MonitorInv'
<1> DEFINE new == CancelledMonitor(monitor[m])
           end == Append(ends[m], "timed out")
<1>1. Sound(monitor[m], ends[m]) /\ ends[m] \in Seq(Word)
  BY DEF MonitorInv, EndsAccounted, Types
<1>2. /\ new \in MonitorState /\ ~new.delegate /\ new.state = monitor[m].state
      /\ new.pendingHandled = monitor[m].pendingHandled /\ new.received = monitor[m].received
  BY <1>1 DEF Sound, MonitorState, CancelledMonitor
<1>3. /\ monitor' = [monitor EXCEPT ![m] = new] /\ ends' = [ends EXCEPT ![m] = end]
      /\ end \in Seq(Word) /\ ends[m] = << >> /\ Len(end) = 1
  <2>1. ends[m] = << >>
    BY <1>1 DEF Sound, Accounted
  <2>2. end = <<"timed out">>
    BY <2>1
  <2>3. Len(end) = 1 /\ end \in Seq(Word)
    <3>1. Len(<<"timed out">>) = 1 /\ <<"timed out">> \in Seq(Word)
      BY DEF Word
    <3> QED BY <2>2, <3>1
  <2>4. monitor' = [monitor EXCEPT ![m] = new] /\ ends' = [ends EXCEPT ![m] = end]
    BY DEF TimeOut
  <2> QED BY <2>1, <2>3, <2>4
<1> HIDE DEF new, end
<1>4. Sound(new, end)
  <2>1. /\ monitor[m].pendingHandled \in Int /\ monitor[m].received \in Nat
        /\ monitor[m].pendingHandled <= monitor[m].received
    BY <1>1 DEF Sound, Accounted, MonitorState
  <2>2. Early(new, end)
    BY <1>1, <1>2 DEF Sound, Early
  <2>3. /\ new.pendingHandled \in Int /\ new.received \in Nat /\ new.pendingHandled <= 0
        /\ new.pendingHandled <= new.received /\ Len(end) = 1 /\ ~new.delegate
    BY <1>2, <1>3, <2>1
  <2>4. Accounted(new, end)
    BY <2>3 DEF Accounted
  <2> QED BY <1>2, <2>2, <2>4 DEF Sound
<1> QED BY <1>2, <1>3, <1>4, OneMonitorChanges

LEMMA QuietSteps ==
  ASSUME MonitorInv, NEW m \in Monitors, Monitor(m) \/ MessageSent(m) \/ OnMonitorTimer(m) \/ CancelMonitor(m)
  PROVE  MonitorInv'
<1>1. Sound(monitor[m], ends[m]) /\ ends[m] \in Seq(Word)
  BY DEF MonitorInv, EndsAccounted, Types
<1>2. ends = [ends EXCEPT ![m] = ends[m]]
  BY DEF MonitorInv, Types
<1>3. CASE Monitor(m)
  <2> DEFINE new == [monitor[m] EXCEPT !.state = "created", !.delegate = TRUE, !.timer = TRUE]
  <2>1. /\ new \in MonitorState /\ new.state = "created" /\ monitor[m].state = "none"
        /\ new.pendingHandled = monitor[m].pendingHandled /\ new.received = monitor[m].received
        /\ monitor' = [monitor EXCEPT ![m] = new] /\ UNCHANGED <<stackQueue, handling, ends>>
    BY <1>1, <1>3 DEF Sound, MonitorState, Monitor
  <2> HIDE DEF new
  <2>2. Sound(new, ends[m])
    BY <1>1, <2>1 DEF Sound, Early, Accounted
  <2> QED BY <1>1, <1>2, <2>1, <2>2, OneMonitorChanges
<1>4. CASE MessageSent(m)
  <2> DEFINE new == [monitor[m] EXCEPT !.state = "sent"]
  <2>1. /\ new \in MonitorState /\ new.state = "sent" /\ monitor[m].state = "created"
        /\ new.pendingHandled = monitor[m].pendingHandled /\ new.received = monitor[m].received
        /\ new.delegate = monitor[m].delegate
        /\ monitor' = [monitor EXCEPT ![m] = new] /\ UNCHANGED <<stackQueue, handling, ends>>
    BY <1>1, <1>4 DEF Sound, MonitorState, MessageSent
  <2> HIDE DEF new
  <2>2. Sound(new, ends[m])
    BY <1>1, <2>1 DEF Sound, Early, Accounted
  <2> QED BY <1>1, <1>2, <2>1, <2>2, OneMonitorChanges
<1>5. CASE OnMonitorTimer(m) /\ monitor[m].pendingHandled # 0
  <2> DEFINE new == [monitor[m] EXCEPT !.timeoutFired = TRUE, !.timer = FALSE]
  <2>1. /\ new \in MonitorState /\ new.state = monitor[m].state
        /\ new.pendingHandled = monitor[m].pendingHandled /\ new.received = monitor[m].received
        /\ new.delegate = monitor[m].delegate
        /\ monitor' = [monitor EXCEPT ![m] = new] /\ UNCHANGED <<stackQueue, handling, ends>>
    BY <1>1, <1>5 DEF Sound, MonitorState, OnMonitorTimer
  <2> HIDE DEF new
  <2>2. Sound(new, ends[m])
    BY <1>1, <2>1 DEF Sound, Early, Accounted
  <2> QED BY <1>1, <1>2, <2>1, <2>2, OneMonitorChanges
<1>6. CASE OnMonitorTimer(m) /\ monitor[m].pendingHandled = 0
  BY <1>6, TimeOutInv DEF OnMonitorTimer
<1>7. CASE CancelMonitor(m)
  <2> DEFINE new == CancelledMonitor(monitor[m])
  <2>1. /\ new \in MonitorState /\ new.state = monitor[m].state /\ ~new.delegate
        /\ new.pendingHandled = monitor[m].pendingHandled /\ new.received = monitor[m].received
        /\ monitor' = [monitor EXCEPT ![m] = new] /\ UNCHANGED <<stackQueue, handling, ends>>
    BY <1>1, <1>7 DEF Sound, MonitorState, CancelMonitor, CancelledMonitor
  <2> HIDE DEF new
  <2>2. Sound(new, ends[m])
    BY <1>1, <2>1 DEF Sound, Early, Accounted
  <2> QED BY <1>1, <1>2, <2>1, <2>2, OneMonitorChanges
<1> QED BY <1>3, <1>4, <1>5, <1>6, <1>7

-----------------------------------------------------------------------------
(* Steps that change what is queued *)

LEMMA NotifyMessageSendFailedInv ==
  ASSUME MonitorInv, NEW m \in Monitors, NotifyMessageSendFailed(m)
  PROVE  MonitorInv'
<1>1. Sound(monitor[m], ends[m])
  BY DEF MonitorInv, EndsAccounted
<1>2. /\ monitor[m] \in MonitorState /\ monitor[m].received = 0
      /\ monitor[m].pendingHandled <= 0 /\ monitor[m].delegate /\ monitor[m].state = "created"
  BY <1>1 DEF Sound, Early, Accounted, NotifyMessageSendFailed
<1>3. CASE TimeOut(m) /\ UNCHANGED <<stackQueue, handling>>
  BY <1>2, <1>3, TimeOutInv
<1>4. CASE /\ stackQueue' = Append(stackQueue, [call |-> "onAutoHandleFailureResult", m |-> m])
           /\ monitor' = [monitor EXCEPT ![m].state = "failed"]
           /\ UNCHANGED <<monitors, ends, handling>>
  <2> DEFINE x == [call |-> "onAutoHandleFailureResult", m |-> m]
             new == [monitor[m] EXCEPT !.state = "failed"]
  <2>1. /\ x \in QueuedCall /\ x.call = "onAutoHandleFailureResult" /\ x.m = m
        /\ \A n \in Monitors : x # Message(n)
    BY DEF QueuedCall, Message
  <2>2. stackQueue \in Seq(QueuedCall) /\ stackQueue' = Append(stackQueue, x)
    BY <1>4 DEF MonitorInv, Types
  <2> HIDE DEF x
  <2>3. /\ new \in MonitorState /\ new.state = "failed" /\ new.delegate = monitor[m].delegate
        /\ new.pendingHandled = monitor[m].pendingHandled /\ new.received = monitor[m].received
        /\ monitor' = [monitor EXCEPT ![m] = new]
    BY <1>2, <1>4 DEF MonitorState
  <2> HIDE DEF new
  <2>4. \A n \in Monitors : monitor'[n] = IF n = m THEN new ELSE monitor[n]
    BY <2>3 DEF MonitorInv, Types
  <2>5. Types'
    <3>1. stackQueue' \in Seq(QueuedCall)
      BY <2>1, <2>2
    <3> QED BY <1>4, <2>3, <3>1 DEF MonitorInv, Types
  <2>6. PendingCounted'
    <3>1. \A n \in Monitors : Count(stackQueue', {Message(n)}) = Count(stackQueue, {Message(n)})
                              /\ Count(stackQueue, {Message(n)}) \in Nat
      BY <2>1, <2>2, CountAppend, CountIsNat
    <3> QED BY <1>4, <2>3, <2>4, <3>1 DEF MonitorInv, PendingCounted
  <2>7. MadeUp'
    <3> SUFFICES ASSUME NEW i \in 1..Len(stackQueue'),
                        stackQueue'[i].call = "onAutoHandleFailureResult"
                 PROVE  monitor'[stackQueue'[i].m].state = "failed"
      BY DEF MadeUp
    <3>1. CASE i = Len(stackQueue) + 1
      BY <2>1, <2>2, <2>3, <2>4, <3>1
    <3>2. CASE i \in 1..Len(stackQueue)
      <4>1. stackQueue'[i] = stackQueue[i] /\ stackQueue[i].m \in Monitors
        BY <2>2, <3>2, QueuedForMonitors DEF MonitorInv
      <4>2. monitor[stackQueue[i].m].state = "failed"
        BY <3>2, <4>1 DEF MonitorInv, MadeUp
      <4> QED BY <2>3, <2>4, <4>1, <4>2
    <3> QED BY <2>2, <3>1, <3>2
  <2>8. EndsAccounted'
    <3>1. Sound(new, ends[m])
      BY <1>1, <1>2, <2>3 DEF Sound, Early, Accounted
    <3> QED BY <1>4, <2>4, <3>1 DEF MonitorInv, EndsAccounted
  <2> QED BY <2>5, <2>6, <2>7, <2>8 DEF MonitorInv
<1> QED BY <1>3, <1>4 DEF NotifyMessageSendFailed

LEMMA CountedAndJudged ==
  ASSUME NEW r \in MonitorState
  PROVE  /\ Counted(r) \in MonitorState /\ Counted(r).state = r.state
         /\ Counted(r).delegate = r.delegate
         /\ Counted(r).pendingHandled = r.pendingHandled + 1
         /\ Counted(r).received = r.received + 1
         /\ Judged(r) \in MonitorState /\ Judged(r).state = r.state
         /\ Judged(r).delegate = r.delegate
         /\ Judged(r).pendingHandled = r.pendingHandled - 1
         /\ Judged(r).received = r.received
<1>1. ASSUME NEW n \in Nat, NEW i \in Int
      PROVE  [r EXCEPT !.received = n, !.pendingHandled = i] \in MonitorState
  BY DEF MonitorState
<1>2. ASSUME NEW i \in Int
      PROVE  [r EXCEPT !.pendingHandled = i] \in MonitorState
  BY DEF MonitorState
<1>3. r.received + 1 \in Nat /\ r.pendingHandled + 1 \in Int /\ r.pendingHandled - 1 \in Int
  BY DEF MonitorState
<1>4. Counted(r) \in MonitorState /\ Judged(r) \in MonitorState
  BY <1>1, <1>2, <1>3 DEF Counted, Judged
<1>5. /\ Counted(r).state = r.state /\ Counted(r).delegate = r.delegate
      /\ Counted(r).pendingHandled = r.pendingHandled + 1 /\ Counted(r).received = r.received + 1
  BY DEF MonitorState, Counted
<1>6. /\ Judged(r).state = r.state /\ Judged(r).delegate = r.delegate
      /\ Judged(r).pendingHandled = r.pendingHandled - 1 /\ Judged(r).received = r.received
  BY DEF MonitorState, Judged
<1> QED BY <1>4, <1>5, <1>6

(* handleMessage(), with what was queued before *)
LEMMA ReceivedInv ==
  ASSUME MonitorInv, NEW m \in Monitors, NEW rest \in Seq(QueuedCall), Received(m, rest),
         UNCHANGED <<monitors, handling, ends>>, monitor[m].state \in {"sent", "failed"},
         \A n \in Monitors : Count(rest, {Message(n)}) = Count(stackQueue, {Message(n)}),
         \A i \in 1..Len(rest) : rest[i].call = "onAutoHandleFailureResult" =>
                                   monitor[rest[i].m].state = "failed"
  PROVE  MonitorInv'
<1>1. Sound(monitor[m], ends[m])
  BY DEF MonitorInv, EndsAccounted
<1>2. \A n \in Monitors : Count(rest, {Message(n)}) \in Nat
  BY CountIsNat
<1>3. CASE m \notin monitors \/ ~monitor[m].delegate \/ monitor[m].timeoutFired
  <2> DEFINE new == [monitor[m] EXCEPT !.received = @ + 1]
  <2>1. /\ new \in MonitorState /\ new.state = monitor[m].state /\ new.delegate = monitor[m].delegate
        /\ new.pendingHandled = monitor[m].pendingHandled /\ new.received = monitor[m].received + 1
        /\ monitor' = [monitor EXCEPT ![m] = new] /\ stackQueue' = rest
    BY <1>1, <1>3 DEF Sound, MonitorState, Received
  <2> HIDE DEF new
  <2>2. \A n \in Monitors : monitor'[n] = IF n = m THEN new ELSE monitor[n]
    BY <2>1 DEF MonitorInv, Types
  <2>3. Types'
    BY <2>1 DEF MonitorInv, Types
  <2>4. PendingCounted'
    BY <2>1, <2>2 DEF MonitorInv, PendingCounted
  <2>5. \A i \in 1..Len(rest) : rest[i].m \in Monitors
    <3> SUFFICES ASSUME NEW i \in 1..Len(rest) PROVE rest[i].m \in Monitors
      OBVIOUS
    <3>1. rest[i] \in QueuedCall
      OBVIOUS
    <3> QED BY <3>1 DEF QueuedCall
  <2>6. MadeUp'
    BY <2>1, <2>2, <2>5 DEF MadeUp
  <2>7. Sound(new, ends[m])
    <3>1. Early(new, ends[m])
      BY <1>1, <2>1 DEF Sound, Early
    <3>2. monitor[m].pendingHandled \in Int /\ monitor[m].received \in Nat
      BY <1>1 DEF Sound, MonitorState
    <3>3. Accounted(new, ends[m])
      <4>1. Len(ends[m]) \in Nat
        BY EndsAreSequences DEF MonitorInv
      <4> QED BY <1>1, <2>1, <3>2, <4>1 DEF Sound, Accounted
    <3> QED BY <2>1, <3>1, <3>3 DEF Sound
  <2>8. EndsAccounted'
    BY <2>2, <2>7 DEF MonitorInv, EndsAccounted
  <2> QED BY <2>3, <2>4, <2>6, <2>8 DEF MonitorInv
<1>4. CASE ~(m \notin monitors \/ ~monitor[m].delegate \/ monitor[m].timeoutFired)
  <2> DEFINE new == Counted(monitor[m])
  <2>1. /\ new \in MonitorState /\ new.state = monitor[m].state /\ new.delegate = monitor[m].delegate
        /\ new.pendingHandled = monitor[m].pendingHandled + 1
        /\ new.received = monitor[m].received + 1
        /\ monitor' = [monitor EXCEPT ![m] = new] /\ stackQueue' = Append(rest, Message(m))
    BY <1>1, <1>4, CountedAndJudged DEF Sound, Received, Message
  <2> HIDE DEF new
  <2>2. \A n \in Monitors : monitor'[n] = IF n = m THEN new ELSE monitor[n]
    BY <2>1 DEF MonitorInv, Types
  <2>3. Message(m) \in QueuedCall /\ Message(m).call = "onHandleMessage"
        /\ \A n \in Monitors : Message(m) = Message(n) <=> n = m
    BY DEF Message, QueuedCall
  <2>4. Types'
    <3>1. stackQueue' \in Seq(QueuedCall)
      BY <2>1, <2>3
    <3> QED BY <2>1, <3>1 DEF MonitorInv, Types
  <2>5. PendingCounted'
    <3>1. \A n \in Monitors : Count(stackQueue', {Message(n)})
                               = Count(rest, {Message(n)}) + (IF n = m THEN 1 ELSE 0)
      BY <2>1, <2>3, CountAppend
    <3> SUFFICES ASSUME NEW n \in Monitors
                 PROVE  monitor'[n].pendingHandled = Count(stackQueue', {Message(n)})
                                                     + (IF n \in handling' THEN 1 ELSE 0)
      BY DEF PendingCounted
    <3>2. monitor[n].pendingHandled = Count(rest, {Message(n)}) + (IF n \in handling THEN 1 ELSE 0)
      BY DEF MonitorInv, PendingCounted
    <3> QED BY <1>2, <2>1, <2>2, <3>1, <3>2
  <2>6. MadeUp'
    <3> SUFFICES ASSUME NEW i \in 1..Len(stackQueue'),
                        stackQueue'[i].call = "onAutoHandleFailureResult"
                 PROVE  monitor'[stackQueue'[i].m].state = "failed"
      BY DEF MadeUp
    <3>1. i \in 1..Len(rest) /\ stackQueue'[i] = rest[i]
      BY <2>1, <2>3
    <3>2. rest[i] \in QueuedCall /\ rest[i].m \in Monitors
      <4>1. rest[i] \in QueuedCall
        BY <3>1
      <4> QED BY <4>1 DEF QueuedCall
    <3> QED BY <2>1, <2>2, <3>1, <3>2
  <2>7. Sound(new, ends[m])
    <3>1. Early(new, ends[m])
      BY <1>1, <1>4, <2>1 DEF Sound, Early
    <3>2. /\ monitor[m].pendingHandled \in Int /\ monitor[m].received \in Nat
          /\ monitor[m].pendingHandled <= monitor[m].received /\ ends[m] = << >>
      BY <1>1, <1>4 DEF Sound, MonitorState, Accounted
    <3>3. Len(ends[m]) = 0
      BY <3>2
    <3>4. Accounted(new, ends[m])
      BY <2>1, <3>2, <3>3 DEF Accounted
    <3> QED BY <2>1, <3>1, <3>4 DEF Sound
  <2>8. EndsAccounted'
    BY <2>2, <2>7 DEF MonitorInv, EndsAccounted
  <2> QED BY <2>4, <2>5, <2>6, <2>8 DEF MonitorInv
<1> QED BY <1>3, <1>4

LEMMA HandleMessageReceivedInv ==
  ASSUME MonitorInv, NEW m \in Monitors, HandleMessageReceived(m)
  PROVE  MonitorInv'
<1>1. stackQueue \in Seq(QueuedCall)
  BY DEF MonitorInv, Types
<1>2. \A i \in 1..Len(stackQueue) : stackQueue[i].call = "onAutoHandleFailureResult" =>
                                      monitor[stackQueue[i].m].state = "failed"
  BY DEF MonitorInv, MadeUp
<1> QED BY <1>1, <1>2, ReceivedInv DEF HandleMessageReceived

(* What is left when the first call has been taken from the queue. *)
LEMMA TailOfQueue ==
  ASSUME MonitorInv, stackQueue # << >>
  PROVE  /\ stackQueue[1] = Head(stackQueue)
         /\ stackQueue[1] \in QueuedCall /\ stackQueue[1].m \in Monitors
         /\ stackQueue[1].call = "onAutoHandleFailureResult" =>
              monitor[stackQueue[1].m].state = "failed"
         /\ Tail(stackQueue) \in Seq(QueuedCall)
         /\ \A n \in Monitors : /\ Count(Tail(stackQueue), {Message(n)}) \in Nat
                                /\ Count(stackQueue, {Message(n)})
                                     = Count(Tail(stackQueue), {Message(n)})
                                       + (IF Head(stackQueue) = Message(n) THEN 1 ELSE 0)
         /\ \A i \in 1..Len(Tail(stackQueue)) :
              Tail(stackQueue)[i].call = "onAutoHandleFailureResult" =>
                monitor[Tail(stackQueue)[i].m].state = "failed"
<1>1. stackQueue \in Seq(QueuedCall)
  BY DEF MonitorInv, Types
<1>2. /\ 1 \in 1..Len(stackQueue) /\ stackQueue[1] = Head(stackQueue)
      /\ Tail(stackQueue) \in Seq(QueuedCall)
      /\ Len(Tail(stackQueue)) = Len(stackQueue) - 1
      /\ \A i \in 1..Len(Tail(stackQueue)) :
           i + 1 \in 1..Len(stackQueue) /\ Tail(stackQueue)[i] = stackQueue[i + 1]
  BY <1>1
<1>3. \A n \in Monitors : Count(Tail(stackQueue), {Message(n)}) \in Nat
  BY <1>2, CountIsNat
<1>4. \A n \in Monitors : Count(stackQueue, {Message(n)})
                            = Count(Tail(stackQueue), {Message(n)})
                              + (IF Head(stackQueue) = Message(n) THEN 1 ELSE 0)
  BY <1>1, CountTail
<1>5. \A i \in 1..Len(stackQueue) : stackQueue[i].call = "onAutoHandleFailureResult" =>
                                      monitor[stackQueue[i].m].state = "failed"
  BY DEF MonitorInv, MadeUp
<1>6. stackQueue[1] \in QueuedCall /\ stackQueue[1].m \in Monitors
  BY <1>2, QueuedForMonitors DEF MonitorInv
<1> QED BY <1>2, <1>3, <1>4, <1>5, <1>6

LEMMA OnAutoHandleFailureResultInv ==
  ASSUME MonitorInv, OnAutoHandleFailureResult
  PROVE  MonitorInv'
<1> DEFINE m == stackQueue[1].m
           rest == Tail(stackQueue)
<1>1. /\ m \in Monitors /\ monitor[m].state = "failed" /\ rest \in Seq(QueuedCall)
      /\ \A i \in 1..Len(rest) : rest[i].call = "onAutoHandleFailureResult" =>
                                   monitor[rest[i].m].state = "failed"
  BY TailOfQueue DEF OnAutoHandleFailureResult
<1>2. \A n \in Monitors : Head(stackQueue) # Message(n)
  <2>1. Head(stackQueue).call = "onAutoHandleFailureResult"
    BY TailOfQueue DEF OnAutoHandleFailureResult
  <2> QED BY <2>1 DEF Message
<1>3. \A n \in Monitors : Count(rest, {Message(n)}) = Count(stackQueue, {Message(n)})
  BY <1>2, TailOfQueue DEF OnAutoHandleFailureResult
<1>4. Received(m, rest) /\ UNCHANGED <<monitors, handling, ends>>
  BY DEF OnAutoHandleFailureResult
<1> HIDE DEF m, rest
<1> QED BY <1>1, <1>3, <1>4, ReceivedInv

LEMMA OnHandleMessageInv ==
  ASSUME MonitorInv, OnHandleMessage
  PROVE  MonitorInv'
<1> DEFINE m == stackQueue[1].m
           rest == Tail(stackQueue)
<1>1. /\ m \in Monitors /\ rest \in Seq(QueuedCall)
      /\ \A i \in 1..Len(rest) : rest[i].call = "onAutoHandleFailureResult" =>
                                   monitor[rest[i].m].state = "failed"
  BY TailOfQueue DEF OnHandleMessage
<1>2. Head(stackQueue) = Message(m)
  <2>1. Head(stackQueue) \in QueuedCall /\ Head(stackQueue).call = "onHandleMessage"
        /\ Head(stackQueue).m = m
    BY TailOfQueue DEF OnHandleMessage
  <2> HIDE DEF m
  <2> QED BY <2>1 DEF QueuedCall, Message
<1>3. /\ handling = {} /\ handling' = {m} /\ stackQueue' = rest
      /\ UNCHANGED <<monitor, monitors, ends>>
  BY DEF OnHandleMessage, StackIdle
<1>4. \A n \in Monitors : /\ Count(rest, {Message(n)}) \in Nat
                          /\ Count(stackQueue, {Message(n)})
                               = Count(rest, {Message(n)}) + (IF n = m THEN 1 ELSE 0)
  <2>1. \A n \in Monitors : Message(m) = Message(n) <=> n = m
    BY DEF Message
  <2> QED BY <1>2, <2>1, TailOfQueue DEF OnHandleMessage
<1> HIDE DEF m, rest
<1>5. Types'
  BY <1>1, <1>3 DEF MonitorInv, Types
<1>6. PendingCounted'
  BY <1>3, <1>4 DEF MonitorInv, PendingCounted
<1>7. MadeUp' /\ EndsAccounted'
  BY <1>1, <1>3 DEF MonitorInv, MadeUp, EndsAccounted
<1> QED BY <1>5, <1>6, <1>7 DEF MonitorInv

(* The delegate's verdict: the message it looked at is no longer pending.   *)
LEMMA JudgedInv ==
  ASSUME MonitorInv, NEW m \in Monitors, \A n \in Monitors : n \in handling <=> n = m,
         Handled(m) \/ Refused(m),
         handling' = {}, stackQueue' = stackQueue
  PROVE  MonitorInv'
<1> DEFINE judged == Judged(monitor[m])
<1>1. Sound(monitor[m], ends[m]) /\ ends[m] \in Seq(Word) /\ Len(ends[m]) \in Nat
  BY EndsAreSequences DEF MonitorInv, EndsAccounted
<1>2. /\ judged \in MonitorState /\ judged.state = monitor[m].state
      /\ judged.delegate = monitor[m].delegate
      /\ judged.pendingHandled = monitor[m].pendingHandled - 1
      /\ judged.received = monitor[m].received
  BY <1>1, CountedAndJudged DEF Sound
<1> HIDE DEF judged
<1>3. /\ monitor[m].pendingHandled \in Int /\ monitor[m].received \in Nat
      /\ monitor[m].pendingHandled <= monitor[m].received
      /\ monitor[m].pendingHandled = Count(stackQueue, {Message(m)}) + 1
      /\ Count(stackQueue, {Message(m)}) \in Nat
  <2>1. stackQueue \in Seq(QueuedCall)
    BY DEF MonitorInv, Types
  <2>2. Count(stackQueue, {Message(m)}) \in Nat
    BY <2>1, CountIsNat
  <2> QED BY <1>1, <2>2 DEF Sound, MonitorState, Accounted, MonitorInv, PendingCounted
<1>4. /\ monitor[m].pendingHandled >= 1 /\ monitor[m].received >= 1
      /\ monitor[m].state \notin {"none", "created"}
  <2>1. monitor[m].pendingHandled >= 1 /\ monitor[m].received >= 1
    BY <1>3
  <2> QED BY <1>1, <2>1 DEF Sound, Early
<1>5. /\ monitor[m].delegate => ends[m] = << >>
      /\ Len(ends[m]) \in Nat
      /\ \/ Len(ends[m]) + monitor[m].pendingHandled <= 1
         \/ Len(ends[m]) + monitor[m].pendingHandled <= monitor[m].received
  BY <1>1 DEF Sound, Accounted
(* Whatever is told, the queue's part of the invariant follows. *)
<1>6. ASSUME NEW new, NEW end \in Seq(Word),
             monitor' = [monitor EXCEPT ![m] = new], ends' = [ends EXCEPT ![m] = end],
             Sound(new, end), new.state = monitor[m].state,
             new.pendingHandled = monitor[m].pendingHandled - 1
      PROVE  MonitorInv'
  <2>1. \A n \in Monitors : /\ monitor'[n] = IF n = m THEN new ELSE monitor[n]
                            /\ ends'[n] = IF n = m THEN end ELSE ends[n]
    BY <1>6 DEF MonitorInv, Types
  <2>2. Types'
    BY <1>6 DEF MonitorInv, Types, Sound
  <2>3. PendingCounted'
    <3> SUFFICES ASSUME NEW n \in Monitors
                 PROVE  monitor'[n].pendingHandled = Count(stackQueue, {Message(n)}) + 0
      BY DEF PendingCounted
    <3>1. monitor[n].pendingHandled
            = Count(stackQueue, {Message(n)}) + (IF n \in handling THEN 1 ELSE 0)
      BY DEF MonitorInv, PendingCounted
    <3>2. CASE n = m
      BY <1>3, <1>6, <2>1, <3>2
    <3>3. CASE n # m
      BY <2>1, <3>1, <3>3
    <3> QED BY <3>2, <3>3
  <2>4. MadeUp'
    <3>1. \A i \in 1..Len(stackQueue) : stackQueue[i].m \in Monitors
      BY QueuedForMonitors DEF MonitorInv
    <3> SUFFICES ASSUME NEW i \in 1..Len(stackQueue),
                        stackQueue[i].call = "onAutoHandleFailureResult"
                 PROVE  monitor'[stackQueue[i].m].state = "failed"
      BY DEF MadeUp
    <3>2. monitor[stackQueue[i].m].state = "failed"
      BY DEF MonitorInv, MadeUp
    <3> QED BY <1>6, <2>1, <3>1, <3>2
  <2>5. EndsAccounted'
    BY <1>6, <2>1 DEF MonitorInv, EndsAccounted
  <2> QED BY <2>2, <2>3, <2>4, <2>5 DEF MonitorInv
<1>7. ASSUME NEW word \in Word,
             monitor' = [monitor EXCEPT ![m] = CancelledMonitor(Judged(@))],
             ends' = [ends EXCEPT ![m] = Append(@, word)]
      PROVE  MonitorInv'
  <2> DEFINE new == CancelledMonitor(judged)
             end == Append(ends[m], word)
  <2>1. /\ new \in MonitorState /\ new.state = judged.state /\ ~new.delegate
        /\ new.pendingHandled = judged.pendingHandled /\ new.received = judged.received
    BY <1>2 DEF MonitorState, CancelledMonitor
  <2>2. end \in Seq(Word) /\ Len(end) = Len(ends[m]) + 1
    <3>1. ASSUME NEW T, NEW e \in Seq(T), NEW x \in T
          PROVE  Append(e, x) \in Seq(T) /\ Len(Append(e, x)) = Len(e) + 1
      OBVIOUS
    <3> QED BY <1>1, <3>1
  <2>3. monitor' = [monitor EXCEPT ![m] = new] /\ ends' = [ends EXCEPT ![m] = end]
    BY <1>7 DEF judged
  <2> HIDE DEF new, end
  <2>4. Early(new, end)
    BY <1>2, <1>4, <2>1 DEF Early
  <2>5. Accounted(new, end)
    BY <1>2, <1>3, <1>5, <2>1, <2>2 DEF Accounted
  <2> QED BY <1>2, <1>6, <2>1, <2>2, <2>3, <2>4, <2>5 DEF Sound
<1>8. CASE Refused(m) /\ ~monitor[m].timeoutFired
  <2>1. monitor' = [monitor EXCEPT ![m] = judged] /\ ends' = [ends EXCEPT ![m] = ends[m]]
    BY <1>8 DEF Refused, judged, MonitorInv, Types
  <2>2. Early(judged, ends[m]) /\ Accounted(judged, ends[m])
    BY <1>2, <1>3, <1>4, <1>5 DEF Early, Accounted
  <2> QED BY <1>1, <1>2, <1>6, <2>1, <2>2 DEF Sound
<1>9. "handled" \in Word /\ "timed out" \in Word
  BY DEF Word
<1> QED BY <1>7, <1>8, <1>9 DEF Handled, Refused

LEMMA DelegateReturnsInv ==
  ASSUME MonitorInv, \E handled \in BOOLEAN : DelegateReturns(handled)
  PROVE  MonitorInv'
<1>1. PICK m \in handling : Handled(m) \/ Refused(m)
  BY DEF DelegateReturns
<1>2. m \in Monitors /\ handling = {m} /\ handling' = {} /\ stackQueue' = stackQueue
  BY DEF MonitorInv, Types, DelegateReturns
<1> QED BY <1>1, <1>2, JudgedInv

(* For any monitors and messages: a timer that fires while a message is on  *)
(* its way to the delegate, or being judged by it, leaves the end to        *)
(* onHandleMessage, so that one message gives one end.                      *)
THEOREM SpecOneMessageOneEnd == MonitorSpec => []OneMessageOneEnd
<1>1. MonitorInit => MonitorInv
  <2> SUFFICES ASSUME MonitorInit PROVE MonitorInv
    OBVIOUS
  <2>1. NoMonitor \in MonitorState /\ NoMonitor.state = "none" /\ ~NoMonitor.delegate
        /\ NoMonitor.pendingHandled = 0 /\ NoMonitor.received = 0
    BY DEF NoMonitor, MonitorState
  <2>2. << >> \in Seq(Word) /\ << >> \in Seq(QueuedCall) /\ Len(<< >>) = 0
    OBVIOUS
  <2>3. Types
    BY <2>1, <2>2 DEF MonitorInit, Types
  <2>4. PendingCounted
    BY <2>1, CountEmpty DEF MonitorInit, PendingCounted
  <2>5. MadeUp
    BY <2>2 DEF MonitorInit, MadeUp
  <2>6. EndsAccounted
    BY <2>1, <2>2 DEF MonitorInit, EndsAccounted, Sound, Early, Accounted
  <2> QED BY <2>3, <2>4, <2>5, <2>6 DEF MonitorInv
<1>2. MonitorInv /\ [MonitorNext]_monitorVars => MonitorInv'
  <2> SUFFICES ASSUME MonitorInv, [MonitorNext]_monitorVars PROVE MonitorInv'
    OBVIOUS
  <2>1. CASE UNCHANGED monitorVars
    BY <2>1 DEF monitorVars, MonitorInv, Types, PendingCounted, MadeUp, EndsAccounted
  <2>2. CASE Queue
    BY <2>2, OnAutoHandleFailureResultInv, OnHandleMessageInv, DelegateReturnsInv DEF Queue
  <2>3. ASSUME NEW m \in Monitors,
               \/ Monitor(m) \/ MessageSent(m) \/ NotifyMessageSendFailed(m)
               \/ HandleMessageReceived(m) \/ OnMonitorTimer(m) \/ CancelMonitor(m)
        PROVE  MonitorInv'
    BY <2>3, QuietSteps, NotifyMessageSendFailedInv, HandleMessageReceivedInv
  <2> QED BY <2>1, <2>2, <2>3 DEF MonitorNext
<1>3. MonitorInv => OneMessageOneEnd
  <2> SUFFICES ASSUME MonitorInv, NEW m \in Monitors, monitor[m].received <= 1
               PROVE  Len(ends[m]) <= 1
    BY DEF OneMessageOneEnd
  <2>1. Sound(monitor[m], ends[m]) /\ Len(ends[m]) \in Nat
    BY EndsAreSequences DEF MonitorInv, EndsAccounted
  <2>2. stackQueue \in Seq(QueuedCall)
    BY DEF MonitorInv, Types
  <2>3. Count(stackQueue, {Message(m)}) \in Nat
    BY <2>2, CountIsNat
  <2>4. monitor[m].pendingHandled >= 0 /\ monitor[m].pendingHandled \in Int
        /\ monitor[m].received \in Nat
    BY <2>1, <2>3 DEF MonitorInv, PendingCounted, Sound, MonitorState
  <2> QED BY <2>1, <2>4 DEF Sound, Accounted
<1> QED
  BY <1>1, <1>2, <1>3, PTL DEF MonitorSpec

-----------------------------------------------------------------------------
(* Publications *)

Document == [version : Nat, text : Int]
Waiting  == [id : Nat, wanted : Nat, version : Nat, active : BOOLEAN]
Ending   == [wanted : Nat, outcome : {"fetched", "cancelled"}, document : Document]
Request  == [kind : {"subscribe", "get"}, f : Nat, version : Nat]
Content  == [from : {-1} \cup Nat, to : Nat \ {0}]
Notice   == [kind : {"notify", "result"}, f : Nat, document : Content]

(* The types, with no bound. *)
Shapes ==
  /\ source \in [version : Nat \ {0}, diffs : SUBSET Nat, published : BOOLEAN]
  /\ believed \in Nat
  /\ held \in Document
  /\ pending \in Seq(Waiting)
  /\ fetched \in Seq(Ending)
  /\ told \in Nat
  /\ toP \in Seq(Request)
  /\ toS \in Seq(Notice)
  /\ link \in [up : BOOLEAN, heard : SUBSET {"P", "S"}]

(* Nothing is under way without a connection, *)
Quiet == ~link.up => toP = << >> /\ toS = << >>

(* and nothing expires with one. *)
Expiring == expires # {} => ~link.up

(* A request that names a version was made with a document held, and one is *)
(* held still.                                                              *)
AskedOfHeld ==
  \A i \in 1..Len(toP) : toP[i].kind = "get" /\ toP[i].version # 0 => held # NoDocument

(* So it is when the difference that answers it comes. *)
AnsweredForHeld ==
  \A i \in 1..Len(toS) :
    toS[i].kind = "result" =>
      /\ toS[i].document.from # -1
      /\ toS[i].document.from # 0 => held # NoDocument

IInv == Shapes /\ Quiet /\ Expiring /\ AskedOfHeld /\ AnsweredForHeld /\ HeldIsTrue

-----------------------------------------------------------------------------
(* Sequences of messages *)

(* What is left when the head is taken was there before. *)
LEMMA TailSeq ==
  ASSUME NEW M, NEW s \in Seq(M), s # << >>
  PROVE  /\ Tail(s) \in Seq(M) /\ Head(s) \in M /\ Head(s) = s[1]
         /\ 1 \in 1..Len(s) /\ Len(Tail(s)) = Len(s) - 1
         /\ \A i \in 1..Len(Tail(s)) : i + 1 \in 1..Len(s) /\ Tail(s)[i] = s[i + 1]
OBVIOUS

(* A set of numbers up to n that is not empty has a greatest member. *)
LEMMA MaxIsMember ==
  ASSUME NEW n \in Nat, NEW S \in SUBSET (0..n), S # {}
  PROVE  Max(S) \in S
<1> DEFINE T == {m \in Nat : n - m \in S}
<1>1. T \in SUBSET Nat /\ T # {}
  <2>1. PICK x \in S : TRUE
    OBVIOUS
  <2>2. n - x \in Nat /\ n - (n - x) = x
    OBVIOUS
  <2> QED BY <2>1, <2>2
<1>2. \E s \in T : \A u \in T : ~(<<u, s>> \in OpToRel(<, Nat))
  BY <1>1, NatLessThanWellFounded, WFMin
<1>3. PICK s \in T : \A u \in T : ~(<<u, s>> \in OpToRel(<, Nat))
  BY <1>2
<1>4. \A u \in T : s <= u
  <2> SUFFICES ASSUME NEW u \in T, u < s PROVE FALSE
    OBVIOUS
  <2>1. <<u, s>> \in OpToRel(<, Nat)
    BY DEF OpToRel
  <2> QED BY <2>1, <1>3
<1>5. n - s \in S /\ \A y \in S : n - s >= y
  <2>1. \A y \in S : n - y \in T
    <3> TAKE y \in S
    <3>1. n - y \in Nat /\ n - (n - y) = y
      OBVIOUS
    <3> QED BY <3>1
  <2> QED BY <2>1, <1>4
<1> QED BY <1>5 DEF Max

(* The fetches served from the cache are some of those that wait. *)
LEMMA ServedSome ==
  ASSUME NEW ps \in Seq(Waiting), NEW version \in Nat, NEW c \in Document
  PROVE  Served(c, version, ps) \in 0..Len(ps)
<1> DEFINE S == {k \in 0..Len(ps) :
                   \A i \in 1..k : (IF i = 1 THEN version ELSE ps[i - 1].version) <= c.version}
<1>1. Len(ps) \in Nat /\ S \in SUBSET (0..Len(ps)) /\ 0 \in S
  OBVIOUS
<1>2. Max(S) \in 0..Len(ps)
  BY <1>1, MaxIsMember
<1> QED BY <1>2 DEF Served

Idle(ps) == \A i \in 1..Len(ps) : ~ps[i].active

(* What activateFetcher leaves: the fetches that still wait, the first of   *)
(* them asking with the version of the document it was given.               *)
LEMMA ActivateEffect ==
  ASSUME Shapes, NEW c \in Document, NEW version \in Nat,
         NEW ps \in Seq(Waiting), Idle(ps), NEW ended \in Seq(Ending),
         Activate(c, version, ps, ended)
  PROVE  /\ pending' \in Seq(Waiting) /\ fetched' \in Seq(Ending)
         /\ OneFetchActive'
         /\ \/ toP' = toP
            \/ \E f \in Nat :
                 toP' = Send(toP, [kind |-> "get", f |-> f, version |-> c.version])
<1> DEFINE k == Served(c, version, ps)
           rest == SubSeq(ps, k + 1, Len(ps))
           served == [i \in 1..k |-> Ended(ps[i], "fetched", c)]
<1>1. k \in 0..Len(ps) /\ Len(ps) \in Nat
  BY ServedSome
<1>2. /\ fetched' = ended \o served
      /\ pending' = IF rest = << >> THEN rest ELSE [rest EXCEPT ![1].active = TRUE]
      /\ toP' = IF rest = << >> THEN toP
                ELSE Send(toP, [kind |-> "get", f |-> rest[1].id, version |-> c.version])
  BY DEF Activate
<1> HIDE DEF k
<1>3. served \in Seq(Ending)
  <2>1. \A i \in 1..k : Ended(ps[i], "fetched", c) \in Ending
    <3> TAKE i \in 1..k
    <3>1. ps[i] \in Waiting
      BY <1>1
    <3> QED BY <3>1 DEF Ended, Ending, Waiting
  <2> QED BY <2>1, <1>1
<1>4. /\ rest \in Seq(Waiting) /\ Len(rest) = Len(ps) - k
      /\ \A i \in 1..Len(rest) : rest[i] \in Waiting /\ ~rest[i].active
  <2>1. \A i \in 1..(Len(ps) - k) : k + i \in 1..Len(ps) /\ rest[i] = ps[k + i]
    BY <1>1
  <2>2. Len(rest) = Len(ps) - k /\ rest \in Seq(Waiting)
    BY <1>1
  <2> QED BY <2>1, <2>2, <1>1 DEF Idle
<1> HIDE DEF rest, served
<1>5. fetched' \in Seq(Ending)
  BY <1>2, <1>3
<1>6. CASE rest = << >>
  BY <1>6, <1>2, <1>5 DEF OneFetchActive
<1>7. CASE rest # << >>
  <2>1. 1 \in 1..Len(rest) /\ Len(rest) \in Nat /\ rest[1] \in Waiting
    BY <1>7, <1>4
  <2>2. pending' = [rest EXCEPT ![1].active = TRUE]
    BY <1>7, <1>2
  <2>3. [rest[1] EXCEPT !.active = TRUE] \in Waiting
    BY <2>1 DEF Waiting
  <2>4. pending' = [rest EXCEPT ![1] = [rest[1] EXCEPT !.active = TRUE]]
    BY <2>2
  <2>5. pending' \in Seq(Waiting) /\ Len(pending') = Len(rest)
    BY <2>1, <2>3, <2>4, <1>4
  <2>6. \A i \in 1..Len(rest) :
           pending'[i] = IF i = 1 THEN [rest[1] EXCEPT !.active = TRUE] ELSE rest[i]
    BY <2>4, <1>4
  <2>7. [rest[1] EXCEPT !.active = TRUE].active
    BY <2>1 DEF Waiting
  <2>8. OneFetchActive'
    <3> SUFFICES ASSUME NEW i \in 1..Len(pending') PROVE pending'[i].active <=> i = 1
      BY DEF OneFetchActive
    <3> QED BY <2>5, <2>6, <2>7, <1>4
  <2>9. rest[1].id \in Nat
    BY <2>1 DEF Waiting
  <2> QED BY <2>5, <2>8, <2>9, <1>2, <1>5, <1>7
<1> QED BY <1>6, <1>7

-----------------------------------------------------------------------------
(* The steps *)

RepositoryInv == IInv /\ OneFetchActive

LEMMA InitInv == PublicationInit => RepositoryInv
BY DEF PublicationInit, RepositoryInv, IInv, Shapes, Quiet, Expiring, AskedOfHeld, AnsweredForHeld, HeldIsTrue,
       OneFetchActive, Document, NoDocument

(* A version is a natural number, and so is what a message says of it. *)
LEMMA CarriedContent ==
  ASSUME Shapes, NEW from \in Nat
  PROVE  /\ Carried(from) \in Content
         /\ Carried(from).from \in {0, from}
         /\ MetaDataOnly \in Content /\ MetaDataOnly.from = -1
BY DEF Shapes, Carried, MetaDataOnly, Content

LEMMA NotifiedEffect ==
  ASSUME RepositoryInv, NEW fits \in BOOLEAN, Notified(toS, fits)
  PROVE  /\ believed' \in Nat
         /\ \E document \in Content :
              toS' = Send(toS, [kind |-> "notify", f |-> 0, document |-> document])
<1> DEFINE document == NextToNotify(fits)
<1>1. document \in Content
  <2>1. (IF believed = 0 THEN 0 ELSE believed + 1) \in Nat
    BY DEF RepositoryInv, IInv, Shapes
  <2> QED BY <2>1, CarriedContent DEF RepositoryInv, IInv, NextToNotify
<1>2. BelievedAfter(document) \in Nat
  BY <1>1 DEF BelievedAfter, Content, RepositoryInv, IInv, Shapes
<1> QED BY <1>1, <1>2 DEF Notified

(* Sending to S a notice, or a difference for a document that is held,      *)
(* keeps what is known of the messages to S.                                *)
LEMMA NoticeSent ==
  ASSUME RepositoryInv, NEW m \in Notice, UNCHANGED <<held, link>>,
         m.kind = "result" =>
           m.document.from # -1 /\ (m.document.from # 0 => held # NoDocument),
         toS' = Send(toS, m)
  PROVE  /\ toS' \in Seq(Notice)
         /\ AnsweredForHeld'
         /\ ~link.up => toS' = << >>
<1>1. toS \in Seq(Notice)
  BY DEF RepositoryInv, IInv, Shapes
<1>2. /\ toS' \in Seq(Notice)
      /\ \A i \in 1..Len(toS') : (i \in 1..Len(toS) /\ toS'[i] = toS[i]) \/ toS'[i] = m
      /\ ~link.up => toS' = toS
  BY <1>1 DEF Send
<1> QED BY <1>2 DEF RepositoryInv, IInv, Quiet, AnsweredForHeld

(* Sending to P a request with the version held keeps what is known of the  *)
(* messages to P.                                                           *)
LEMMA RequestSent ==
  ASSUME RepositoryInv, held' \in Document, held # NoDocument => held' # NoDocument, UNCHANGED link,
         \/ toP' = toP
         \/ \E f \in Nat : toP' = Send(toP, [kind |-> "get", f |-> f, version |-> held'.version])
  PROVE  /\ toP' \in Seq(Request)
         /\ AskedOfHeld'
         /\ ~link.up => toP' = << >>
<1>0. toP \in Seq(Request)
  BY DEF RepositoryInv, IInv, Shapes
<1>1. CASE toP' = toP
  BY <1>0, <1>1 DEF RepositoryInv, IInv, Quiet, AskedOfHeld
<1>2. CASE \E f \in Nat :
            toP' = Send(toP, [kind |-> "get", f |-> f, version |-> held'.version])
  <2>0. PICK f \in Nat :
            toP' = Send(toP, [kind |-> "get", f |-> f, version |-> held'.version])
    BY <1>2
  <2> DEFINE m == [kind |-> "get", f |-> f, version |-> held'.version]
  <2>1. m \in Request
    BY DEF Request, Document
  <2>2. m.version # 0 => held' # NoDocument
    BY DEF NoDocument
  <2> HIDE DEF m
  <2>3. /\ toP' \in Seq(Request)
        /\ \A i \in 1..Len(toP') : (i \in 1..Len(toP) /\ toP'[i] = toP[i]) \/ toP'[i] = m
        /\ ~link.up => toP' = toP
    <3>1. toP' = Send(toP, m)
      BY <2>0 DEF m
    <3> QED BY <1>0, <2>1, <3>1 DEF Send
  <2> QED BY <2>2, <2>3 DEF RepositoryInv, IInv, Quiet, AskedOfHeld
<1> QED BY <1>1, <1>2

LEMMA UpdateInv == ASSUME RepositoryInv, NEW diff \in BOOLEAN, Update(diff) PROVE RepositoryInv'
<1>1. source' \in [version : Nat \ {0}, diffs : SUBSET Nat, published : BOOLEAN]
  <2>1. source \in [version : Nat \ {0}, diffs : SUBSET Nat, published : BOOLEAN]
    BY DEF RepositoryInv, IInv, Shapes
  <2>2. source.version + 1 \in Nat \ {0}
    BY <2>1
  <2>3. PICK d : source' = [[source EXCEPT !.version = source.version + 1] EXCEPT !.diffs = d]
                 /\ d \in {{}, source.diffs \cup {source.version + 1}, {source.version + 1}}
    BY DEF Update
  <2> QED BY <2>1, <2>2, <2>3
<1> QED BY <1>1 DEF Update, RepositoryInv, IInv, Shapes, Quiet, Expiring, AskedOfHeld, AnsweredForHeld,
      HeldIsTrue, OneFetchActive, subscriberVars, netVars, linkVars

LEMMA PublishInv == ASSUME RepositoryInv, Publish PROVE RepositoryInv'
<1>1. /\ source' \in [version : Nat \ {0}, diffs : SUBSET Nat, published : BOOLEAN]
      /\ UNCHANGED <<subscriberVars, toP, linkVars>>
  BY DEF Publish, RepositoryInv, IInv, Shapes
<1>2. believed' \in Nat /\ toS' \in Seq(Notice) /\ AnsweredForHeld' /\ (~link.up => toS' = << >>)
  <2>1. CASE ~incoming
    BY <2>1, <1>1 DEF Publish, RepositoryInv, IInv, Shapes, Quiet, AnsweredForHeld, subscriberVars
  <2>2. CASE incoming
    <3>1. PICK fits \in BOOLEAN : Notified(toS, fits)
      BY <2>2 DEF Publish
    <3>2. /\ believed' \in Nat
          /\ \E document \in Content :
               toS' = Send(toS, [kind |-> "notify", f |-> 0, document |-> document])
      BY <3>1, NotifiedEffect
    <3>3. PICK document \in Content :
               toS' = Send(toS, [kind |-> "notify", f |-> 0, document |-> document])
      BY <3>2
    <3>4. [kind |-> "notify", f |-> 0, document |-> document] \in Notice
      BY DEF Notice
    <3> QED BY <1>1, <3>2, <3>3, <3>4, NoticeSent DEF subscriberVars, linkVars
  <2> QED BY <2>1, <2>2
<1> QED BY <1>1, <1>2 DEF RepositoryInv, IInv, Shapes, Quiet, Expiring, AskedOfHeld,
      HeldIsTrue, OneFetchActive, subscriberVars, linkVars

LEMMA OnSubscribeInv == ASSUME RepositoryInv, OnSubscribe PROVE RepositoryInv'
<1>1. /\ toP # << >> /\ toP' = Tail(toP) /\ UNCHANGED <<source, subscriberVars, linkVars>>
      /\ toP \in Seq(Request)
  BY DEF OnSubscribe, RepositoryInv, IInv, Shapes
<1>2. believed' \in Nat /\ toS' \in Seq(Notice) /\ AnsweredForHeld' /\ (~link.up => toS' = << >>)
  <2>1. CASE ~source.published
    BY <2>1, <1>1 DEF OnSubscribe, RepositoryInv, IInv, Shapes, Quiet, AnsweredForHeld, subscriberVars
  <2>2. CASE source.published
    <3>1. PICK fits \in BOOLEAN : Notified(toS, fits)
      BY <2>2 DEF OnSubscribe
    <3>2. /\ believed' \in Nat
          /\ \E document \in Content :
               toS' = Send(toS, [kind |-> "notify", f |-> 0, document |-> document])
      BY <3>1, NotifiedEffect
    <3>3. PICK document \in Content :
               toS' = Send(toS, [kind |-> "notify", f |-> 0, document |-> document])
      BY <3>2
    <3>4. [kind |-> "notify", f |-> 0, document |-> document] \in Notice
      BY DEF Notice
    <3> QED BY <1>1, <3>2, <3>3, <3>4, NoticeSent DEF subscriberVars, linkVars
  <2> QED BY <2>1, <2>2
<1>3. toP' \in Seq(Request) /\ AskedOfHeld'
  BY <1>1, TailSeq DEF RepositoryInv, IInv, AskedOfHeld, subscriberVars
<1> QED BY <1>1, <1>2, <1>3 DEF RepositoryInv, IInv, Shapes, Quiet, Expiring,
      HeldIsTrue, OneFetchActive, subscriberVars, linkVars

LEMMA OnGetInv == ASSUME RepositoryInv, OnGet PROVE RepositoryInv'
<1>1. /\ toP # << >> /\ toP' = Tail(toP) /\ Head(toP).kind = "get"
      /\ UNCHANGED <<source, incoming, subscriberVars, linkVars>>
      /\ toP \in Seq(Request)
  BY DEF OnGet, RepositoryInv, IInv, Shapes
<1>2. believed' \in Nat /\ toS' \in Seq(Notice) /\ AnsweredForHeld' /\ (~link.up => toS' = << >>)
  <2>1. CASE ~source.published
    BY <2>1, <1>1 DEF OnGet, RepositoryInv, IInv, Shapes, Quiet, AnsweredForHeld, subscriberVars
  <2>2. CASE source.published
    <3> DEFINE v == Head(toP).version
               from == IF v = 0 THEN 0 ELSE v + 1
               m == [kind |-> "result", f |-> Head(toP).f, document |-> Carried(from)]
    <3>1. v \in Nat /\ Head(toP).f \in Nat
      <4>1. Head(toP) \in Request
        BY <1>1
      <4> QED BY <4>1 DEF Request
    <3>2. v # 0 => held # NoDocument
      BY <1>1, TailSeq DEF RepositoryInv, IInv, AskedOfHeld
    <3>3. from \in Nat /\ (from # 0 => held # NoDocument)
      BY <3>1, <3>2
    <3>4. Carried(from) \in Content /\ Carried(from).from \in {0, from}
      BY <3>3, CarriedContent DEF RepositoryInv, IInv
    <3>5. believed' = source.version /\ toS' = Send(toS, m)
      BY <2>2 DEF OnGet
    <3>6. m \in Notice /\ m.document.from # -1 /\ (m.document.from # 0 => held # NoDocument)
      <4> HIDE DEF v, from
      <4> QED BY <3>1, <3>3, <3>4 DEF Notice
    <3>7. toS' \in Seq(Notice) /\ AnsweredForHeld' /\ (~link.up => toS' = << >>)
      <4> HIDE DEF m
      <4> QED BY <1>1, <3>5, <3>6, NoticeSent DEF subscriberVars, linkVars
    <3> QED BY <3>5, <3>7 DEF RepositoryInv, IInv, Shapes
  <2> QED BY <2>1, <2>2
<1>3. toP' \in Seq(Request) /\ AskedOfHeld'
  BY <1>1, TailSeq DEF RepositoryInv, IInv, AskedOfHeld, subscriberVars
<1> QED BY <1>1, <1>2, <1>3 DEF RepositoryInv, IInv, Shapes, Quiet, Expiring,
      HeldIsTrue, OneFetchActive, subscriberVars, linkVars

(* A step of S after which it holds a true document, if it held one then it *)
(* does still, and asks for a change of no other version.                   *)
LEMMA SubscriberStep ==
  ASSUME RepositoryInv, UNCHANGED <<publisherVars, linkVars>>,
         held' \in Document, told' \in Nat, held # NoDocument => held' # NoDocument, HeldIsTrue',
         fetched' \in Seq(Ending), pending' \in Seq(Waiting), OneFetchActive',
         \/ toP' = toP
         \/ \E f \in Nat : toP' = Send(toP, [kind |-> "get", f |-> f, version |-> held'.version]),
         toS' = toS \/ (toS # << >> /\ toS' = Tail(toS))
  PROVE  RepositoryInv'
<1>1. toP' \in Seq(Request) /\ AskedOfHeld' /\ (~link.up => toP' = << >>)
  BY RequestSent DEF linkVars
<1>2. toS \in Seq(Notice)
  BY DEF RepositoryInv, IInv, Shapes
<1>3. toS' \in Seq(Notice) /\ AnsweredForHeld' /\ (~link.up => toS' = << >>)
  <2>1. CASE toS' = toS
    BY <2>1, <1>2 DEF RepositoryInv, IInv, AnsweredForHeld, Quiet
  <2>2. CASE toS # << >> /\ toS' = Tail(toS)
    BY <2>2, <1>2, TailSeq DEF RepositoryInv, IInv, AnsweredForHeld, Quiet
  <2> QED BY <2>1, <2>2
<1> QED BY <1>1, <1>3 DEF RepositoryInv, IInv, Shapes, Quiet, Expiring, publisherVars, linkVars

(* A step of S that leaves what it holds. *)
LEMMA HeldStep ==
  ASSUME RepositoryInv, UNCHANGED <<publisherVars, linkVars, held, told, toS>>,
         fetched' \in Seq(Ending), pending' \in Seq(Waiting), OneFetchActive',
         \/ toP' = toP
         \/ \E f \in Nat : toP' = Send(toP, [kind |-> "get", f |-> f, version |-> held.version])
  PROVE  RepositoryInv'
<1>1. /\ held' = held /\ held \in Document /\ told' \in Nat /\ HeldIsTrue'
      /\ toS' = toS /\ UNCHANGED <<publisherVars, linkVars>>
      /\ held' \in Document /\ (held # NoDocument => held' # NoDocument)
  BY DEF RepositoryInv, IInv, Shapes, HeldIsTrue
<1>2. \/ toP' = toP
      \/ \E f \in Nat : toP' = Send(toP, [kind |-> "get", f |-> f, version |-> held'.version])
  BY <1>1
<1> QED BY <1>1, <1>2, SubscriberStep

LEMMA FetchInv == ASSUME RepositoryInv, Fetch PROVE RepositoryInv'
<1> DEFINE id == Len(pending) + Len(fetched) + 1
           f == [id |-> id, wanted |-> told, version |-> told, active |-> FALSE]
           g == IF held.version >= told THEN f ELSE [f EXCEPT !.version = held.version]
<1>1. /\ UNCHANGED <<publisherVars, held, told, toS, linkVars>>
      /\ pending \in Seq(Waiting) /\ fetched \in Seq(Ending) /\ told \in Nat
      /\ held \in Document /\ held.version \in Nat
  BY DEF Fetch, RepositoryInv, IInv, Shapes, Document
<1>2. id \in Nat
  BY <1>1
<1> HIDE DEF id
<1>3. /\ f \in Waiting /\ ~f.active
      /\ g \in Waiting /\ ~g.active
  BY <1>1, <1>2 DEF Waiting
<1>5. CASE pending # << >>
  <2>1. pending' = Append(pending, f) /\ UNCHANGED <<fetched, toP>>
    BY <1>5 DEF Fetch, id
  <2> HIDE DEF f
  <2>2. pending' \in Seq(Waiting) /\ OneFetchActive'
    <3>1. /\ Len(pending') = Len(pending) + 1 /\ Len(pending) \in Nat \ {0}
          /\ \A i \in 1..Len(pending') :
                 pending'[i] = IF i = Len(pending) + 1 THEN f ELSE pending[i]
          /\ pending' \in Seq(Waiting)
      BY <2>1, <1>1, <1>3, <1>5
    <3> QED BY <3>1, <1>3 DEF OneFetchActive, RepositoryInv
  <2> QED BY <1>1, <2>1, <2>2, HeldStep
<1>6. CASE pending = << >>
  <2>1. Activate(held, told, <<g>>, fetched)
    BY <1>6 DEF Fetch, id
  <2> HIDE DEF g
  <2>2. <<g>> \in Seq(Waiting) /\ Idle(<<g>>)
    BY <1>3 DEF Idle
  <2>3. /\ pending' \in Seq(Waiting) /\ fetched' \in Seq(Ending) /\ OneFetchActive'
        /\ \/ toP' = toP
           \/ \E n \in Nat : toP' = Send(toP, [kind |-> "get", f |-> n, version |-> held.version])
    BY <1>1, <2>1, <2>2, ActivateEffect DEF RepositoryInv, IInv
  <2> QED BY <1>1, <2>3, HeldStep
<1> QED BY <1>5, <1>6

(* When the first of the fetches that wait ends, the others are idle and    *)
(* one of them is activated.                                                *)
LEMMA FetchEndsEffect ==
  ASSUME RepositoryInv, pending # << >>, NEW c \in Document, NEW document \in Document,
         NEW outcome \in {"fetched", "cancelled"}, FetchEnds(c, outcome, document)
  PROVE  /\ pending' \in Seq(Waiting) /\ fetched' \in Seq(Ending) /\ OneFetchActive'
         /\ \/ toP' = toP
            \/ \E f \in Nat :
                 toP' = Send(toP, [kind |-> "get", f |-> f, version |-> c.version])
<1> DEFINE e == Ended(Head(pending), outcome, document)
<1>1. pending \in Seq(Waiting) /\ fetched \in Seq(Ending)
  BY DEF RepositoryInv, IInv, Shapes
<1>2. Head(pending) \in Waiting
  BY <1>1
<1>3. Head(pending).version \in Nat /\ e \in Ending
  BY <1>2 DEF Waiting, Ending, Ended
<1>4. Tail(pending) \in Seq(Waiting) /\ Idle(Tail(pending))
  BY <1>1, TailSeq DEF RepositoryInv, OneFetchActive, Idle
<1>5. Activate(c, Head(pending).version, Tail(pending), Append(fetched, e))
  BY DEF FetchEnds
<1> HIDE DEF e
<1>6. Append(fetched, e) \in Seq(Ending)
  BY <1>1, <1>3
<1> QED BY <1>3, <1>4, <1>5, <1>6, ActivateEffect DEF RepositoryInv, IInv

(* A difference that fits what is held makes a true document of it, and a   *)
(* whole document is one.                                                   *)
LEMMA UpdatedIsTrue ==
  ASSUME RepositoryInv, NEW document \in Content, document.from # -1, ~Mismatch(document),
         held = NoDocument => document.from = 0
  PROVE  /\ Updated(document) \in Document
         /\ Updated(document) # NoDocument
         /\ Updated(document).text = Updated(document).version
<1>1. document.from \in Nat /\ document.to \in Nat \ {0}
  BY DEF Content
<1>2. held \in Document /\ (held # NoDocument => held.text = held.version)
  BY DEF RepositoryInv, IInv, Shapes, HeldIsTrue
<1>3. held.version \in Nat
  BY <1>2 DEF Document
<1>4. document.from # 0 => held.text = document.from - 1
  BY <1>1, <1>2, <1>3 DEF Mismatch
<1> QED BY <1>1, <1>4 DEF Updated, Document, NoDocument, Torn

LEMMA OnGetResultInv == ASSUME RepositoryInv, OnGetResult PROVE RepositoryInv'
<1> DEFINE document == Head(toS).document
           raw == [version |-> document.to,
                   text |-> IF document.from = 0 THEN document.to ELSE Torn]
<1>1. /\ toS # << >> /\ toS' = Tail(toS) /\ Head(toS).kind = "result"
      /\ UNCHANGED <<publisherVars, told, linkVars>>
      /\ toS \in Seq(Notice) /\ told \in Nat /\ held \in Document
      /\ pending \in Seq(Waiting) /\ fetched \in Seq(Ending)
  BY DEF OnGetResult, RepositoryInv, IInv, Shapes
<1>2. /\ document \in Content
      /\ document.from # -1 /\ (document.from # 0 => held # NoDocument)
  <2>1. Head(toS) \in Notice /\ 1 \in 1..Len(toS) /\ Head(toS) = toS[1]
    BY <1>1, TailSeq
  <2> QED BY <1>1, <2>1 DEF Notice, RepositoryInv, IInv, AnsweredForHeld
<1>3. document.from \in Nat /\ document.to \in Nat \ {0}
  BY <1>2 DEF Content
<1> HIDE DEF document
<1>4. /\ raw \in Document /\ raw # NoDocument
      /\ document.from = 0 => raw.text = raw.version
  BY <1>3 DEF Document, NoDocument, Torn
<1>5. CASE pending = << >> \/ Head(pending).id # Head(toS).f
  <2>1. UNCHANGED <<held, pending, fetched, toP>>
    BY <1>5 DEF OnGetResult
  <2>2. HeldIsTrue' /\ OneFetchActive'
    BY <2>1 DEF RepositoryInv, IInv, HeldIsTrue, OneFetchActive
  <2> QED BY <1>1, <2>1, <2>2, SubscriberStep
<1>6. CASE ~(pending = << >> \/ Head(pending).id # Head(toS).f)
  <2>0. /\ pending # << >>
        /\ IF held = NoDocument THEN held' = raw /\ FetchEnds(raw, "fetched", raw)
           ELSE IF Mismatch(document) THEN UNCHANGED held /\ FetchEnds(held, "fetched", raw)
           ELSE held' = Updated(document) /\ FetchEnds(Updated(document), "fetched", Updated(document))
    BY <1>6 DEF OnGetResult, document
  <2> HIDE DEF raw
  <2>1. \E d \in Document : FetchEnds(held', "fetched", d) /\ held' \in Document
                           /\ (held # NoDocument => held' # NoDocument)
                           /\ (held' # NoDocument => held'.text = held'.version)
    <3>1. CASE held = NoDocument
      BY <3>1, <2>0, <1>2, <1>4
    <3>2. CASE held # NoDocument /\ Mismatch(document)
      BY <3>2, <2>0, <1>1, <1>4 DEF RepositoryInv, IInv, HeldIsTrue
    <3>3. CASE held # NoDocument /\ ~Mismatch(document)
      <4>1. /\ Updated(document) \in Document /\ Updated(document) # NoDocument
            /\ Updated(document).text = Updated(document).version
        BY <3>3, <1>2, UpdatedIsTrue
      <4> QED BY <3>3, <4>1, <2>0
    <3> QED BY <3>1, <3>2, <3>3
  <2>2. PICK d \in Document : FetchEnds(held', "fetched", d)
    BY <2>1
  <2>3. /\ pending' \in Seq(Waiting) /\ fetched' \in Seq(Ending) /\ OneFetchActive'
        /\ \/ toP' = toP
           \/ \E f \in Nat :
                toP' = Send(toP, [kind |-> "get", f |-> f, version |-> held'.version])
    BY <2>0, <2>1, <2>2, FetchEndsEffect
  <2>4. HeldIsTrue'
    BY <2>1 DEF HeldIsTrue
  <2> QED BY <1>1, <2>1, <2>3, <2>4, SubscriberStep
<1> QED BY <1>5, <1>6

LEMMA OnMessageMonitorTimedOutInv == ASSUME RepositoryInv, OnMessageMonitorTimedOut PROVE RepositoryInv'
<1>1. /\ pending # << >> /\ FetchEnds(held, "cancelled", NoDocument)
      /\ UNCHANGED <<publisherVars, held, told, toS, linkVars>>
      /\ held \in Document /\ told \in Nat
  BY DEF OnMessageMonitorTimedOut, RepositoryInv, IInv, Shapes
<1>2. NoDocument \in Document
  BY DEF NoDocument, Document
<1>3. /\ pending' \in Seq(Waiting) /\ fetched' \in Seq(Ending) /\ OneFetchActive'
      /\ \/ toP' = toP
         \/ \E f \in Nat :
              toP' = Send(toP, [kind |-> "get", f |-> f, version |-> held.version])
  BY <1>1, <1>2, FetchEndsEffect
<1> QED BY <1>1, <1>3, HeldStep

LEMMA OnPublishNotifyInv == ASSUME RepositoryInv, OnPublishNotify PROVE RepositoryInv'
<1> DEFINE document == Head(toS).document
<1>1. /\ toS # << >> /\ toS' = Tail(toS)
      /\ UNCHANGED <<publisherVars, pending, fetched, toP, linkVars>>
      /\ told' = document.to
      /\ toS \in Seq(Notice) /\ held \in Document
      /\ pending \in Seq(Waiting) /\ fetched \in Seq(Ending)
  BY DEF OnPublishNotify, RepositoryInv, IInv, Shapes
<1>2. document \in Content
  <2>1. Head(toS) \in Notice
    BY <1>1
  <2> QED BY <2>1 DEF Notice
<1>3. told' \in Nat
  BY <1>1, <1>2 DEF Content
<1>4. held' = IF document.from = -1 \/ (held = NoDocument /\ document.from # 0)
                 \/ (held # NoDocument /\ Mismatch(document))
              THEN held ELSE Updated(document)
  BY DEF OnPublishNotify
<1> HIDE DEF document
<1>5. held' \in Document /\ (held # NoDocument => held' # NoDocument) /\ HeldIsTrue'
  <2>1. CASE held' = held
    BY <2>1, <1>1 DEF RepositoryInv, IInv, HeldIsTrue
  <2>2. CASE /\ document.from # -1 /\ (held = NoDocument => document.from = 0)
             /\ (held # NoDocument => ~Mismatch(document)) /\ held' = Updated(document)
    <3>1. held = NoDocument => ~Mismatch(document)
      BY <2>2 DEF Mismatch
    <3>2. /\ Updated(document) \in Document
          /\ Updated(document) # NoDocument
          /\ Updated(document).text = Updated(document).version
      BY <2>2, <3>1, <1>2, UpdatedIsTrue
    <3> QED BY <2>2, <3>2 DEF HeldIsTrue
  <2> QED BY <2>1, <2>2, <1>4
<1>6. OneFetchActive'
  BY <1>1 DEF RepositoryInv, OneFetchActive
<1> QED BY <1>1, <1>3, <1>5, <1>6, SubscriberStep

-----------------------------------------------------------------------------

LEMMA ConnectionInv ==
  ASSUME RepositoryInv, NEW e \in {"P", "S"},
         Connect \/ Disconnect \/ OnDisconnected(e) \/ OnTimer(e)
  PROVE  RepositoryInv'
<1>1. CASE Connect
  <2>1. [kind |-> "subscribe", f |-> 0, version |-> 0] \in Request
    BY DEF Request
  <2> QED BY <1>1, <2>1 DEF Connect, RepositoryInv, IInv, Shapes, Quiet, Expiring, AskedOfHeld,
      AnsweredForHeld, HeldIsTrue, OneFetchActive, publisherVars, subscriberVars
<1>2. CASE Disconnect
  <2>1. link' \in [up : BOOLEAN, heard : SUBSET {"P", "S"}] /\ ~link'.up
    BY <1>2 DEF Disconnect, RepositoryInv, IInv, Shapes
  <2>2. toP' = << >> /\ toS' = << >> /\ UNCHANGED <<publisherVars, subscriberVars>>
    BY <1>2 DEF Disconnect
  <2> QED BY <2>1, <2>2 DEF RepositoryInv, IInv, Shapes, Quiet, Expiring, AskedOfHeld,
      AnsweredForHeld, HeldIsTrue, OneFetchActive, publisherVars, subscriberVars
<1>3. CASE OnDisconnected(e)
  <2>1. link' \in [up : BOOLEAN, heard : SUBSET {"P", "S"}] /\ ~link'.up /\ ~link.up
    BY <1>3 DEF OnDisconnected, RepositoryInv, IInv, Shapes
  <2>2. UNCHANGED <<source, believed, subscriberVars, netVars>>
    BY <1>3 DEF OnDisconnected
  <2> QED BY <2>1, <2>2 DEF RepositoryInv, IInv, Shapes, Quiet, Expiring, AskedOfHeld,
      AnsweredForHeld, HeldIsTrue, OneFetchActive, subscriberVars, netVars
<1>4. CASE OnTimer(e)
  <2>1. toP = << >> /\ toS = << >> /\ ~link.up
    BY <1>4 DEF OnTimer, RepositoryInv, IInv, Expiring, Quiet
  <2>2. /\ UNCHANGED <<source, pending, fetched, told, toP, toS, link>>
        /\ believed' \in {0, believed} /\ held' \in {NoDocument, held}
    BY <1>4 DEF OnTimer, netVars
  <2>3. NoDocument \in Document
    BY DEF NoDocument, Document
  <2> QED BY <2>1, <2>2, <2>3 DEF RepositoryInv, IInv, Shapes, Quiet, Expiring, AskedOfHeld,
      AnsweredForHeld, HeldIsTrue, OneFetchActive
<1> QED BY <1>1, <1>2, <1>3, <1>4

LEMMA NextInv == RepositoryInv /\ [PublicationNext]_publicationVars => RepositoryInv'
<1> SUFFICES ASSUME RepositoryInv, [PublicationNext]_publicationVars PROVE RepositoryInv'
  OBVIOUS
<1>1. CASE UNCHANGED publicationVars
  BY <1>1 DEF publicationVars, publisherVars, subscriberVars, netVars, linkVars, RepositoryInv, IInv, Shapes,
      Quiet, Expiring, AskedOfHeld, AnsweredForHeld, HeldIsTrue, OneFetchActive
<1>2. CASE PublicationNext
  BY <1>2, UpdateInv, PublishInv, OnSubscribeInv, OnGetInv, FetchInv, OnGetResultInv,
     OnMessageMonitorTimedOutInv, OnPublishNotifyInv, ConnectionInv DEF PublicationNext
<1> QED BY <1>1, <1>2

LEMMA SpecInv == PublicationSpec => []RepositoryInv
BY InitInv, NextInv, PTL DEF PublicationSpec

(* What the subscriber holds is the document of the version it claims: the  *)
(* code applies a difference (updateFromFetchedPublication) to no document  *)
(* but the one it was made from, for any versions, fetches, messages under  *)
(* way and lost connections.                                                *)
THEOREM SpecHeldIsTrue == PublicationSpec => []HeldIsTrue
<1>1. RepositoryInv => HeldIsTrue
  BY DEF RepositoryInv, IInv
<1> QED BY <1>1, SpecInv, PTL

(* The first of the fetches that wait, and no other, has asked: whichever   *)
(* way a fetch ends, activateFetcher goes on to the next.                   *)
THEOREM SpecOneFetchActive == PublicationSpec => []OneFetchActive
<1>1. RepositoryInv => OneFetchActive
  BY DEF RepositoryInv
<1> QED BY <1>1, SpecInv, PTL

=============================================================================
