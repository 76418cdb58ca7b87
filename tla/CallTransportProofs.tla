-------------------------- MODULE CallTransportProofs --------------------------
(* For any calls, however many are placed, answered, held and ended: the    *)
(* media engine follows the focus, and an open call that is not held is     *)
(* heard.                                                                   *)
EXTENDS CallTransport, FiniteSetTheorems, TLAPS

-----------------------------------------------------------------------------
(* What is counted in a queue *)

Positions(q, S) == {i \in 1..Len(q) : q[i] \in S}

Count(q, S) == Cardinality(Positions(q, S))

LEMMA CountIsNat ==
  ASSUME NEW T, NEW q \in Seq(T), NEW S
  PROVE  IsFiniteSet(Positions(q, S)) /\ Count(q, S) \in Nat
<1>1. Len(q) \in Int /\ Positions(q, S) \subseteq 1..Len(q)
  BY DEF Positions
<1>2. IsFiniteSet(Positions(q, S))
  BY <1>1, FS_Interval, FS_Subset
<1> QED BY <1>2, FS_CardinalityType DEF Count

LEMMA CountAppend ==
  ASSUME NEW T, NEW q \in Seq(T), NEW x \in T, NEW S
  PROVE  Count(Append(q, x), S) = Count(q, S) + (IF x \in S THEN 1 ELSE 0)
<1>1. Positions(Append(q, x), S)
        = IF x \in S THEN Positions(q, S) \cup {Len(q) + 1} ELSE Positions(q, S)
  BY DEF Positions
<1>2. Len(q) + 1 \notin Positions(q, S)
  BY DEF Positions
<1>3. IsFiniteSet(Positions(q, S)) /\ Count(q, S) \in Nat
  BY CountIsNat
<1>4. Cardinality(Positions(q, S) \cup {Len(q) + 1}) = Cardinality(Positions(q, S)) + 1
  BY <1>2, <1>3, FS_AddElement
<1> QED BY <1>1, <1>3, <1>4 DEF Count

LEMMA CountTail ==
  ASSUME NEW T, NEW q \in Seq(T), q # << >>, NEW S
  PROVE  Count(q, S) = Count(Tail(q), S) + (IF Head(q) \in S THEN 1 ELSE 0)
<1> DEFINE P == Positions(Tail(q), S)
           shifted == Positions(q, S) \ {1}
           f == [i \in P |-> i + 1]
<1>1. /\ Tail(q) \in Seq(T) /\ Len(Tail(q)) = Len(q) - 1 /\ Len(q) \in Nat \ {0}
      /\ \A i \in 1..Len(q) - 1 : Tail(q)[i] = q[i + 1]
      /\ Head(q) = q[1]
  OBVIOUS
<1>2. f \in [P -> shifted]
  BY <1>1 DEF Positions
<1>3. \A i, j \in P : f[i] = f[j] => i = j
  BY <1>1 DEF Positions
<1>4. \A j \in shifted : j - 1 \in P /\ f[j - 1] = j
  BY <1>1 DEF Positions
<1>5. f \in Bijection(P, shifted)
  BY <1>2, <1>3, <1>4 DEF Bijection, Injection, Surjection, IsInjective
<1>6. IsFiniteSet(P) /\ Cardinality(P) \in Nat
  BY <1>1, CountIsNat DEF Count
<1>7. IsFiniteSet(shifted) /\ Cardinality(shifted) = Cardinality(P)
  BY <1>5, <1>6, FS_Bijection DEF ExistsBijection
<1>8. Positions(q, S) = IF Head(q) \in S THEN shifted \cup {1} ELSE shifted
  BY <1>1 DEF Positions
<1> HIDE DEF shifted, P
<1>9. 1 \notin shifted
  BY DEF shifted
<1>10. CASE Head(q) \in S
  <2>1. Cardinality(shifted \cup {1}) = Cardinality(shifted) + 1
    BY <1>7, <1>9, FS_AddElement
  <2> QED BY <1>6, <1>7, <1>8, <1>10, <2>1 DEF Count, P
<1>11. CASE Head(q) \notin S
  BY <1>6, <1>7, <1>8, <1>11 DEF Count, P
<1> QED BY <1>10, <1>11

LEMMA CountEmpty ==
  ASSUME NEW S
  PROVE  Count(<< >>, S) = 0
BY FS_EmptySet DEF Count, Positions

-----------------------------------------------------------------------------
(* The media queue *)

Control == {Start, Stop}

Given(c) == SetFocus(c, TRUE)

Lost(c) == SetFocus(c, FALSE)

Message == {Given(c) : c \in Calls} \cup {Lost(c) : c \in Calls} \cup Control

(* Nothing is posted that starts or stops the engine ...                    *)
NoneWaits(q) == \A i \in 1..Len(q) : q[i] \notin Control

(* ... and otherwise the last that is posted is what the focus calls for.   *)
LastControl(q, heard) ==
  \A i \in 1..Len(q) :
    q[i] \in Control /\ (\A j \in i+1..Len(q) : q[j] \notin Control)
      => (q[i] = Start <=> heard # None)

(* The call is still to lose the focus.                                     *)
Off(c, q) == \E i \in 1..Len(q) : q[i] = Lost(c)

(* The last word about the focus of the call is that it gets it.            *)
OnLast(c, q) ==
  \E i \in 1..Len(q) :
    q[i] = Given(c) /\ \A j \in i+1..Len(q) : q[j] # Lost(c)

LEMMA FocusMessages ==
  \A c, d : /\ Given(c).kind = "focus" /\ Lost(c).kind = "focus"
            /\ Given(c).call = c /\ Lost(c).call = c
            /\ Given(c).on /\ ~Lost(c).on
            /\ Given(c) = Given(d) => c = d
            /\ Lost(c) = Lost(d) => c = d
            /\ Given(c) # Lost(d)
            /\ Given(c) \notin Control /\ Lost(c) \notin Control
<1>1. \A c : /\ Given(c).kind = "focus" /\ Lost(c).kind = "focus"
             /\ Given(c).call = c /\ Lost(c).call = c
  BY DEF Given, Lost, SetFocus
<1>2. \A c : Given(c).on = TRUE /\ Lost(c).on = FALSE
  BY DEF Given, Lost, SetFocus
<1>3. \A m \in Control : m.kind # "focus"
  BY DEF Control, Start, Stop
<1> QED BY <1>1, <1>2, <1>3

LEMMA Messages ==
  /\ Start.kind = "start" /\ Stop.kind = "stop" /\ Control \subseteq Message
  /\ \A c \in Calls : Given(c) \in Message /\ Lost(c) \in Message
  /\ \A m \in Message : /\ m.kind = "start" => m = Start
                        /\ m.kind = "stop" => m = Stop
                        /\ m.kind = "focus" => \E c \in Calls : m = Given(c) \/ m = Lost(c)
<1>1. Start.kind = "start" /\ Stop.kind = "stop"
  BY DEF Start, Stop
<1> QED BY <1>1, FocusMessages DEF Message, Control

LEMMA AppendFocus ==
  ASSUME NEW q \in Seq(Message), NEW x \in Message, x \notin Control, NEW heard
  PROVE  /\ NoneWaits(Append(q, x)) <=> NoneWaits(q)
         /\ LastControl(q, heard) => LastControl(Append(q, x), heard)
<1> DEFINE r == Append(q, x)
<1>1. /\ Len(q) \in Nat /\ Len(r) = Len(q) + 1 /\ r[Len(q) + 1] = x
      /\ \A i \in 1..Len(q) : r[i] = q[i]
  OBVIOUS
<1> HIDE DEF r
<1>2. NoneWaits(r) <=> NoneWaits(q)
  BY <1>1 DEF NoneWaits
<1>3. ASSUME LastControl(q, heard) PROVE LastControl(r, heard)
  <2> SUFFICES ASSUME NEW i \in 1..Len(r), r[i] \in Control,
                      \A j \in i+1..Len(r) : r[j] \notin Control
               PROVE  r[i] = Start <=> heard # None
    BY DEF LastControl
  <2>1. i \in 1..Len(q) /\ r[i] = q[i]
    BY <1>1
  <2>2. \A j \in i+1..Len(q) : q[j] \notin Control
    BY <1>1, <2>1
  <2> QED BY <1>3, <2>1, <2>2 DEF LastControl
<1> QED BY <1>2, <1>3 DEF r

LEMMA AppendControl ==
  ASSUME NEW q \in Seq(Message), NEW x \in Control, NEW heard, x = Start <=> heard # None
  PROVE  ~NoneWaits(Append(q, x)) /\ LastControl(Append(q, x), heard)
<1> DEFINE r == Append(q, x)
<1>1. /\ Len(q) \in Nat /\ Len(r) = Len(q) + 1 /\ r[Len(q) + 1] = x
      /\ \A i \in 1..Len(q) : r[i] = q[i]
  OBVIOUS
<1> HIDE DEF r
<1>2. ~NoneWaits(r)
  BY <1>1 DEF NoneWaits
<1>3. LastControl(r, heard)
  <2> SUFFICES ASSUME NEW i \in 1..Len(r), r[i] \in Control,
                      \A j \in i+1..Len(r) : r[j] \notin Control
               PROVE  r[i] = Start <=> heard # None
    BY DEF LastControl
  <2>1. i = Len(q) + 1
    BY <1>1
  <2> QED BY <1>1, <2>1
<1> QED BY <1>2, <1>3 DEF r

LEMMA TailControl ==
  ASSUME NEW q \in Seq(Message), q # << >>, NEW heard, LastControl(q, heard)
  PROVE  /\ LastControl(Tail(q), heard)
         /\ NoneWaits(q) => NoneWaits(Tail(q))
         /\ NoneWaits(Tail(q)) /\ Head(q) \notin Control => NoneWaits(q)
         /\ NoneWaits(Tail(q)) /\ Head(q) \in Control => (Head(q) = Start <=> heard # None)
<1> DEFINE r == Tail(q)
<1>1. /\ Len(q) \in Nat \ {0} /\ Len(r) = Len(q) - 1 /\ Head(q) = q[1]
      /\ \A i \in 1..Len(r) : i + 1 \in 1..Len(q) /\ r[i] = q[i + 1]
      /\ \A i \in 1..Len(q) : i = 1 \/ (i - 1 \in 1..Len(r) /\ q[i] = r[i - 1])
  OBVIOUS
<1> HIDE DEF r
<1>2. LastControl(r, heard)
  <2> SUFFICES ASSUME NEW i \in 1..Len(r), r[i] \in Control,
                      \A j \in i+1..Len(r) : r[j] \notin Control
               PROVE  r[i] = Start <=> heard # None
    BY DEF LastControl
  <2>1. i + 1 \in 1..Len(q) /\ r[i] = q[i + 1]
    BY <1>1
  <2>2. \A j \in (i + 1) + 1..Len(q) : q[j] \notin Control
    <3> SUFFICES ASSUME NEW j \in (i + 1) + 1..Len(q) PROVE q[j] \notin Control
      OBVIOUS
    <3>1. j - 1 \in i+1..Len(r) /\ q[j] = r[j - 1]
      BY <1>1
    <3> QED BY <3>1
  <2> QED BY <2>1, <2>2 DEF LastControl
<1>3. NoneWaits(q) => NoneWaits(r)
  BY <1>1 DEF NoneWaits
<1>4. NoneWaits(r) /\ Head(q) \notin Control => NoneWaits(q)
  BY <1>1 DEF NoneWaits
<1>5. ASSUME NoneWaits(r), Head(q) \in Control PROVE Head(q) = Start <=> heard # None
  <2>1. \A j \in 1+1..Len(q) : q[j] \notin Control
    <3> SUFFICES ASSUME NEW j \in 1+1..Len(q) PROVE q[j] \notin Control
      OBVIOUS
    <3>1. j - 1 \in 1..Len(r) /\ q[j] = r[j - 1]
      BY <1>1
    <3> QED BY <1>5, <3>1 DEF NoneWaits
  <2>2. 1 \in 1..Len(q)
    BY <1>1
  <2> QED BY <1>1, <1>5, <2>1, <2>2 DEF LastControl
<1> QED BY <1>2, <1>3, <1>4, <1>5 DEF r

(* What is said of one call, and not of it, in a queue that grows ...       *)
LEMMA AppendOfCall ==
  ASSUME NEW q \in Seq(Message), NEW x \in Message, NEW c
  PROVE  /\ x # Lost(c) => /\ Off(c, Append(q, x)) => Off(c, q)
                           /\ OnLast(c, q) => OnLast(c, Append(q, x))
         /\ x = Given(c) => OnLast(c, Append(q, x))
<1> DEFINE r == Append(q, x)
<1>1. /\ Len(q) \in Nat /\ Len(r) = Len(q) + 1 /\ r[Len(q) + 1] = x
      /\ \A i \in 1..Len(q) : r[i] = q[i] /\ i \in 1..Len(r)
      /\ \A i \in 1..Len(r) : i \in 1..Len(q) \/ i = Len(q) + 1
      /\ Len(q) + 1 \in 1..Len(r)
  OBVIOUS
<1> HIDE DEF r
<1>2. ASSUME x # Lost(c), Off(c, r) PROVE Off(c, q)
  BY <1>1, <1>2 DEF Off
<1>3. ASSUME x # Lost(c), OnLast(c, q) PROVE OnLast(c, r)
  <2>1. PICK i \in 1..Len(q) : q[i] = Given(c)
                               /\ \A j \in i+1..Len(q) : q[j] # Lost(c)
    BY <1>3 DEF OnLast
  <2>2. \A j \in i+1..Len(r) : r[j] # Lost(c)
    BY <1>1, <1>3, <2>1
  <2> QED BY <1>1, <2>1, <2>2 DEF OnLast
<1>4. ASSUME x = Given(c) PROVE OnLast(c, r)
  BY <1>1, <1>4 DEF OnLast
<1> QED BY <1>2, <1>3, <1>4 DEF r

(* ... and in one from which the first message is taken.                    *)
LEMMA TailOfCall ==
  ASSUME NEW q \in Seq(Message), q # << >>, NEW c
  PROVE  /\ Off(c, Tail(q)) => Off(c, q)
         /\ OnLast(c, q) => \/ OnLast(c, Tail(q))
                            \/ Head(q) = Given(c) /\ ~Off(c, Tail(q))
<1> DEFINE r == Tail(q)
<1>1. /\ Len(q) \in Nat \ {0} /\ Len(r) = Len(q) - 1 /\ Head(q) = q[1]
      /\ \A i \in 1..Len(r) : i + 1 \in 1..Len(q) /\ r[i] = q[i + 1]
      /\ \A i \in 1..Len(q) : i = 1 \/ (i - 1 \in 1..Len(r) /\ q[i] = r[i - 1])
  OBVIOUS
<1> HIDE DEF r
<1>2. Off(c, r) => Off(c, q)
  BY <1>1 DEF Off
<1>3. ASSUME OnLast(c, q) PROVE OnLast(c, r) \/ (Head(q) = Given(c) /\ ~Off(c, r))
  <2>1. PICK i \in 1..Len(q) : q[i] = Given(c)
                               /\ \A j \in i+1..Len(q) : q[j] # Lost(c)
    BY <1>3 DEF OnLast
  <2>2. \A j \in 1..Len(r) : j > i - 1 => r[j] # Lost(c)
    BY <1>1, <2>1
  <2>3. CASE i = 1
    BY <1>1, <2>1, <2>2, <2>3 DEF Off
  <2>4. CASE i # 1
    BY <1>1, <2>1, <2>2, <2>4 DEF OnLast
  <2> QED BY <2>3, <2>4
<1> QED BY <1>2, <1>3 DEF r

-----------------------------------------------------------------------------
(* The engine *)

Shapes ==
  /\ DOMAIN focus = {"call", "object"}
  /\ DOMAIN transport = {"total", "started", "block", "thrown"}

(* What is under way on the media queue is under way for a call, and what   *)
(* is posted that starts or stops the engine is counted.                    *)
Types ==
  /\ media \in Seq(Message)
  /\ transport.block = Count(media, Control)
  /\ playing.at \in {"focus", "tell", "start"} => playing.call \in Calls
  /\ playing.at \in {"idle", "focus", "tell", "start", "stop"}
  /\ focus.call \in Calls \cup {None}
  /\ focus.object \in Calls \cup {None}

(* When no start and no stop is posted the engine does, or is about to do,  *)
(* what the focus calls for.                                                *)
EngineFollows ==
  NoneWaits(media) =>
    /\ transport.started <=> focus.call # None
    /\ playing.at = "start" => playing.call = focus.call
    /\ playing.at = "stop" => focus.call = None
    /\ playing.at \notin {"start", "stop"} => engine = focus.call

(* A stop that finds nothing started has nothing to do. *)
StoppedIsSilent ==
  ~transport.started => playing.at # "start" /\ (playing.at # "stop" => engine = None)

MediaInv ==
  Shapes /\ Types /\ LastControl(media, focus.call) /\ EngineFollows /\ StoppedIsSilent

(* A queue in which the same starts and stops are posted as in media *)
SameControl(q) ==
  /\ q \in Seq(Message)
  /\ Count(q, Control) = Count(media, Control)
  /\ NoneWaits(q) <=> NoneWaits(media)
  /\ LastControl(q, focus.call)

LEMMA MediaIsSame ==
  ASSUME MediaInv
  PROVE  SameControl(media) /\ Count(media, Control) \in Nat
BY CountIsNat DEF MediaInv, Types, SameControl

LEMMA FocusTaken ==
  ASSUME MediaInv, NextMessage("focus")
  PROVE  /\ SameControl(Tail(media)) /\ media # << >> /\ playing = Idle
         /\ \E c \in Calls : Head(media) = Given(c) \/ Head(media) = Lost(c)
<1>1. media \in Seq(Message) /\ media # << >> /\ Head(media).kind = "focus"
      /\ LastControl(media, focus.call) /\ playing = Idle
  BY DEF NextMessage, MediaInv, Types
<1>2. Head(media) \in Message /\ Tail(media) \in Seq(Message)
  BY <1>1
<1>3. PICK c \in Calls : Head(media) = Given(c) \/ Head(media) = Lost(c)
  BY <1>1, <1>2, Messages
<1>4. Head(media) \notin Control
  BY <1>3, FocusMessages
<1>5. Count(media, Control) = Count(Tail(media), Control) + 0 /\ Count(Tail(media), Control) \in Nat
  BY <1>1, <1>2, <1>4, CountTail, CountIsNat
<1>6. NoneWaits(Tail(media)) <=> NoneWaits(media)
  BY <1>1, <1>4, TailControl
<1>7. LastControl(Tail(media), focus.call)
  BY <1>1, TailControl
<1> QED BY <1>1, <1>2, <1>3, <1>5, <1>6, <1>7 DEF SameControl

(* A start or a stop is taken.                                              *)
LEMMA ControlTaken ==
  ASSUME MediaInv, NextMessage("start") \/ NextMessage("stop")
  PROVE  /\ playing = Idle /\ Tail(media) \in Seq(Message)
         /\ NextMessage("start") => Head(media) = Start
         /\ NextMessage("stop") => Head(media) = Stop
         /\ Count(Tail(media), Control) = transport.block - 1
         /\ LastControl(Tail(media), focus.call)
         /\ NoneWaits(Tail(media)) => (Head(media) = Start <=> focus.call # None)
<1>1. /\ media \in Seq(Message) /\ media # << >> /\ LastControl(media, focus.call)
      /\ playing = Idle /\ transport.block = Count(media, Control)
  BY DEF NextMessage, MediaInv, Types
<1>2. Head(media) \in Message /\ Tail(media) \in Seq(Message)
  BY <1>1
<1>3. /\ NextMessage("start") => Head(media) = Start
      /\ NextMessage("stop") => Head(media) = Stop
  BY <1>2, Messages DEF NextMessage
<1>4. Head(media) \in Control
  BY <1>3 DEF Control
<1>5. Count(media, Control) = Count(Tail(media), Control) + 1 /\ Count(Tail(media), Control) \in Nat
  BY <1>1, <1>2, <1>4, CountTail, CountIsNat
<1>6. /\ LastControl(Tail(media), focus.call)
      /\ NoneWaits(Tail(media)) => (Head(media) = Start <=> focus.call # None)
  BY <1>1, <1>4, TailControl
<1> QED BY <1>1, <1>2, <1>3, <1>5, <1>6

(* The focus is lost: a stop is posted. *)
LEMMA LoseFocusInv ==
  ASSUME MediaInv, NEW c, NEW q, SameControl(q), LoseFocus(c, q), UNCHANGED <<playing, engine>>
  PROVE  MediaInv'
<1>1. CASE focus.call = c
  <2>1. /\ focus' = [focus EXCEPT !.call = None]
        /\ transport' = [transport EXCEPT !.block = @ + 1]
        /\ media' = Append(q, Stop)
    BY <1>1 DEF LoseFocus, Unfocus
  <2>2. /\ DOMAIN focus' = DOMAIN focus /\ focus'.call = None /\ focus'.object = focus.object
        /\ DOMAIN transport' = DOMAIN transport /\ transport'.started = transport.started
        /\ transport'.block = transport.block + 1
    BY <2>1 DEF MediaInv, Shapes
  <2>3. q \in Seq(Message) /\ Stop \in Message /\ Stop \in Control /\ Stop # Start
    BY Messages DEF SameControl, Control
  <2>4. Count(media', Control) = Count(q, Control) + 1
    BY <2>1, <2>3, CountAppend
  <2>5. media' \in Seq(Message)
    BY <2>1, <2>3
  <2>6. ~NoneWaits(media') /\ LastControl(media', None)
    BY <2>1, <2>3, AppendControl
  <2>7. Types'
    BY <2>2, <2>4, <2>5 DEF MediaInv, Types, SameControl
  <2> QED BY <2>2, <2>6, <2>7 DEF MediaInv, Shapes, EngineFollows, StoppedIsSilent
<1>2. CASE focus.call # c
  <2>1. media' = q /\ UNCHANGED <<focus, transport>>
    BY <1>2 DEF LoseFocus
  <2>2. Types'
    BY <2>1 DEF MediaInv, Types, SameControl
  <2> QED BY <2>1, <2>2 DEF MediaInv, Shapes, EngineFollows, StoppedIsSilent, SameControl
<1> QED BY <1>1, <1>2

(* What a step() posts is that the call gets the focus, or that it loses it *)
LEMMA Posted ==
  ASSUME NEW c
  PROVE  \A on \in BOOLEAN : SetFocus(c, on) = IF on THEN Given(c) ELSE Lost(c)
<1>1. SetFocus(c, TRUE) = Given(c)
  BY DEF Given
<1>2. SetFocus(c, FALSE) = Lost(c)
  BY DEF Lost
<1>3. BOOLEAN = {TRUE, FALSE}
  OBVIOUS
<1> QED BY <1>1, <1>2, Zenon

LEMMA StepPosts ==
  ASSUME NEW c \in Calls, Step(c)
  PROVE  \/ media' = media
         \/ media' = Append(media, Given(c))
         \/ media' = Append(media, Lost(c))
<1>1. CASE call[c].state \in {"Closing", "Closed"}
  BY <1>1 DEF Step
<1>2. CASE call[c].state \notin {"Closing", "Closed"}
  <2>1. PICK picked, remoteHolds \in BOOLEAN :
          LET state   == StateOf(c, picked)
              holding == HoldingOf(c, picked, remoteHolds)
          IN media' = Append(media, SetFocus(c, picked /\ state # "Hold" /\ ~holding))
    BY <1>2 DEF Step
  <2> DEFINE on == picked /\ StateOf(c, picked) # "Hold" /\ ~HoldingOf(c, picked, remoteHolds)
  <2>2. media' = Append(media, SetFocus(c, on)) /\ on \in BOOLEAN
    BY <2>1
  <2> HIDE DEF on
  <2>3. SetFocus(c, on) = Given(c) \/ SetFocus(c, on) = Lost(c)
    BY <2>2, Posted
  <2> QED BY <2>2, <2>3
<1> QED BY <1>1, <1>2

LEMMA GrowsMedia ==
  ASSUME MediaInv, NEW x \in Message, x \notin Control, media' = Append(media, x),
         UNCHANGED <<playing, focus, transport, engine>>
  PROVE  MediaInv'
<1>1. media \in Seq(Message) /\ media' \in Seq(Message)
  BY DEF MediaInv, Types
<1>2. Count(media', Control) = Count(media, Control) + 0 /\ Count(media, Control) \in Nat
  BY <1>1, CountAppend, CountIsNat
<1>3. /\ NoneWaits(media') <=> NoneWaits(media)
      /\ LastControl(media, focus.call) => LastControl(media', focus.call)
  BY <1>1, AppendFocus
<1>4. Types'
  BY <1>1, <1>2 DEF MediaInv, Types
<1> QED BY <1>3, <1>4 DEF MediaInv, Shapes, EngineFollows, StoppedIsSilent

LEMMA StaysMedia ==
  ASSUME MediaInv, UNCHANGED <<media, playing, focus, engine>>, DOMAIN transport' = DOMAIN transport,
         transport'.block = transport.block, transport'.started = transport.started
  PROVE  MediaInv'
<1>1. Types'
  BY DEF MediaInv, Types
<1> QED BY <1>1 DEF MediaInv, Shapes, EngineFollows, StoppedIsSilent

LEMMA MediaInvInit ==
  ASSUME CallInit
  PROVE  MediaInv
<1>1. media = << >> /\ media \in Seq(Message) /\ Len(media) = 0
  BY DEF CallInit
<1>2. Types
  BY <1>1, CountEmpty DEF CallInit, Types, Idle
<1>3. LastControl(media, focus.call)
  BY <1>1 DEF LastControl
<1> QED BY <1>2, <1>3 DEF CallInit, MediaInv, Shapes, EngineFollows, StoppedIsSilent, Idle

LEMMA MediaInvNext ==
  ASSUME MediaInv, [CallNext]_callVars
  PROVE  MediaInv'
<1>1. ASSUME NEW c \in Calls, Create(c) PROVE MediaInv'
  <2>1. /\ DOMAIN transport' = DOMAIN transport
        /\ transport'.block = transport.block /\ transport'.started = transport.started
    BY <1>1 DEF Create, MediaInv, Shapes
  <2> QED BY <1>1, <2>1, StaysMedia DEF Create
<1>2. ASSUME NEW c \in Calls, Answer(c) \/ LocationReady(c) \/ Wake(c) \/ OnHangup(c)
                              \/ \E hold \in BOOLEAN : Hold(c, hold)
      PROVE  MediaInv'
  <2>1. UNCHANGED <<media, playing, focus, transport, engine>>
    BY <1>2 DEF Answer, LocationReady, Wake, OnHangup, Hold
  <2> QED BY <2>1, StaysMedia
<1>3. ASSUME NEW c \in Calls, Step(c) PROVE MediaInv'
  <2>1. UNCHANGED <<playing, focus, transport, engine>>
    BY <1>3 DEF Step
  <2>2. CASE media' = media
    BY <2>1, <2>2, StaysMedia
  <2>3. CASE media' = Append(media, Given(c)) \/ media' = Append(media, Lost(c))
    BY <2>1, <2>3, GrowsMedia, FocusMessages, Messages
  <2> QED BY <1>3, <2>2, <2>3, StepPosts
<1>4. ASSUME EndStep PROVE MediaInv'
  BY <1>4, StaysMedia DEF EndStep
<1>5. ASSUME CancelLosesFocus PROVE MediaInv'
  BY <1>5, LoseFocusInv, MediaIsSame DEF CancelLosesFocus
<1>6. ASSUME CancelCloses PROVE MediaInv'
  <2>1. /\ DOMAIN transport' = DOMAIN transport
        /\ transport'.block = transport.block /\ transport'.started = transport.started
    BY <1>6 DEF CancelCloses, MediaInv, Shapes
  <2> QED BY <1>6, <2>1, StaysMedia DEF CancelCloses
<1>7. ASSUME OnSetFocus PROVE MediaInv'
  <2>1. /\ SameControl(Tail(media)) /\ playing = Idle
        /\ \E c \in Calls : Head(media) = Given(c) \/ Head(media) = Lost(c)
    BY <1>7, FocusTaken DEF OnSetFocus
  <2> DEFINE c == Head(media).call
  <2>2. c \in Calls
    BY <2>1, FocusMessages
  <2>3. UNCHANGED engine
    BY <1>7 DEF OnSetFocus
  <2>4. CASE LoseFocus(c, Tail(media)) /\ UNCHANGED playing
    <3> HIDE DEF c
    <3> QED BY <2>1, <2>3, <2>4, LoseFocusInv
  <2>5. CASE /\ playing' = [at |-> "focus", call |-> c] /\ media' = Tail(media)
             /\ UNCHANGED <<focus, transport>>
    <3>1. playing'.at = "focus" /\ playing'.call \in Calls /\ playing.at = "idle"
      BY <2>1, <2>2, <2>5 DEF Idle
    <3>2. Types'
      BY <2>1, <2>5, <3>1 DEF MediaInv, Types, SameControl
    <3> QED BY <2>1, <2>3, <2>5, <3>1, <3>2
            DEF MediaInv, SameControl, Shapes, EngineFollows, StoppedIsSilent
  <2> QED BY <1>7, <2>4, <2>5 DEF OnSetFocus
<1>8. ASSUME GiveFocus PROVE MediaInv'
  <2>1. playing.at = "focus" /\ playing.call \in Calls /\ UNCHANGED engine
    BY <1>8 DEF GiveFocus, MediaInv, Types
  <2>2. CASE transport' = [transport EXCEPT !.thrown = TRUE] /\ UNCHANGED <<media, playing, focus>>
    <3>1. /\ DOMAIN transport' = DOMAIN transport
          /\ transport'.block = transport.block /\ transport'.started = transport.started
      BY <2>2 DEF MediaInv, Shapes
    <3> QED BY <2>1, <2>2, <3>1, StaysMedia
  <2>3. CASE playing' = Idle /\ UNCHANGED <<focus, transport, media>>
    <3>1. playing'.at = "idle"
      BY <2>3 DEF Idle
    <3>2. Types'
      BY <2>3, <3>1 DEF MediaInv, Types
    <3> QED BY <2>1, <2>3, <3>1, <3>2 DEF MediaInv, Shapes, EngineFollows, StoppedIsSilent
  <2>4. CASE /\ focus' = [call |-> playing.call, object |-> playing.call]
             /\ playing' = IF focus.object = None THEN Idle
                           ELSE [at |-> "tell", call |-> focus.object]
             /\ transport' = [transport EXCEPT !.block = @ + 1]
             /\ media' = Append(media, Start)
    <3>1. /\ focus'.call = playing.call /\ focus'.object = playing.call
          /\ DOMAIN focus' = {"call", "object"}
      BY <2>4
    <3>2. /\ playing'.at \in {"idle", "tell"}
          /\ playing'.at = "tell" => playing'.call \in Calls
      BY <2>4 DEF Idle, MediaInv, Types
    <3>3. /\ DOMAIN transport' = DOMAIN transport /\ transport'.started = transport.started
          /\ transport'.block = transport.block + 1
      BY <2>4 DEF MediaInv, Shapes
    <3>4. media \in Seq(Message) /\ Start \in Message /\ Start \in Control
      BY Messages DEF MediaInv, Types, Control
    <3>5. Count(media', Control) = Count(media, Control) + 1 /\ media' \in Seq(Message)
      BY <2>4, <3>4, CountAppend
    <3>6. ~NoneWaits(media') /\ LastControl(media', focus'.call)
      BY <2>1, <2>4, <3>1, <3>4, AppendControl, CallsAreNamed
    <3>7. Types'
      BY <2>1, <3>1, <3>2, <3>3, <3>5 DEF MediaInv, Types
    <3> QED BY <3>1, <3>2, <3>3, <3>6, <3>7, <2>1
            DEF MediaInv, Shapes, EngineFollows, StoppedIsSilent
  <2> QED BY <1>8, <2>2, <2>3, <2>4 DEF GiveFocus, Focus
<1>9. ASSUME NotifyLostFocus PROVE MediaInv'
  <2>1. playing.at = "tell" /\ playing'.at = "idle" /\ UNCHANGED <<media, focus, transport, engine>>
    BY <1>9 DEF NotifyLostFocus, Idle
  <2>2. Types'
    BY <2>1 DEF MediaInv, Types
  <2> QED BY <2>1, <2>2 DEF MediaInv, Shapes, EngineFollows, StoppedIsSilent
<1>10. ASSUME OnStart PROVE MediaInv'
  <2>1. /\ playing = Idle /\ media' \in Seq(Message) /\ media' = Tail(media)
        /\ Count(media', Control) = transport.block - 1
        /\ LastControl(media', focus.call)
        /\ NoneWaits(media') => focus.call # None
    BY <1>10, ControlTaken DEF OnStart
  <2>2. /\ DOMAIN transport' = DOMAIN transport /\ transport'.block = transport.block - 1
        /\ transport'.started <=> focus.call # None
    BY <1>10 DEF OnStart, BlockAfterStart, MediaInv, Shapes
  <2>3. UNCHANGED focus /\ focus.call \in Calls \cup {None} /\ focus.object \in Calls \cup {None}
        /\ engine' = None
    BY <1>10 DEF OnStart, MediaInv, Types
  <2>4. /\ focus.call = None => playing'.at = "idle"
        /\ focus.call # None => playing'.at = "start" /\ playing'.call = focus.call
    BY <1>10 DEF OnStart, Idle
  <2>5. Types'
    BY <2>1, <2>2, <2>3, <2>4 DEF Types
  <2> QED BY <2>1, <2>2, <2>3, <2>4, <2>5
          DEF MediaInv, Shapes, EngineFollows, StoppedIsSilent
<1>11. ASSUME EngineStarted PROVE MediaInv'
  <2>1. /\ playing.at = "start" /\ engine' = playing.call /\ playing'.at = "idle"
        /\ UNCHANGED <<media, focus, transport>>
    BY <1>11 DEF EngineStarted, Idle
  <2>2. Types'
    BY <2>1 DEF MediaInv, Types
  <2> QED BY <2>1, <2>2 DEF MediaInv, Shapes, EngineFollows, StoppedIsSilent
<1>12. ASSUME OnStop PROVE MediaInv'
  <2>1. /\ playing = Idle /\ media' \in Seq(Message) /\ media' = Tail(media)
        /\ Count(media', Control) = transport.block - 1
        /\ LastControl(media', focus.call)
        /\ NoneWaits(media') => focus.call = None
    BY <1>12, ControlTaken, Messages DEF OnStop
  <2>2. /\ DOMAIN transport' = DOMAIN transport /\ transport'.block = transport.block - 1
        /\ ~transport'.started
    BY <1>12 DEF OnStop, MediaInv, Shapes
  <2>3. UNCHANGED <<focus, engine>>
        /\ focus.call \in Calls \cup {None} /\ focus.object \in Calls \cup {None}
    BY <1>12 DEF OnStop, MediaInv, Types
  <2>4. /\ transport.started => playing'.at = "stop"
        /\ ~transport.started => playing'.at = "idle"
        /\ playing.at = "idle"
    BY <1>12, <2>1 DEF OnStop, Idle
  <2>5. Types'
    BY <2>1, <2>2, <2>3, <2>4 DEF Types
  <2>6. EngineFollows'
    BY <2>1, <2>2, <2>3, <2>4 DEF EngineFollows, MediaInv, StoppedIsSilent
  <2> QED BY <2>1, <2>2, <2>3, <2>4, <2>5, <2>6 DEF MediaInv, Shapes, StoppedIsSilent
<1>13. ASSUME EngineStopped PROVE MediaInv'
  <2>1. /\ playing.at = "stop" /\ engine' = None /\ playing'.at = "idle"
        /\ UNCHANGED <<media, focus, transport>>
    BY <1>13 DEF EngineStopped, Idle
  <2>2. Types'
    BY <2>1 DEF MediaInv, Types
  <2> QED BY <2>1, <2>2 DEF MediaInv, Shapes, EngineFollows, StoppedIsSilent
<1>14. ASSUME UNCHANGED callVars PROVE MediaInv'
  BY <1>14, StaysMedia DEF callVars
<1> QED BY <1>1, <1>2, <1>3, <1>4, <1>5, <1>6, <1>7, <1>8, <1>9, <1>10, <1>11, <1>12, <1>13, <1>14
        DEF CallNext

(* The engine and what core_CallTransport.cpp says of itself (mStarted, the *)
(* count of restarts that holds packets back) follow the focus, however     *)
(* many calls take it from each other, hang up or are put on hold while     *)
(* starts and stops are posted.                                             *)
THEOREM SpecMediaFollowsFocus ==
  CallSpec => []MediaFollowsFocus
<1>1. CallInit => MediaInv
  BY MediaInvInit
<1>2. MediaInv /\ [CallNext]_callVars => MediaInv'
  BY MediaInvNext
<1>3. MediaInv => MediaFollowsFocus
  <2> SUFFICES ASSUME MediaInv PROVE MediaFollowsFocus
    OBVIOUS
  <2>1. ASSUME Settled
        PROVE  engine = focus.call /\ (transport.started <=> focus.call # None)
    <3>1. NoneWaits(media) /\ playing.at = "idle"
      BY <2>1 DEF Settled, NoneWaits, Idle
    <3> QED BY <3>1 DEF MediaInv, EngineFollows
  <2>2. media \in Seq(Message) /\ transport.block = Count(media, Control)
    BY DEF MediaInv, Types
  <2>3. \A m \in Message : m.kind # "focus" <=> m \in Control
    <3>1. Start.kind # "focus" /\ Stop.kind # "focus"
      BY Messages
    <3> QED BY <3>1, FocusMessages DEF Message, Control
  <2>4. Positions(media, Control) = {i \in 1..Len(media) : media[i].kind # "focus"}
    <3>1. \A i \in 1..Len(media) : media[i] \in Message
      BY <2>2
    <3> QED BY <2>3, <3>1 DEF Positions
  <2> QED BY <2>1, <2>2, <2>4 DEF MediaFollowsFocus, Count
<1> QED BY <1>1, <1>2, <1>3, PTL DEF CallSpec

-----------------------------------------------------------------------------
(* The call that is heard *)

StepOf(c) == stepping.at = "step" /\ stepping.call = c

(* What mediaHolding is, or is about to be.                                 *)
Holding(c) == IF StepOf(c) THEN stepping.holding ELSE call[c].mediaHolding

(* The call has the focus, or something that is under way or posted gives   *)
(* it to the call, or is to make up for that it does not.                   *)
Heard(c) ==
  \/ c \in wake
  \/ OnLast(c, media)
  \/ playing.at = "tell" /\ playing.call = c
  \/ /\ ~Off(c, media)
     /\ focus.call = c \/ (playing.at = "focus" /\ playing.call = c)

CallShapes ==
  /\ DOMAIN call = Calls
  /\ \A c \in Calls :
       DOMAIN call[c] = {"state", "answered", "hold", "ready", "picked", "mediaHolding"}
  /\ stepping.at \in {"idle", "step", "lose", "close"}
  /\ stepping.at # "idle" => stepping.call \in Calls
  /\ stepping.at = "lose" => DOMAIN stepping = {"at", "call"}
  /\ focus.call \in {None, focus.object}

OpenHeard == \A c \in Calls : call[c].state = "Open" /\ ~Holding(c) => Heard(c)

(* A call is open only once a location is picked, or is about to be: then   *)
(* onSetFocus, should it come first, finds none, but a step is still to be  *)
(* made.  Where the location was there before, it is ready only once picked.*)
Picked(c) ==
  /\ call[c].state = "Open" => call[c].picked \/ (StepOf(c) /\ stepping.picked)
  /\ StepOf(c) /\ stepping.picked /\ ~call[c].picked /\ c \notin Incoming => c \in wake
  /\ call[c].ready => call[c].picked \/ call[c].state \in {"Closing", "Closed"}
  /\ c \in Incoming /\ call[c].state = "Open" => call[c].ready

OpenPicked == \A c \in Calls : Picked(c)

(* What is cancelled is not open. *)
ClosingFirst == stepping.at \in {"lose", "close"} => call[stepping.call].state = "Closing"

CallInv == CallShapes /\ OpenHeard /\ OpenPicked /\ ClosingFirst

LEMMA CallInvInit ==
  ASSUME CallInit
  PROVE  CallInv
<1>1. CallShapes
  BY DEF CallInit, CallShapes, Idle
<1>2. \A c \in Calls : call[c].state = None /\ ~call[c].ready
  BY DEF CallInit
<1>3. None \notin {"Open", "Closing", "Closed"} /\ stepping.at = "idle"
  BY DEF CallInit, None, Idle
<1> QED BY <1>1, <1>2, <1>3 DEF CallInv, OpenHeard, OpenPicked, Picked, ClosingFirst, StepOf

(* Nothing but the media queue moves. *)
LEMMA MediaMoves ==
  ASSUME CallInv, UNCHANGED <<call, stepping, wake>>, focus'.call \in {None, focus'.object},
         \A c \in Calls : call[c].state = "Open" /\ ~Holding(c) /\ Heard(c) => Heard(c)'
  PROVE  CallInv'
<1>1. CallShapes'
  BY DEF CallInv, CallShapes
<1>2. \A c \in Calls : Holding(c)' = Holding(c)
  BY DEF Holding, StepOf
<1>3. OpenHeard'
  BY <1>2 DEF CallInv, OpenHeard
<1>4. OpenPicked' /\ ClosingFirst'
  BY DEF CallInv, OpenPicked, Picked, ClosingFirst, StepOf
<1> QED BY <1>1, <1>3, <1>4 DEF CallInv

(* A start or a stop takes the place of nothing that is said of a call. *)
LEMMA ControlGrows ==
  ASSUME NEW q \in Seq(Message), NEW x \in Control, NEW c
  PROVE  /\ Off(c, Append(q, x)) => Off(c, q)
         /\ OnLast(c, q) => OnLast(c, Append(q, x))
<1>1. x \in Message /\ x # Lost(c)
  BY Messages, FocusMessages
<1> QED BY <1>1, AppendOfCall

LEMMA ControlGoes ==
  ASSUME NEW q \in Seq(Message), q # << >>, Head(q) \in Control, NEW c
  PROVE  /\ Off(c, Tail(q)) => Off(c, q)
         /\ OnLast(c, q) => OnLast(c, Tail(q))
<1>1. Head(q) # Given(c)
  BY FocusMessages
<1> QED BY <1>1, TailOfCall

(* A call that is not the one that loses the focus does not. *)
LEMMA OthersHeard ==
  ASSUME MediaInv, NEW d, NEW q \in Seq(Message), LoseFocus(d, q), UNCHANGED <<wake, playing>>,
         NEW c, c # d, Off(c, q) => Off(c, media),
         OnLast(c, media) => OnLast(c, q),
         Heard(c)
  PROVE  Heard(c)'
<1>1. CASE focus.call = d
  <2>1. focus' = [focus EXCEPT !.call = None] /\ media' = Append(q, Stop)
    BY <1>1 DEF LoseFocus, Unfocus
  <2>2. Stop \in Control
    BY DEF Control
  <2>3. /\ Off(c, media') => Off(c, q)
        /\ OnLast(c, q) => OnLast(c, media')
    BY <2>1, <2>2, ControlGrows
  <2> QED BY <1>1, <2>3 DEF Heard
<1>2. CASE focus.call # d
  <2>1. media' = q /\ UNCHANGED focus
    BY <1>2 DEF LoseFocus
  <2> QED BY <2>1 DEF Heard
<1> QED BY <1>1, <1>2

LEMMA LosesFocusShape ==
  ASSUME MediaInv, CallInv, NEW d, NEW q, LoseFocus(d, q)
  PROVE  focus'.call \in {None, focus'.object}
BY DEF LoseFocus, Unfocus, MediaInv, Shapes, CallInv, CallShapes

LEMMA OnSetFocusHeard ==
  ASSUME MediaInv, CallInv, OnSetFocus
  PROVE  CallInv'
<1>1. /\ media \in Seq(Message) /\ media # << >> /\ playing = Idle /\ playing.at = "idle"
      /\ Tail(media) \in Seq(Message)
  BY FocusTaken DEF OnSetFocus, SameControl, MediaInv, Types, Idle
<1>2. PICK d \in Calls : Head(media) = Given(d) \/ Head(media) = Lost(d)
  BY FocusTaken DEF OnSetFocus
<1>3. Head(media).call = d
  BY <1>2, FocusMessages
<1>4. UNCHANGED <<call, stepping, wake>>
  BY DEF OnSetFocus
<1>5. CASE Head(media).on /\ call[d].picked
  <2>1. /\ playing' = [at |-> "focus", call |-> d] /\ media' = Tail(media)
        /\ UNCHANGED focus /\ Head(media) = Given(d)
    BY <1>2, <1>3, <1>5, FocusMessages DEF OnSetFocus
  <2>2. ASSUME NEW c \in Calls, Heard(c) PROVE Heard(c)'
    <3>1. /\ Off(c, media') => Off(c, media)
          /\ OnLast(c, media) => \/ OnLast(c, media')
                                 \/ Head(media) = Given(c) /\ ~Off(c, media')
      BY <1>1, <2>1, TailOfCall
    <3>2. Head(media) = Given(c) => c = d
      BY <2>1, FocusMessages
    <3>3. playing'.at = "focus" /\ playing'.call = d
      BY <2>1
    <3> QED BY <1>1, <1>4, <2>1, <2>2, <3>1, <3>2, <3>3 DEF Heard
  <2>3. focus'.call \in {None, focus'.object}
    BY <2>1 DEF CallInv, CallShapes
  <2> QED BY <1>4, <2>2, <2>3, MediaMoves
<1>6. CASE ~(Head(media).on /\ call[d].picked)
  <2>1. LoseFocus(d, Tail(media)) /\ UNCHANGED playing
    BY <1>3, <1>6 DEF OnSetFocus
  <2>2. ASSUME NEW c \in Calls, call[c].state = "Open", Heard(c) PROVE Heard(c)'
    <3>1. /\ Off(c, Tail(media)) => Off(c, media)
          /\ OnLast(c, media) => \/ OnLast(c, Tail(media))
                                 \/ Head(media) = Given(c) /\ ~Off(c, Tail(media))
      BY <1>1, TailOfCall
    <3>2. CASE c # d
      <4>1. Head(media) # Given(c)
        BY <1>2, <3>2, FocusMessages
      <4> QED BY <1>1, <1>4, <2>1, <2>2, <3>1, <3>2, <4>1, OthersHeard
    <3>3. CASE c = d /\ Head(media) = Given(d)
      <4>1. ~call[d].picked
        BY <1>6, <3>3, FocusMessages
      <4>2. d \in wake
        BY <2>2, <3>3, <4>1 DEF CallInv, OpenPicked, Picked
      <4> QED BY <1>4, <3>3, <4>2 DEF Heard
    <3>4. CASE c = d /\ Head(media) = Lost(d)
      <4>1. Head(media) # Given(d) /\ Off(d, media)
        BY <1>1, <3>4, FocusMessages DEF Off
      <4>2. d \in wake \/ OnLast(d, Tail(media))
        BY <1>1, <2>2, <3>1, <3>4, <4>1 DEF Heard
      <4>3. OnLast(d, Tail(media)) => OnLast(d, media')
        <5>1. CASE media' = Append(Tail(media), Stop)
          BY <1>1, <5>1, ControlGrows DEF Control
        <5> QED BY <2>1, <5>1 DEF LoseFocus, Unfocus
      <4> QED BY <1>4, <3>4, <4>2, <4>3 DEF Heard
    <3> QED BY <1>2, <3>2, <3>3, <3>4
  <2> QED BY <1>4, <2>1, <2>2, LosesFocusShape, MediaMoves
<1> QED BY <1>5, <1>6

(* The call that gives the focus up is the one told, or is not open.        *)
LEMMA GiveFocusHeard ==
  ASSUME MediaInv, CallInv, GiveFocus
  PROVE  CallInv'
<1> DEFINE d == playing.call
<1>1. /\ playing.at = "focus" /\ d \in Calls /\ UNCHANGED <<call, stepping, wake>>
      /\ media \in Seq(Message) /\ focus.call \in {None, focus.object}
  BY DEF GiveFocus, MediaInv, Types, CallInv, CallShapes
<1>2. CASE UNCHANGED <<media, playing, focus>>
  BY <1>1, <1>2, MediaMoves DEF Heard
<1>3. CASE focus.call = d /\ playing' = Idle /\ UNCHANGED <<focus, transport, media>>
  <2>1. ASSUME NEW c \in Calls, Heard(c) PROVE Heard(c)'
    BY <1>1, <1>3, <2>1 DEF Heard
  <2> QED BY <1>1, <1>3, <2>1, MediaMoves
<1>4. CASE /\ focus.call # d
           /\ focus' = [call |-> d, object |-> d]
           /\ playing' = IF focus.object = None THEN Idle ELSE [at |-> "tell", call |-> focus.object]
           /\ media' = Append(media, Start)
  <2>1. /\ focus'.call = d /\ focus'.object = d
        /\ focus.object # None => playing'.at = "tell" /\ playing'.call = focus.object
    BY <1>4
  <2>2. ASSUME NEW c \in Calls, Heard(c) PROVE Heard(c)'
    <3>1. /\ Off(c, media') => Off(c, media)
          /\ OnLast(c, media) => OnLast(c, media')
      BY <1>1, <1>4, ControlGrows DEF Control
    <3>2. CASE c = d
      BY <1>1, <2>1, <2>2, <3>1, <3>2 DEF Heard
    <3>3. CASE c # d /\ focus.call = c
      <4>1. focus.object = c /\ c # None
        BY <1>1, <3>3, CallsAreNamed
      <4> QED BY <2>1, <4>1 DEF Heard
    <3>4. CASE c # d /\ focus.call # c
      BY <1>1, <2>2, <3>1, <3>4 DEF Heard
    <3> QED BY <3>2, <3>3, <3>4
  <2> QED BY <1>1, <2>1, <2>2, MediaMoves
<1> QED BY <1>2, <1>3, <1>4 DEF GiveFocus, Focus

(* A start and a stop: nothing is said of a call. *)
LEMMA ControlHeard ==
  ASSUME MediaInv, CallInv, OnStart \/ OnStop
  PROVE  CallInv'
<1>1. /\ media \in Seq(Message) /\ media # << >> /\ playing.at = "idle"
      /\ UNCHANGED <<call, stepping, wake, focus>> /\ media' = Tail(media)
  BY DEF OnStart, OnStop, NextMessage, MediaInv, Types, Idle
<1>2. Head(media) \in Control
  BY ControlTaken DEF OnStart, OnStop, Control
<1>3. ASSUME NEW c \in Calls, Heard(c) PROVE Heard(c)'
  <2>1. /\ Off(c, media') => Off(c, media)
        /\ OnLast(c, media) => OnLast(c, media')
    BY <1>1, <1>2, ControlGoes
  <2> QED BY <1>1, <1>3, <2>1 DEF Heard
<1> QED BY <1>1, <1>3, MediaMoves DEF CallInv, CallShapes

LEMMA EngineHeard ==
  ASSUME CallInv, EngineStarted \/ EngineStopped
  PROVE  CallInv'
<1>1. /\ playing.at \in {"start", "stop"}
      /\ UNCHANGED <<call, stepping, wake, media, focus>>
  BY DEF EngineStarted, EngineStopped
<1>2. ASSUME NEW c \in Calls, Heard(c) PROVE Heard(c)'
  BY <1>1, <1>2 DEF Heard
<1> QED BY <1>1, <1>2, MediaMoves DEF CallInv, CallShapes

LEMMA NotifyHeard ==
  ASSUME MediaInv, CallInv, NotifyLostFocus
  PROVE  CallInv'
<1> DEFINE d == playing.call
<1>1. /\ playing.at = "tell" /\ d \in Calls /\ wake' = wake \cup {d}
      /\ call' = [call EXCEPT ![d].hold = TRUE]
      /\ UNCHANGED <<stepping, media, focus>>
  BY DEF NotifyLostFocus, MediaInv, Types
<1> HIDE DEF d
<1>2. \A c \in Calls : /\ DOMAIN call'[c] = DOMAIN call[c] /\ call'[c].state = call[c].state
                       /\ call'[c].picked = call[c].picked /\ call'[c].ready = call[c].ready
                       /\ call'[c].mediaHolding = call[c].mediaHolding
  BY <1>1 DEF CallInv, CallShapes
<1>3. CallShapes'
  BY <1>1, <1>2 DEF CallInv, CallShapes
<1>4. ASSUME NEW c \in Calls, Heard(c) PROVE Heard(c)'
  BY <1>1, <1>4 DEF Heard, d
<1>5. \A c \in Calls : Holding(c)' = Holding(c)
  BY <1>1, <1>2 DEF Holding, StepOf
<1>6. OpenHeard'
  BY <1>2, <1>4, <1>5 DEF CallInv, OpenHeard
<1>7. OpenPicked'
  BY <1>1, <1>2 DEF CallInv, OpenPicked, Picked, StepOf
<1>8. ClosingFirst'
  BY <1>1, <1>2 DEF CallInv, CallShapes, ClosingFirst
<1> QED BY <1>3, <1>6, <1>7, <1>8 DEF CallInv

(* What has a step made of a call has it made, whatever else it changes.    *)
LEMMA UserHeard ==
  ASSUME CallInv, NEW c \in Calls,
         Create(c) \/ Answer(c) \/ LocationReady(c) \/ Wake(c) \/ \E hold \in BOOLEAN : Hold(c, hold)
  PROVE  CallInv'
<1>1. wake' = wake \cup {c} /\ UNCHANGED <<stepping, media, playing, focus>>
  BY DEF Create, Answer, LocationReady, Wake, Hold
<1>2. /\ DOMAIN call' = Calls
      /\ \A d \in Calls : DOMAIN call'[d] = DOMAIN call[d] /\ (d # c => call'[d] = call[d])
      /\ call'[c].picked = call[c].picked
      /\ call'[c].mediaHolding = call[c].mediaHolding
      /\ call'[c].state = call[c].state \/ (call[c].state = None /\ call'[c].state = "Preparing")
      /\ \/ call'[c].ready = call[c].ready
         \/ call'[c].ready /\ call[c].picked /\ call'[c].state = call[c].state
  <2>1. /\ DOMAIN call = Calls
        /\ \A d \in Calls :
             DOMAIN call[d] = {"state", "answered", "hold", "ready", "picked", "mediaHolding"}
    BY DEF CallInv, CallShapes
  <2>2. CASE Create(c)
    BY <2>1, <2>2 DEF Create
  <2>3. CASE Answer(c)
    BY <2>1, <2>3 DEF Answer
  <2>4. CASE LocationReady(c)
    BY <2>1, <2>4 DEF LocationReady
  <2>5. CASE Wake(c)
    BY <2>1, <2>5 DEF Wake
  <2>6. CASE \E hold \in BOOLEAN : Hold(c, hold)
    <3>1. PICK hold : call' = [call EXCEPT ![c].hold = hold]
      BY <2>6 DEF Hold
    <3> QED BY <2>1, <3>1
  <2> QED BY <2>2, <2>3, <2>4, <2>5, <2>6
<1>3. CallShapes'
  BY <1>1, <1>2 DEF CallInv, CallShapes
<1>4. ASSUME NEW d \in Calls, Heard(d) PROVE Heard(d)'
  BY <1>1, <1>4 DEF Heard
<1>5. Heard(c)'
  BY <1>1 DEF Heard
<1>6. \A d \in Calls : d # c => Holding(d)' = Holding(d)
  BY <1>1, <1>2 DEF Holding, StepOf
<1>7. OpenHeard'
  BY <1>2, <1>4, <1>5, <1>6 DEF CallInv, OpenHeard
<1>8. OpenPicked'
  <2> SUFFICES ASSUME NEW d \in Calls PROVE Picked(d)'
    BY DEF OpenPicked
  <2>1. Picked(d)
    BY DEF CallInv, OpenPicked
  <2>2. CASE d # c
    BY <1>1, <1>2, <2>1, <2>2 DEF Picked, StepOf
  <2>3. CASE d = c
    <3>1. \/ call'[c].state = call[c].state
          \/ /\ call'[c].state \notin {"Open", "Closing", "Closed"}
             /\ call[c].state \notin {"Open", "Closing", "Closed"}
      BY <1>2 DEF None
    <3>2. StepOf(c)' <=> StepOf(c)
      BY <1>1 DEF StepOf
    <3>3. call'[c].state = "Open" => call'[c].picked \/ (StepOf(c)' /\ stepping'.picked)
      BY <1>1, <1>2, <2>1, <2>3, <3>1, <3>2 DEF Picked
    <3>4. call'[c].ready => call'[c].picked \/ call'[c].state \in {"Closing", "Closed"}
      BY <1>2, <2>1, <2>3, <3>1 DEF Picked
    <3>5. c \in Incoming /\ call'[c].state = "Open" => call'[c].ready
      BY <1>2, <2>1, <2>3, <3>1 DEF Picked
    <3> QED BY <1>1, <2>3, <3>3, <3>4, <3>5 DEF Picked
  <2> QED BY <2>2, <2>3
<1>9. ClosingFirst'
  BY <1>1, <1>2 DEF CallInv, CallShapes, ClosingFirst, None
<1> QED BY <1>3, <1>7, <1>8, <1>9 DEF CallInv

LEMMA EndStepHeard ==
  ASSUME CallInv, EndStep
  PROVE  CallInv'
<1> DEFINE c == stepping.call
<1>1. /\ stepping.at = "step" /\ c \in Calls /\ stepping' = Idle /\ stepping'.at = "idle"
      /\ UNCHANGED <<wake, media, playing, focus>>
  BY DEF EndStep, CallInv, CallShapes, Idle
<1>2. /\ DOMAIN call' = Calls
      /\ \A d \in Calls : /\ DOMAIN call'[d] = DOMAIN call[d] /\ (d # c => call'[d] = call[d])
                          /\ call'[d].state = call[d].state /\ call'[d].ready = call[d].ready
      /\ call'[c].mediaHolding = stepping.holding
      /\ call'[c].picked <=> call[c].picked \/ stepping.picked
  BY <1>1 DEF EndStep, CallInv, CallShapes
<1> HIDE DEF c
<1>3. CallShapes'
  BY <1>1, <1>2 DEF CallInv, CallShapes
<1>4. \A d \in Calls : StepOf(d) <=> d = c
  BY <1>1 DEF StepOf, c
<1>5. \A d \in Calls : Holding(d)' = Holding(d)
  BY <1>1, <1>2, <1>4 DEF Holding, StepOf
<1>6. ASSUME NEW d \in Calls, Heard(d) PROVE Heard(d)'
  BY <1>1, <1>6 DEF Heard
<1>7. OpenHeard'
  BY <1>2, <1>5, <1>6 DEF CallInv, OpenHeard
<1>8. OpenPicked'
  <2> SUFFICES ASSUME NEW d \in Calls PROVE Picked(d)'
    BY DEF OpenPicked
  <2>1. Picked(d)
    BY DEF CallInv, OpenPicked
  <2>2. CASE d # c
    BY <1>1, <1>2, <1>4, <2>1, <2>2 DEF Picked, StepOf
  <2>3. CASE d = c
    BY <1>1, <1>2, <1>4, <2>1, <2>3 DEF Picked, StepOf
  <2> QED BY <2>2, <2>3
<1>9. ClosingFirst'
  BY <1>1 DEF ClosingFirst
<1> QED BY <1>3, <1>7, <1>8, <1>9 DEF CallInv

(* A call that is cancelled is not heard, nor is it any more open. *)
LEMMA CancelHeard ==
  ASSUME MediaInv, CallInv, CancelCloses \/ \E c \in Calls : OnHangup(c)
  PROVE  CallInv'
<1>1. PICK c \in Calls :
        /\ stepping.at \in {"idle", "close"}
        /\ UNCHANGED <<wake, media, playing, focus>>
        /\ \/ /\ call' = [call EXCEPT ![c].state = "Closing", ![c].picked = FALSE]
              /\ stepping' = [at |-> "lose", call |-> c]
           \/ /\ call' = [call EXCEPT ![c].state = "Closed", ![c].picked = FALSE]
              /\ stepping' = Idle
  <2>1. CASE CancelCloses
    <3> DEFINE c == stepping.call
    <3>1. /\ stepping.at = "close" /\ c \in Calls
          /\ call' = [call EXCEPT ![c].state = "Closed", ![c].picked = FALSE]
          /\ stepping' = Idle /\ UNCHANGED <<wake, media, playing, focus>>
      BY <2>1 DEF CancelCloses, CallInv, CallShapes
    <3> HIDE DEF c
    <3> QED BY <3>1
  <2>2. ASSUME NEW c \in Calls, OnHangup(c)
        PROVE  /\ stepping.at = "idle" /\ UNCHANGED <<wake, media, playing, focus>>
               /\ call' = [call EXCEPT ![c].state = "Closing", ![c].picked = FALSE]
               /\ stepping' = [at |-> "lose", call |-> c]
    BY <2>2 DEF OnHangup, Idle
  <2> QED BY <2>1, <2>2
<1>2. /\ DOMAIN call' = Calls
      /\ \A d \in Calls : DOMAIN call'[d] = DOMAIN call[d] /\ (d # c => call'[d] = call[d])
      /\ call'[c].state \in {"Closing", "Closed"}
  BY <1>1 DEF CallInv, CallShapes
<1>3. /\ stepping'.at \in {"idle", "lose"}
      /\ stepping'.at = "lose" => /\ stepping'.call = c /\ call'[c].state = "Closing"
                                  /\ DOMAIN stepping' = {"at", "call"}
  BY <1>1 DEF Idle, CallInv, CallShapes
<1>4. CallShapes'
  BY <1>1, <1>2, <1>3 DEF CallInv, CallShapes
<1>5. ASSUME NEW d \in Calls, Heard(d) PROVE Heard(d)'
  BY <1>1, <1>5 DEF Heard
<1>6. \A d \in Calls : ~StepOf(d) /\ ~StepOf(d)'
  BY <1>1, <1>3 DEF StepOf
<1>7. \A d \in Calls : d # c => Holding(d)' = Holding(d)
  BY <1>2, <1>6 DEF Holding
<1>8. OpenHeard'
  BY <1>2, <1>5, <1>7 DEF CallInv, OpenHeard
<1>9. OpenPicked'
  BY <1>1, <1>2, <1>6 DEF CallInv, OpenPicked, Picked
<1>10. ClosingFirst'
  BY <1>3 DEF ClosingFirst
<1> QED BY <1>4, <1>8, <1>9, <1>10 DEF CallInv

LEMMA CancelLosesHeard ==
  ASSUME MediaInv, CallInv, CancelLosesFocus
  PROVE  CallInv'
<1> DEFINE d == stepping.call
<1>1. /\ stepping.at = "lose" /\ d \in Calls /\ call[d].state = "Closing"
      /\ LoseFocus(d, media) /\ UNCHANGED <<call, wake, playing>>
      /\ stepping'.at = "close" /\ stepping'.call = d
      /\ media \in Seq(Message)
  BY DEF CancelLosesFocus, CallInv, CallShapes, ClosingFirst, MediaInv, Types
<1>2. focus'.call \in {None, focus'.object}
  BY <1>1, LosesFocusShape
<1>3. CallShapes'
  BY <1>1, <1>2 DEF CallInv, CallShapes
<1>4. \A c \in Calls : ~StepOf(c) /\ ~StepOf(c)'
  BY <1>1 DEF StepOf
<1>5. ASSUME NEW c \in Calls, call[c].state = "Open", Heard(c) PROVE Heard(c)'
  <2>1. c # d
    BY <1>1, <1>5
  <2> HIDE DEF d
  <2> QED BY <1>1, <1>5, <2>1, OthersHeard
<1>6. OpenHeard'
  BY <1>1, <1>4, <1>5 DEF CallInv, OpenHeard, Holding
<1>7. OpenPicked' /\ ClosingFirst'
  BY <1>1, <1>4 DEF CallInv, OpenPicked, Picked, ClosingFirst
<1> QED BY <1>3, <1>6, <1>7 DEF CallInv

(* A step that leaves a call open, and not held, posts that it gets the     *)
(* focus.                                                                   *)
LEMMA StepHeard ==
  ASSUME MediaInv, CallInv, NEW c \in Calls, Step(c)
  PROVE  CallInv'
<1>1. /\ media \in Seq(Message) /\ UNCHANGED <<playing, focus>>
      /\ stepping.at = "idle" /\ wake \ {c} \subseteq wake' /\ wake' \subseteq wake
  BY DEF Step, MediaInv, Types, Idle
<1>2. CASE call[c].state \in {"Closing", "Closed"}
  <2>1. UNCHANGED <<call, stepping, media>>
    BY <1>2 DEF Step
  <2>2. \A d \in Calls : d # c /\ Heard(d) => Heard(d)'
    BY <1>1, <2>1 DEF Heard
  <2>3. \A d \in Calls : Holding(d)' = Holding(d)
    BY <2>1 DEF Holding, StepOf
  <2>4. CallShapes' /\ ClosingFirst'
    BY <1>1, <2>1 DEF CallInv, CallShapes, ClosingFirst
  <2>5. OpenHeard'
    BY <1>2, <2>1, <2>2, <2>3 DEF CallInv, OpenHeard
  <2>6. OpenPicked'
    BY <1>1, <2>1 DEF CallInv, OpenPicked, Picked, StepOf
  <2> QED BY <2>4, <2>5, <2>6 DEF CallInv
<1>3. CASE call[c].state \notin {"Closing", "Closed"}
  <2>1. PICK picked, remoteHolds \in BOOLEAN :
          LET state   == StateOf(c, picked)
              holding == HoldingOf(c, picked, remoteHolds)
          IN /\ (call[c].picked \/ c \in Incoming) => picked
             /\ call' = [call EXCEPT ![c].state = state]
             /\ media' = Append(media, SetFocus(c, picked /\ state # "Hold" /\ ~holding))
             /\ stepping' = [at |-> "step", call |-> c, picked |-> picked,
                             holding |-> holding]
             /\ wake' = IF WakesAgain(c, picked) THEN wake ELSE wake \ {c}
    BY <1>3 DEF Step
  <2> DEFINE state   == StateOf(c, picked)
             holding == HoldingOf(c, picked, remoteHolds)
             on      == picked /\ state # "Hold" /\ ~holding
  <2>2. /\ (call[c].picked \/ c \in Incoming) => picked
        /\ call' = [call EXCEPT ![c].state = state]
        /\ media' = Append(media, SetFocus(c, on)) /\ on \in BOOLEAN
        /\ stepping'.at = "step" /\ stepping'.call = c
        /\ stepping'.picked = picked /\ stepping'.holding = holding
        /\ wake' = IF WakesAgain(c, picked) THEN wake ELSE wake \ {c}
    BY <2>1
  <2>3. /\ state = "Open" => picked \/ call[c].state = "Open"
        /\ state = "Open" /\ c \in Incoming => Ready(c) \/ call[c].state = "Open"
        /\ state = "Hold" \/ state = call[c].state \/ state \in {"Incoming", "Open"}
    BY DEF StateOf, Talking
  <2>4. \A d \in Calls : ~StepOf(d) /\ (StepOf(d)' <=> d = c)
    BY <1>1, <2>2 DEF StepOf
  <2>5. Picked(c)
    BY DEF CallInv, OpenPicked
  <2>6. state = "Open" => picked
    BY <2>2, <2>3, <2>4, <2>5 DEF Picked
  <2>7. c \notin Incoming /\ picked /\ ~call[c].picked => wake' = wake /\ c \in wake
    BY <2>2 DEF WakesAgain, Step
  <2> HIDE DEF state, holding, on
  <2>8. /\ DOMAIN call' = Calls
        /\ \A d \in Calls : /\ DOMAIN call'[d] = DOMAIN call[d] /\ (d # c => call'[d] = call[d])
                            /\ call'[d].mediaHolding = call[d].mediaHolding
        /\ call'[c].state = state /\ call'[c].picked = call[c].picked
        /\ call'[c].ready = call[c].ready
    BY <2>2 DEF CallInv, CallShapes
  <2>9. /\ on => media' = Append(media, Given(c))
        /\ media' = Append(media, Given(c)) \/ media' = Append(media, Lost(c))
    BY <2>2, Posted
  <2>10. CallShapes'
    BY <1>1, <2>2, <2>8 DEF CallInv, CallShapes
  <2>11. OpenHeard'
    <3>1. ASSUME NEW d \in Calls, d # c, Heard(d) PROVE Heard(d)'
      <4>1. \A x \in {Given(c), Lost(c)} : x \in Message /\ x # Lost(d)
        BY <3>1, FocusMessages, Messages
      <4>2. /\ Off(d, media') => Off(d, media)
            /\ OnLast(d, media) => OnLast(d, media')
        BY <1>1, <2>9, <4>1, AppendOfCall
      <4> QED BY <1>1, <3>1, <4>2 DEF Heard
    <3>2. \A d \in Calls : d # c => Holding(d)' = Holding(d)
      BY <2>4, <2>8 DEF Holding
    <3>3. ASSUME call'[c].state = "Open", ~Holding(c)' PROVE Heard(c)'
      <4>1. ~holding
        BY <2>2, <2>4, <3>3 DEF Holding
      <4>2. on
        BY <2>6, <2>8, <3>3, <4>1 DEF on
      <4>3. OnLast(c, media')
        BY <1>1, <2>9, <4>2, Messages, AppendOfCall
      <4> QED BY <4>3 DEF Heard
    <3> QED BY <2>8, <3>1, <3>2, <3>3 DEF CallInv, OpenHeard
  <2>12. OpenPicked'
    <3> SUFFICES ASSUME NEW d \in Calls PROVE Picked(d)'
      BY DEF OpenPicked
    <3>1. CASE d # c
      <4>1. Picked(d) /\ (d \in wake => d \in wake')
        BY <1>1, <3>1 DEF CallInv, OpenPicked
      <4> QED BY <2>4, <2>8, <3>1, <4>1 DEF Picked
    <3>2. CASE d = c
      <4>1. call'[c].state = "Open" => stepping'.picked
        BY <2>2, <2>6, <2>8
      <4>2. stepping'.picked /\ ~call'[c].picked /\ c \notin Incoming => c \in wake'
        BY <2>2, <2>7, <2>8
      <4>3. call'[c].ready => call'[c].picked
        BY <1>3, <2>5, <2>8 DEF Picked
      <4>4. c \in Incoming /\ call'[c].state = "Open" => call'[c].ready
        BY <2>3, <2>5, <2>8 DEF Picked, Ready
      <4> QED BY <2>4, <3>2, <4>1, <4>2, <4>3, <4>4 DEF Picked
    <3> QED BY <3>1, <3>2
  <2>13. ClosingFirst'
    BY <2>2 DEF ClosingFirst
  <2> QED BY <2>10, <2>11, <2>12, <2>13 DEF CallInv
<1> QED BY <1>2, <1>3

LEMMA CallInvNext ==
  ASSUME MediaInv, CallInv, [CallNext]_callVars
  PROVE  CallInv'
<1>1. ASSUME UNCHANGED callVars PROVE CallInv'
  <2>1. UNCHANGED <<call, stepping, wake, media, playing, focus>>
    BY <1>1 DEF callVars
  <2> QED BY <2>1, MediaMoves DEF Heard, CallInv, CallShapes
<1> QED BY <1>1, UserHeard, StepHeard, EndStepHeard, CancelHeard, CancelLosesHeard,
           OnSetFocusHeard, GiveFocusHeard, NotifyHeard, ControlHeard, EngineHeard
        DEF CallNext

(* An open call that nobody holds has the focus when everything settles:    *)
(* whichever comes first of the step that opens it and of the onSetFocus    *)
(* that the step posts (core_Call.cpp, core_CallTransport.cpp), whatever    *)
(* other calls take the focus, and whichever of them are over by then.      *)
THEOREM SpecOpenIsHeard ==
  CallSpec => []OpenIsHeard
<1> DEFINE Inv == MediaInv /\ CallInv
<1>1. CallInit => Inv
  BY MediaInvInit, CallInvInit
<1>2. Inv /\ [CallNext]_callVars => Inv'
  BY MediaInvNext, CallInvNext
<1>3. Inv => OpenIsHeard
  <2> SUFFICES ASSUME CallInv, Settled, NEW c \in Calls,
                      call[c].state = "Open", ~call[c].mediaHolding
               PROVE  focus.call = c
    BY DEF OpenIsHeard
  <2>1. wake = {} /\ media = << >> /\ playing.at = "idle" /\ stepping.at = "idle"
    BY DEF Settled, Idle
  <2>2. ~Holding(c) /\ ~OnLast(c, media)
    BY <2>1 DEF Holding, StepOf, OnLast
  <2>3. Heard(c)
    BY <2>2 DEF CallInv, OpenHeard
  <2> QED BY <2>1, <2>2, <2>3 DEF Heard
<1> QED BY <1>1, <1>2, <1>3, PTL DEF CallSpec
=============================================================================
