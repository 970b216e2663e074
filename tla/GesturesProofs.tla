--------------------------- MODULE GesturesProofs ---------------------------
(***************************************************************************)
(* Proofs about Gestures.tla, for every set of parameters and levels and   *)
(* every size of the queue.                                                *)
(***************************************************************************)
EXTENDS Gestures, TLAPS

(* What an event that may follow adds to the queue. *)
LEMMA AppendStep ==
  ASSUME GestureInv, NEW e \in Events,
         queue' = Append(queue, e), open' = open,
         active = (IF e.kind = "begin" THEN NoParam ELSE e.index),
         active' = OpenAfter(e),
         Len(queue) + Reserve(e.kind) <= Size
  PROVE  GestureInv'
<1>1. /\ queue \in Seq(Events) /\ Len(queue) \in Nat
      /\ active \in Params \cup {NoParam} /\ open \in Params \cup {NoParam}
  BY DEF GestureInv, GestureTypes
<1>2. /\ queue' \in Seq(Events) /\ Len(queue') = Len(queue) + 1
      /\ queue'[Len(queue) + 1] = e /\ DOMAIN queue' = 1 .. Len(queue) + 1
      /\ \A i \in 1 .. Len(queue) : queue'[i] = queue[i]
  BY <1>1
<1>3. active' \in Params \cup {NoParam}
  BY DEF OpenAfter, Events
<1>4. Bracketed'
  <2> SUFFICES ASSUME NEW i \in 1 .. Len(queue) + 1
               PROVE  OpenBefore(i)' = IF queue'[i].kind = "begin" THEN NoParam
                                       ELSE queue'[i].index
    BY <1>2 DEF Bracketed
  <2>1. CASE i \in 1 .. Len(queue)
    <3>1. OpenBefore(i) = IF queue[i].kind = "begin" THEN NoParam
                          ELSE queue[i].index
      BY <1>1, <2>1 DEF GestureInv, Bracketed
    <3>2. queue'[i] = queue[i] /\ (i # 1 => queue'[i - 1] = queue[i - 1])
      BY <1>1, <1>2, <2>1
    <3>3. QED
      BY <3>1, <3>2 DEF OpenBefore, OpenAfter
  <2>2. CASE i = Len(queue) + 1
    <3>1. active = IF queue = <<>> THEN open ELSE OpenAfter(queue[Len(queue)])
      BY DEF GestureInv, Closes
    <3>2. queue = <<>> <=> Len(queue) = 0
      BY <1>1
    <3>3. OpenBefore(i)' = active
      <4>1. CASE Len(queue) = 0
        BY <2>2, <3>1, <3>2, <4>1 DEF OpenBefore
      <4>2. CASE Len(queue) # 0
        BY <1>1, <1>2, <2>2, <3>1, <3>2, <4>2 DEF OpenBefore, OpenAfter
      <4>3. QED
        BY <4>1, <4>2
    <3>4. QED
      BY <1>2, <2>2, <3>3
  <2>3. QED
    BY <1>1, <2>1, <2>2
<1>5. Closes'
  <2>1. queue' # <<>>
    BY <1>1, <1>2
  <2>2. QED
    BY <1>2, <2>1 DEF Closes, OpenAfter
<1>6. RoomToEnd'
  BY <1>1, <1>2, GestureAssumption DEF RoomToEnd, Reserve, OpenAfter, Events
<1>7. QED
  BY <1>1, <1>2, <1>3, <1>4, <1>5, <1>6 DEF GestureInv, GestureTypes

(* A delivery takes the first event. *)
LEMMA DeliverStep == ASSUME GestureInv, Deliver PROVE GestureInv'
<1>1. /\ queue \in Seq(Events) /\ queue # <<>> /\ Len(queue) \in Nat \ {0}
      /\ queue[1] \in Events /\ active' = active
  BY DEF GestureInv, GestureTypes, Deliver
<1>2. /\ queue' \in Seq(Events) /\ Len(queue') = Len(queue) - 1
      /\ DOMAIN queue' = 1 .. Len(queue) - 1
      /\ \A i \in 1 .. Len(queue) - 1 : queue'[i] = queue[i + 1]
  BY <1>1 DEF Deliver
<1>3. open' = OpenAfter(queue[1])
  <2>1. open = IF queue[1].kind = "begin" THEN NoParam ELSE queue[1].index
    <3>1. 1 \in DOMAIN queue
      BY <1>1
    <3>2. QED
      BY <3>1, Zenon DEF GestureInv, Bracketed, OpenBefore
  <2>2. queue[1].kind \in {"begin", "value", "end"}
    BY <1>1 DEF Events
  <2>3. Head(queue) = queue[1]
    BY <1>1
  <2>4. QED
    BY <2>1, <2>2, <2>3 DEF Deliver, OpenAfter
<1>4. open' \in Params \cup {NoParam}
  BY <1>1, <1>3 DEF OpenAfter, Events
<1>5. Bracketed'
  <2> SUFFICES ASSUME NEW i \in 1 .. Len(queue) - 1
               PROVE  OpenBefore(i)' = IF queue'[i].kind = "begin" THEN NoParam
                                       ELSE queue'[i].index
    BY <1>2 DEF Bracketed
  <2>1. OpenBefore(i + 1) = IF queue[i + 1].kind = "begin" THEN NoParam
                            ELSE queue[i + 1].index
    BY <1>1 DEF GestureInv, Bracketed
  <2>2. OpenBefore(i + 1) = OpenAfter(queue[i])
    BY DEF OpenBefore
  <2>3. OpenBefore(i)' = OpenAfter(queue[i])
    <3>1. CASE i = 1
      BY <1>3, <3>1 DEF OpenBefore
    <3>2. CASE i # 1
      BY <1>1, <1>2, <3>2 DEF OpenBefore, OpenAfter
    <3>3. QED
      BY <3>1, <3>2
  <2>4. QED
    BY <1>2, <2>1, <2>2, <2>3
<1>6. Closes'
  <2>1. active = OpenAfter(queue[Len(queue)])
    BY <1>1 DEF GestureInv, Closes
  <2>2. CASE Len(queue) = 1
    <3>1. queue' = <<>>
      BY <1>2, <2>2
    <3>2. QED
      BY <1>1, <1>3, <2>1, <2>2, <3>1 DEF Closes
  <2>3. CASE Len(queue) # 1
    <3>1. queue' # <<>> /\ queue'[Len(queue')] = queue[Len(queue)]
      BY <1>1, <1>2, <2>3
    <3>2. QED
      BY <1>1, <2>1, <3>1 DEF Closes, OpenAfter
  <2>4. QED
    BY <2>2, <2>3
<1>7. RoomToEnd'
  BY <1>1, <1>2, GestureAssumption DEF GestureInv, RoomToEnd, Reserve
<1>8. QED
  BY <1>1, <1>2, <1>4, <1>5, <1>6, <1>7 DEF GestureInv, GestureTypes

(* Nothing is open before the first event. *)
LEMMA InitGesture == GestureInit => GestureInv
  BY GestureAssumption DEF GestureInit, GestureInv, GestureTypes, Bracketed,
     Closes, RoomToEnd

(* Every step keeps the invariant. *)
LEMMA NextGesture == GestureInv /\ [GestureNext]_gestureVars => GestureInv'
<1> SUFFICES ASSUME GestureInv, [GestureNext]_gestureVars PROVE GestureInv'
  OBVIOUS
<1>1. CASE BeginGesture
  <2>1. PICK e \in Events : /\ e.kind = "begin" /\ queue' = Append(queue, e)
                            /\ active' = e.index
    BY <1>1 DEF BeginGesture
  <2>2. active = NoParam /\ open' = open /\ Len(queue) + Reserve("begin") <= Size
    BY <1>1 DEF BeginGesture, MayBegin, Fits
  <2>3. QED
    BY <2>1, <2>2, AppendStep DEF OpenAfter
<1>2. CASE ChangeValue
  <2>1. PICK e \in Events : /\ e.kind = "value" /\ e.index = active
                            /\ queue' = Append(queue, e)
    BY <1>2 DEF ChangeValue
  <2>2. /\ active' = active /\ open' = open
        /\ Len(queue) + Reserve("value") <= Size
    BY <1>2 DEF ChangeValue, Fits
  <2>3. QED
    BY <2>1, <2>2, AppendStep DEF OpenAfter
<1>3. CASE EndGesture
  <2>1. PICK e \in Events : /\ e.kind = "end" /\ e.index = active
                            /\ queue' = Append(queue, e)
    BY <1>3 DEF EndGesture
  <2>2. active' = NoParam /\ open' = open /\ active # NoParam
    BY <1>3 DEF EndGesture
  <2>3. Len(queue) + Reserve("end") <= Size
    BY <2>2 DEF GestureInv, RoomToEnd
  <2>4. QED
    BY <2>1, <2>2, <2>3, AppendStep DEF OpenAfter
<1>4. CASE Deliver
  BY <1>4, DeliverStep
<1>5. CASE UNCHANGED gestureVars
  BY <1>5 DEF gestureVars, GestureInv, GestureTypes, Bracketed, OpenBefore,
     OpenAfter, Closes, RoomToEnd
<1>6. QED
  BY <1>1, <1>2, <1>3, <1>4, <1>5 DEF GestureNext

(* Every behaviour of the editor keeps the promise: its gestures reach the *)
(* host begun and ended in pairs, however full the queue has been.         *)
THEOREM GesturesBracketed == GestureSpec => []GestureInv
  BY InitGesture, NextGesture, PTL DEF GestureSpec

(* Ending a gesture always finds room, and each gesture is bracketed. *)
COROLLARY BracketsKept == GestureSpec => [](Bracketed /\ Closes /\ RoomToEnd)
<1>1. GestureInv => Bracketed /\ Closes /\ RoomToEnd
  BY DEF GestureInv
<1>2. QED
  BY <1>1, GesturesBracketed, PTL
=============================================================================
