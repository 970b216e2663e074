--------------------------- MODULE UiQueueProofs ---------------------------
(***************************************************************************)
(* Theorems about the editor and the way of its edits to the CLAP host:    *)
(* the queue for every set of parameters and levels and every size of the  *)
(* ring, counters that wrap included; the editor for all limits, every     *)
(* order of events and calls, and whatever the host answers.               *)
(***************************************************************************)
EXTENDS UiQueue, Editor, SequenceTheorems, TLAPS

-----------------------------------------------------------------------------
(* Counters and slots. *)

(* Quotient and remainder. *)
LEMMA Division ==
  ASSUME NEW x \in Int, NEW d \in Nat \ {0}
  PROVE  \E q \in Int, r \in 0 .. d - 1 : x = d * q + r /\ x % d = r
  OBVIOUS

(* Division leaves one remainder only. *)
LEMMA Remainder ==
  ASSUME NEW d \in Nat \ {0}, NEW q \in Int, NEW r \in 0 .. d - 1
  PROVE  (d * q + r) % d = r
<1> DEFINE x == d * q + r
<1>1. x \in Int
  OBVIOUS
<1>2. PICK p \in Int, m \in 0 .. d - 1 : x = d * p + m /\ x % d = m
  <2> HIDE DEF x
  <2>1. QED
    BY <1>1, Division
<1> DEFINE k == q - p
<1>3. k \in Int /\ d * k = m - r
  <2>1. d * (q - p) = d * q - d * p
    OBVIOUS
  <2>2. QED
    BY <1>2, <2>1
<1> HIDE DEF k
<1>4. (k >= 1 => d * k >= d) /\ (k <= -1 => d * k <= -d)
  BY <1>3
<1>5. k = 0
  BY <1>3, <1>4
<1>6. QED
  BY <1>2, <1>3, <1>5

(* The subtraction of two counters, modulo their range. *)
LEMMA Subtraction ==
  ASSUME NEW a \in 0 .. Wrap - 1, NEW b \in 0 .. Wrap - 1
  PROVE  (a - b + Wrap) % Wrap = IF a >= b THEN a - b ELSE a - b + Wrap
<1>1. Wrap \in Nat \ {0}
  BY QueueAssumption
<1>2. CASE a >= b
  <2>1. a - b \in 0 .. Wrap - 1 /\ a - b + Wrap = Wrap * 1 + (a - b)
    BY <1>1, <1>2
  <2>2. QED
    BY <1>1, <1>2, <2>1, Remainder
<1>3. CASE ~(a >= b)
  <2>1. /\ a - b + Wrap \in 0 .. Wrap - 1
        /\ a - b + Wrap = Wrap * 0 + (a - b + Wrap)
    BY <1>1, <1>3
  <2>2. QED
    BY <1>1, <1>3, <2>1, Remainder
<1>4. QED
  BY <1>2, <1>3

(* The next counter. *)
LEMMA Successor ==
  ASSUME NEW c \in 0 .. Wrap - 1
  PROVE  Succ(c) = IF c = Wrap - 1 THEN 0 ELSE c + 1
<1>1. Wrap \in Nat \ {0}
  BY QueueAssumption
<1>2. CASE c = Wrap - 1
  <2>1. c + 1 = Wrap * 1 + 0 /\ 0 \in 0 .. Wrap - 1
    BY <1>1, <1>2
  <2>2. QED
    BY <1>1, <1>2, <2>1, Remainder DEF Succ
<1>3. CASE c # Wrap - 1
  <2>1. c + 1 = Wrap * 0 + (c + 1) /\ c + 1 \in 0 .. Wrap - 1
    BY <1>1, <1>3
  <2>2. QED
    BY <1>1, <1>3, <2>1, Remainder DEF Succ
<1>4. QED
  BY <1>2, <1>3

(* A position in the ring. *)
LEMMA SlotType ==
  ASSUME NEW x \in Int
  PROVE  Slot(x) \in 0 .. Size - 1
  BY QueueAssumption DEF Slot

(* Slots do not notice that a counter wraps, the ring divides the range. *)
LEMMA SlotWraps ==
  ASSUME NEW x \in Int
  PROVE  Slot(x + Wrap) = Slot(x)
<1>1. Size \in Nat \ {0} /\ Wrap \in Nat /\ Wrap % Size = 0
  BY QueueAssumption
<1>2. PICK k \in Int : Wrap = Size * k
  <2>1. PICK k \in Int, m \in 0 .. Size - 1 : Wrap = Size * k + m /\ Wrap % Size = m
    BY <1>1, Division
  <2>2. QED
    BY <1>1, <2>1
<1>3. PICK q \in Int, r \in 0 .. Size - 1 : x = Size * q + r /\ x % Size = r
  BY <1>1, Division
<1>4. x + Wrap = Size * (q + k) + r /\ q + k \in Int
  <2>1. Size * (q + k) = Size * q + Size * k
    BY <1>1
  <2>2. QED
    BY <1>1, <1>2, <1>3, <2>1
<1>5. (Size * (q + k) + r) % Size = r
  BY <1>1, <1>4, Remainder
<1>6. QED
  BY <1>3, <1>4, <1>5 DEF Slot

(* Less than a ring apart, slots differ. *)
LEMMA SlotsDiffer ==
  ASSUME NEW x \in Int, NEW d \in 1 .. Size - 1
  PROVE  Slot(x + d) # Slot(x)
<1>1. Size \in Nat \ {0}
  BY QueueAssumption
<1> SUFFICES ASSUME Slot(x + d) = Slot(x) PROVE FALSE
  OBVIOUS
<1>2. PICK q \in Int, r \in 0 .. Size - 1 : x = Size * q + r /\ x % Size = r
  BY <1>1, Division
<1>3. PICK p \in Int, m \in 0 .. Size - 1 :
        x + d = Size * p + m /\ (x + d) % Size = m
  <2> DEFINE y == x + d
  <2>1. y \in Int
    BY <1>1
  <2> HIDE DEF y
  <2>2. \E p \in Int, m \in 0 .. Size - 1 : y = Size * p + m /\ y % Size = m
    BY <1>1, <2>1, Division
  <2>3. QED
    BY <2>2 DEF y
<1>4. m = r
  BY <1>2, <1>3 DEF Slot
<1> DEFINE k == p - q
<1>5. k \in Int /\ Size * k = d
  <2>1. Size * (p - q) = Size * p - Size * q
    BY <1>1
  <2>2. QED
    BY <1>1, <1>2, <1>3, <1>4, <2>1
<1> HIDE DEF k
<1>6. (k >= 1 => Size * k >= Size) /\ (k <= 0 => Size * k <= 0)
  BY <1>1, <1>5
<1>7. QED
  BY <1>1, <1>5, <1>6

-----------------------------------------------------------------------------
(* The inductive invariant. *)

(* Type correctness. *)
TypeOK ==
  /\ slots \in [0 .. Size - 1 -> Events]
  /\ write \in 0 .. Wrap - 1 /\ read \in 0 .. Wrap - 1 /\ end \in 0 .. Wrap - 1
  /\ target \in [Params -> Levels] /\ told \in [Params -> Levels]
  /\ active \in Params \cup {NoParam} /\ open \in Params \cup {NoParam}
  /\ todo \in Seq(Events)
  /\ gpc \in {"idle", "request", "put", "publish"}
  /\ apc \in {"idle", "offer", "accepted"}

(* The edits of an editor call belong to the gesture under way; a begin    *)
(* comes when it has been ended.                                           *)
TodoFits ==
  /\ Len(todo) <= 2
  /\ todo # <<>> =>
       /\ Head(todo).kind = "begin" => active = NoParam /\ Len(todo) = 1
       /\ Head(todo).kind = "value" => active = Head(todo).index /\ Len(todo) = 1
       /\ Head(todo).kind = "end" =>
            /\ active = Head(todo).index
            /\ Len(todo) = 2 => todo[2].kind = "begin"
  /\ gpc # "idle" => todo # <<>>
  /\ gpc = "request" => Head(todo).kind = "value"

(* The room gui_edit() found stays there until it is used, and a gesture   *)
(* under way has room to end; a slot that was filled stays as it is.       *)
RoomHeld ==
  /\ Count <= Size
  /\ active # NoParam => Count + Reserve("end") <= Size
  /\ gpc # "idle" => Count + Reserve(Head(todo).kind) <= Size
  /\ gpc = "publish" => slots[Slot(write)] = Head(todo)

(* output_ui() offers no more than is published. *)
OfferHeld ==
  /\ apc # "idle" => (end - read + Wrap) % Wrap <= Count
  /\ apc = "accepted" => read # end

(* The processor has the value already, the queue has not. *)
Unqueued(p) ==
  gpc \in {"put", "publish"} /\ Head(todo).kind = "value" /\ Head(todo).index = p

(* An event that sets a parameter. *)
Sets(e, p) == e.kind = "value" /\ e.index = p

(* The last of some events that sets a parameter sets it to what is        *)
(* wanted; when none does, it has that value already.                      *)
Final(s, p, known, wanted) ==
  /\ (\A i \in 1 .. Len(s) : ~Sets(s[i], p)) => known = wanted
  /\ \A i \in 1 .. Len(s) :
       /\ Sets(s[i], p)
       /\ \A j \in 1 .. Len(s) : j > i => ~Sets(s[j], p)
       => s[i].value = wanted

(* What the host knows of a parameter once it has taken all that waits for *)
(* it is what the processor works with.                                    *)
UpToDate(p) ==
  IF Unqueued(p) THEN target[p] = Head(todo).value
  ELSE Final(Undelivered, p, told[p], target[p])

ToldSoFar == \A p \in Params : UpToDate(p)

QueueInv == TypeOK /\ TodoFits /\ RoomHeld /\ OfferHeld

-----------------------------------------------------------------------------
(* The events that wait for the host. *)

First == IF apc = "accepted" THEN 1 ELSE 0

(* The number of published slots, without the wrap. *)
LEMMA Counted ==
  ASSUME QueueInv
  PROVE  /\ Count \in Nat /\ Count <= Size /\ Size \in Nat /\ Size < Wrap
         /\ Count = IF write >= read THEN write - read ELSE write - read + Wrap
         /\ write = read + Count \/ write + Wrap = read + Count
         /\ Slot(read + Count) = Slot(write)
         /\ First \in {0, 1} /\ First <= Count
<1>1. write \in 0 .. Wrap - 1 /\ read \in 0 .. Wrap - 1 /\ end \in 0 .. Wrap - 1
      /\ Wrap \in Nat /\ Size \in Nat /\ Size < Wrap /\ Count <= Size
  BY QueueAssumption DEF QueueInv, TypeOK, RoomHeld
<1>2. Count = IF write >= read THEN write - read ELSE write - read + Wrap
  BY <1>1, Subtraction DEF Count
<1>3. Count \in Nat /\ (write = read + Count \/ write + Wrap = read + Count)
  BY <1>1, <1>2
<1>4. Slot(read + Count) = Slot(write)
  <2>1. Slot(write + Wrap) = Slot(write)
    BY <1>1, SlotWraps
  <2>2. QED
    BY <1>3, <2>1
<1>5. First \in {0, 1}
  BY DEF First
<1>6. First <= Count
  <2>1. CASE apc = "accepted"
    <3>1. (end - read + Wrap) % Wrap <= Count /\ read # end
      BY <2>1 DEF QueueInv, OfferHeld
    <3>2. (end - read + Wrap) % Wrap
             = IF end >= read THEN end - read ELSE end - read + Wrap
      BY <1>1, Subtraction
    <3>3. QED
      BY <1>1, <1>3, <2>1, <3>1, <3>2 DEF First
  <2>2. CASE apc # "accepted"
    BY <1>3, <2>2 DEF First
  <2>3. QED
    BY <2>1, <2>2
<1>7. QED
  BY <1>1, <1>2, <1>3, <1>4, <1>5, <1>6

(* They are a sequence of events. *)
WaitingOK ==
  /\ Undelivered \in Seq(Events)
  /\ Len(Undelivered) = Count - First
  /\ DOMAIN Undelivered = 1 .. Count - First
  /\ \A i \in 1 .. Count - First :
       Undelivered[i] = slots[Slot(read + First + i - 1)]

LEMMA WaitingEvents == QueueInv => WaitingOK
<1> SUFFICES ASSUME QueueInv PROVE WaitingOK
  OBVIOUS
<1> DEFINE n == Count - First
           e(i) == slots[Slot(read + First + i - 1)]
<1>1. n \in Nat /\ read \in Int /\ First \in Int
  BY Counted DEF QueueInv, TypeOK
<1>2. Undelivered = [i \in 1 .. n |-> e(i)]
  BY Zenon DEF Undelivered, First
<1>3. ASSUME NEW i \in 1 .. n PROVE e(i) \in Events
  <2>1. read + First + i - 1 \in Int
    BY <1>1
  <2>2. Slot(read + First + i - 1) \in 0 .. Size - 1
    BY <2>1, SlotType
  <2>3. QED
    BY <2>2 DEF QueueInv, TypeOK
<1> HIDE DEF n, e
<1>4. [i \in 1 .. n |-> e(i)] \in Seq(Events)
  BY <1>1, <1>3
<1>5. Len([i \in 1 .. n |-> e(i)]) = n
  BY <1>1
<1>6. QED
  BY <1>2, <1>4, <1>5 DEF WaitingOK, n, e

(* The same after a step. *)
LEMMA WaitingAfter == QueueInv' => WaitingOK'
  BY WaitingEvents, PTL

(* The slot behind the published ones is none of them. *)
LEMMA Private ==
  ASSUME QueueInv, Count < Size
  PROVE  \A i \in 0 .. Count - 1 : Slot(read + i) # Slot(write)
<1> SUFFICES ASSUME NEW i \in 0 .. Count - 1 PROVE Slot(read + i) # Slot(write)
  OBVIOUS
<1> DEFINE x == read + i
           d == Count - i
<1>1. /\ Count \in Nat /\ Size \in Nat /\ read \in Nat
      /\ Slot(read + Count) = Slot(write)
  BY Counted, QueueAssumption DEF QueueInv, TypeOK
<1>2. x \in Int /\ d \in 1 .. Size - 1 /\ x + d = read + Count
  BY <1>1
<1> HIDE DEF x, d
<1>3. Slot(x + d) # Slot(x)
  BY <1>2, SlotsDiffer
<1>4. QED
  BY <1>1, <1>2, <1>3 DEF x

(* No step but these changes what waits. *)
LEMMA SameWaiting ==
  ASSUME UNCHANGED <<slots, write, read>>, First' = First
  PROVE  Undelivered' = Undelivered /\ Count' = Count
<1>1. Count' = Count
  BY DEF Count
<1>2. Undelivered' = Undelivered
  BY <1>1, Zenon DEF Undelivered, First
<1>3. QED
  BY <1>1, <1>2

(* Two sequences of events that agree are the same. *)
LEMMA SameEvents ==
  ASSUME NEW s \in Seq(Events), NEW t \in Seq(Events), Len(s) = Len(t),
         \A i \in 1 .. Len(s) : s[i] = t[i]
  PROVE  s = t
  BY SeqEqual

(* Filling a private slot does not. *)
LEMMA PutWaiting ==
  ASSUME QueueInv, QueueInv', Count < Size, NEW e,
         slots' = [slots EXCEPT ![Slot(write)] = e],
         UNCHANGED <<write, read>>, First' = First
  PROVE  Undelivered' = Undelivered
<1>1. Count' = Count
  BY DEF Count
<1>2. /\ Undelivered \in Seq(Events) /\ Len(Undelivered) = Count - First
      /\ \A i \in 1 .. Count - First :
           Undelivered[i] = slots[Slot(read + First + i - 1)]
  BY WaitingEvents, WaitingAfter DEF WaitingOK
<1>3. /\ Undelivered' \in Seq(Events) /\ Len(Undelivered') = Count - First
      /\ \A i \in 1 .. Count - First :
           Undelivered'[i] = slots'[Slot(read + First + i - 1)]
  BY <1>1, WaitingEvents, WaitingAfter DEF WaitingOK
<1>4. Count \in Nat /\ First \in {0, 1} /\ First <= Count /\ read \in Nat
  BY Counted, QueueAssumption DEF QueueInv, TypeOK
<1>5. ASSUME NEW i \in 1 .. Count - First
      PROVE  Undelivered'[i] = Undelivered[i]
  <2> DEFINE k == First + i - 1
  <2>1. k \in 0 .. Count - 1 /\ read + First + i - 1 = read + k
    BY <1>4
  <2> HIDE DEF k
  <2>2. Slot(read + k) # Slot(write)
    BY <2>1, Private
  <2>3. Slot(read + k) \in 0 .. Size - 1
    BY <1>4, <2>1, SlotType
  <2>4. slots'[Slot(read + k)] = slots[Slot(read + k)]
    BY <2>2, <2>3 DEF QueueInv, TypeOK
  <2>5. QED
    BY <1>2, <1>3, <2>1, <2>4
<1>6. QED
  BY <1>2, <1>3, <1>5, SameEvents

(* A published event comes last. *)
LEMMA PublishWaiting ==
  ASSUME QueueInv, QueueInv', NEW e \in Events, slots[Slot(write)] = e,
         UNCHANGED <<slots, read>>, Count' = Count + 1, First' = First
  PROVE  Undelivered' = Append(Undelivered, e)
<1>1. /\ Undelivered \in Seq(Events) /\ Len(Undelivered) = Count - First
      /\ \A i \in 1 .. Count - First :
           Undelivered[i] = slots[Slot(read + First + i - 1)]
  BY WaitingEvents, WaitingAfter DEF WaitingOK
<1>2. /\ Undelivered' \in Seq(Events) /\ Len(Undelivered') = Count + 1 - First
      /\ \A i \in 1 .. Count + 1 - First :
           Undelivered'[i] = slots[Slot(read + First + i - 1)]
  <2>1. /\ Undelivered' \in Seq(Events) /\ Len(Undelivered') = Count' - First'
        /\ \A i \in 1 .. Count' - First' :
             Undelivered'[i] = slots'[Slot(read' + First' + i - 1)]
    BY WaitingAfter DEF WaitingOK
  <2>2. Count' - First' = Count + 1 - First
    BY Counted
  <2>3. QED
    BY <2>1, <2>2, Zenon
<1>3. /\ Count \in Nat /\ First \in {0, 1} /\ First <= Count /\ read \in Nat
      /\ Slot(read + Count) = Slot(write)
  BY Counted, QueueAssumption DEF QueueInv, TypeOK
<1> DEFINE n == Count - First
           u == Append(Undelivered, e)
<1>4. /\ n \in Nat /\ u \in Seq(Events) /\ Len(u) = n + 1 /\ u[n + 1] = e
      /\ \A i \in 1 .. n : u[i] = Undelivered[i]
  BY <1>1, <1>3
<1>5. Undelivered'[n + 1] = e
  <2>1. n + 1 \in 1 .. Count + 1 - First /\ read + First + (n + 1) - 1 = read + Count
    BY <1>3
  <2>2. QED
    BY <1>2, <1>3, <2>1
<1>6. \A i \in 1 .. n : Undelivered'[i] = Undelivered[i]
  BY <1>1, <1>2, <1>3
<1>7. Len(Undelivered') = n + 1
  BY <1>2, <1>3
<1> HIDE DEF n, u
<1>8. \A i \in 1 .. Len(Undelivered') : Undelivered'[i] = u[i]
  BY <1>4, <1>5, <1>6, <1>7
<1>9. QED
  BY <1>2, <1>4, <1>7, <1>8, SameEvents DEF u

(* An accepted event was the first. *)
LEMMA AcceptWaiting ==
  ASSUME QueueInv, QueueInv', First = 0, First' = 1, Count >= 1,
         UNCHANGED <<slots, read, write>>
  PROVE  /\ Undelivered # <<>> /\ Head(Undelivered) = slots[Slot(read)]
         /\ Undelivered' = Tail(Undelivered)
<1>1. Count' = Count /\ Count \in Nat /\ read \in Nat
  BY Counted, QueueAssumption DEF Count, QueueInv, TypeOK
<1>2. /\ Undelivered \in Seq(Events) /\ Len(Undelivered) = Count
      /\ \A i \in 1 .. Count : Undelivered[i] = slots[Slot(read + i - 1)]
  <2>1. \A i \in 1 .. Count - First :
           Undelivered[i] = slots[Slot(read + First + i - 1)]
    BY WaitingEvents, WaitingAfter DEF WaitingOK
  <2>2. \A i \in Int : read + First + i - 1 = read + i - 1
    BY <1>1
  <2>3. QED
    BY <1>1, <2>1, <2>2, WaitingEvents, WaitingAfter DEF WaitingOK
<1>3. /\ Undelivered' \in Seq(Events) /\ Len(Undelivered') = Count - 1
      /\ \A i \in 1 .. Count - 1 : Undelivered'[i] = slots[Slot(read + i)]
  <2>1. \A i \in 1 .. Count' - First' :
           Undelivered'[i] = slots'[Slot(read' + First' + i - 1)]
    BY WaitingEvents, WaitingAfter DEF WaitingOK
  <2>2. \A i \in Int : read + 1 + i - 1 = read + i
    BY <1>1
  <2>3. \A i \in 1 .. Count - 1 : Undelivered'[i] = slots[Slot(read + i)]
    BY <1>1, <2>1, <2>2
  <2>4. QED
    BY <1>1, <2>3, WaitingEvents, WaitingAfter DEF WaitingOK
<1>4. /\ Undelivered # <<>> /\ Head(Undelivered) = Undelivered[1]
      /\ Tail(Undelivered) \in Seq(Events)
      /\ Len(Tail(Undelivered)) = Count - 1
      /\ \A i \in 1 .. Count - 1 : Tail(Undelivered)[i] = Undelivered[i + 1]
  BY <1>1, <1>2
<1>5. Undelivered[1] = slots[Slot(read)]
  <2>1. read + 1 - 1 = read /\ 1 \in 1 .. Count
    BY <1>1
  <2>2. QED
    BY <1>2, <2>1
<1>6. ASSUME NEW i \in 1 .. Count - 1
      PROVE  Undelivered'[i] = Tail(Undelivered)[i]
  <2>1. i + 1 \in 1 .. Count /\ read + (i + 1) - 1 = read + i
    BY <1>1
  <2>2. Undelivered[i + 1] = slots[Slot(read + i)]
    BY <1>2, <2>1
  <2>3. QED
    BY <1>3, <1>4, <2>2
<1>7. QED
  BY <1>3, <1>4, <1>5, <1>6, SameEvents

(* Freeing the slot of an accepted event does not change what waits. *)
LEMMA AdvanceWaiting ==
  ASSUME QueueInv, QueueInv', First = 1, First' = 0, Count' = Count - 1,
         read' = Succ(read), UNCHANGED <<slots, write>>
  PROVE  Undelivered' = Undelivered
<1>1. Count \in Nat /\ read \in 0 .. Wrap - 1 /\ Wrap \in Nat
  BY Counted, QueueAssumption DEF QueueInv, TypeOK
<1>2. /\ Undelivered \in Seq(Events) /\ Len(Undelivered) = Count - 1
      /\ \A i \in 1 .. Count - 1 : Undelivered[i] = slots[Slot(read + i)]
  <2>1. \A i \in 1 .. Count - First :
           Undelivered[i] = slots[Slot(read + First + i - 1)]
    BY WaitingEvents, WaitingAfter DEF WaitingOK
  <2>2. \A i \in Int : read + First + i - 1 = read + i
    BY <1>1
  <2>3. QED
    BY <1>1, <2>1, <2>2, WaitingEvents, WaitingAfter DEF WaitingOK
<1>3. \A i \in Nat : i >= 1 => Slot(read' + i - 1) = Slot(read + i)
  <2> SUFFICES ASSUME NEW i \in Nat, i >= 1
               PROVE  Slot(read' + i - 1) = Slot(read + i)
    OBVIOUS
  <2>1. CASE read = Wrap - 1
    <3>1. read' = 0 /\ read + i = (i - 1) + Wrap /\ read' + i - 1 = i - 1
      BY <1>1, <2>1, Successor
    <3>2. Slot((i - 1) + Wrap) = Slot(i - 1)
      BY SlotWraps
    <3>3. QED
      BY <3>1, <3>2
  <2>2. CASE read # Wrap - 1
    <3>1. read' + i - 1 = read + i
      BY <1>1, <2>2, Successor
    <3>2. QED
      BY <3>1
  <2>3. QED
    BY <2>1, <2>2
<1>4. /\ Undelivered' \in Seq(Events) /\ Len(Undelivered') = Count - 1
      /\ \A i \in 1 .. Count - 1 : Undelivered'[i] = slots[Slot(read + i)]
  <2>1. \A i \in 1 .. Count' - First' :
           Undelivered'[i] = slots'[Slot(read' + First' + i - 1)]
    BY WaitingEvents, WaitingAfter DEF WaitingOK
  <2>2. read' \in Nat
    BY <1>1, Successor
  <2>3. \A i \in Int : read' + First' + i - 1 = read' + i - 1
    BY <2>2
  <2>4. \A i \in 1 .. Count - 1 : Undelivered'[i] = slots[Slot(read' + i - 1)]
    BY <1>1, <2>1, <2>3
  <2>5. \A i \in 1 .. Count - 1 : Undelivered'[i] = slots[Slot(read + i)]
    BY <1>1, <1>3, <2>4
  <2>6. QED
    BY <1>1, <2>5, WaitingEvents, WaitingAfter DEF WaitingOK
<1>5. QED
  BY <1>2, <1>4, SameEvents

-----------------------------------------------------------------------------
(* Every step keeps the invariant of the queue. *)

(* What the kinds ask for. *)
LEMMA Reserves ==
  ASSUME NEW e \in Events
  PROVE  /\ e.kind \in {"begin", "value", "end"}
         /\ e.index \in Params /\ e.index # NoParam /\ e.value \in Levels
         /\ Reserve("end") = 1 /\ Reserve(e.kind) \in 1 .. 3
         /\ e.kind = "begin" => Reserve(e.kind) = 3
         /\ e.kind = "value" => Reserve(e.kind) = 2
         /\ e.kind = "end" => Reserve(e.kind) = 1
<1>1. e.kind \in {"begin", "value", "end"} /\ e.index \in Params
      /\ e.value \in Levels
  BY DEF Events
<1>2. e.index # NoParam
  BY <1>1, QueueAssumption
<1>3. QED
  BY <1>1, <1>2 DEF Reserve

(* The edit under way. *)
LEMMA Current ==
  ASSUME QueueInv, todo # <<>>
  PROVE  /\ Head(todo) \in Events /\ Tail(todo) \in Seq(Events)
         /\ Len(todo) \in {1, 2} /\ Len(Tail(todo)) = Len(todo) - 1
         /\ Tail(todo) # <<>> => /\ Head(Tail(todo)) = todo[2]
                                 /\ Len(todo) = 2
<1>1. todo \in Seq(Events) /\ Len(todo) <= 2
  BY DEF QueueInv, TypeOK, TodoFits
<1>2. Head(todo) \in Events /\ Tail(todo) \in Seq(Events)
  BY <1>1
<1>3. Len(todo) \in {1, 2} /\ Len(Tail(todo)) = Len(todo) - 1
  <2>1. Len(todo) \in Nat \ {0}
    BY <1>1, EmptySeq
  <2>2. Len(Tail(todo)) = Len(todo) - 1
    BY <1>1, HeadTailProperties
  <2>3. QED
    BY <1>1, <2>1, <2>2
<1>4. ASSUME Tail(todo) # <<>> PROVE Head(Tail(todo)) = todo[2] /\ Len(todo) = 2
  <2>1. Len(Tail(todo)) # 0
    BY <1>2, <1>4, EmptySeq
  <2>2. Len(todo) = 2
    BY <1>3, <2>1
  <2>3. Tail(todo)[1] = todo[2]
    BY <1>1, <2>2
  <2>4. Head(Tail(todo)) = Tail(todo)[1]
    BY <1>2, <1>4
  <2>5. QED
    BY <2>2, <2>3, <2>4
<1>5. QED
  BY <1>2, <1>3, <1>4

(* An edit that is over leaves a list that fits. *)
LEMMA RestFits ==
  ASSUME QueueInv, todo # <<>>, todo' = Tail(todo), gpc' = "idle",
         Head(todo).kind = "end" => active' = NoParam
  PROVE  todo' \in Seq(Events) /\ TodoFits'
<1>1. /\ Head(todo) \in Events /\ Tail(todo) \in Seq(Events)
      /\ Len(todo) \in {1, 2} /\ Len(Tail(todo)) = Len(todo) - 1
      /\ Tail(todo) # <<>> => /\ Head(Tail(todo)) = todo[2]
                              /\ Len(todo) = 2
  BY Current
<1>2. CASE Tail(todo) = <<>>
  <2>1. Len(todo') = 0
    BY <1>2
  <2>2. QED
    BY <1>1, <1>2, <2>1 DEF TodoFits
<1>3. CASE Tail(todo) # <<>>
  <2> DEFINE t == Tail(todo)
  <2>1. Head(todo).kind \in {"begin", "value", "end"}
    BY <1>1, Reserves
  <2>2. Head(todo).kind = "end" /\ todo[2].kind = "begin"
    BY <1>1, <1>3, <2>1 DEF QueueInv, TodoFits
  <2>3. Len(t) = 1 /\ Head(t).kind = "begin" /\ active' = NoParam
    BY <1>1, <1>3, <2>2
  <2>4. todo' = t
    OBVIOUS
  <2> HIDE DEF t
  <2>5. QED
    BY <1>1, <2>3, <2>4 DEF TodoFits
<1>4. QED
  BY <1>2, <1>3

(* The audio side does not disturb what the editor holds, and the other    *)
(* way round.                                                              *)
LEMMA TodoFrame ==
  ASSUME QueueInv, UNCHANGED <<todo, active, gpc>>
  PROVE  TodoFits'
  BY DEF QueueInv, TodoFits

LEMMA OfferFrame ==
  ASSUME QueueInv, UNCHANGED <<end, read, apc>>, Count' >= Count, Count' \in Nat
  PROVE  OfferHeld'
<1>1. (end' - read' + Wrap) % Wrap = (end - read + Wrap) % Wrap
  OBVIOUS
<1>2. Count \in Nat
  BY Counted
<1>3. (end - read + Wrap) % Wrap \in Int
  <2>1. end \in 0 .. Wrap - 1 /\ read \in 0 .. Wrap - 1 /\ Wrap \in Nat
    BY QueueAssumption DEF QueueInv, TypeOK
  <2>2. QED
    BY <2>1, Subtraction
<1>4. QED
  BY <1>1, <1>2, <1>3 DEF QueueInv, OfferHeld

(* The editor's calls make lists that fit. *)
LEMMA UserStep ==
  ASSUME QueueInv, User
  PROVE  /\ QueueInv' /\ Undelivered' = Undelivered
         /\ UNCHANGED <<target, told, active, open, gpc, slots, write, read>>
         /\ gpc = "idle"
<1>1. /\ UNCHANGED <<slots, write, read, target, active, gpc, audio, host>>
      /\ gpc = "idle" /\ todo = <<>>
  BY DEF User, Begin, Value, End, Idle
<1>2. UNCHANGED <<apc, end, open, told>> /\ First' = First
  BY <1>1 DEF audio, host, First
<1>3. Undelivered' = Undelivered /\ Count' = Count
  BY <1>1, <1>2, SameWaiting
<1>4. /\ target \in [Params -> Levels] /\ active \in Params \cup {NoParam}
      /\ NoParam \notin Params
  BY QueueAssumption DEF QueueInv, TypeOK
<1>5. todo' \in Seq(Events) /\ TodoFits'
  <2>1. CASE \E p \in Params : Begin(p)
    <3>1. PICK p \in Params :
            todo' = Ending \o <<Edit("begin", p, target[p])>>
      BY <2>1 DEF Begin
    <3> DEFINE b == Edit("begin", p, target[p])
               z == Edit("end", active, target[active])
    <3>2. b \in Events /\ b.kind = "begin"
      BY <1>4 DEF Edit, Events
    <3>3. CASE active = NoParam
      <4>1. todo' = <<b>>
        <5>1. Ending = <<>> /\ <<b>> \in Seq(Events)
          BY <3>2, <3>3 DEF Ending
        <5> HIDE DEF b
        <5>2. <<>> \o <<b>> = <<b>>
          BY <5>1, ConcatEmptySeq
        <5>3. QED
          BY <3>1, <5>1, <5>2 DEF b
      <4> HIDE DEF b
      <4>2. Head(<<b>>) = b /\ Len(<<b>>) = 1 /\ <<b>> \in Seq(Events)
        BY <3>2
      <4>3. QED
        BY <1>1, <3>2, <3>3, <4>1, <4>2 DEF TodoFits
    <3>4. CASE active # NoParam
      <4>1. z \in Events /\ z.kind = "end" /\ z.index = active
        BY <1>4, <3>4 DEF Edit, Events
      <4>2. todo' = <<z>> \o <<b>>
        BY <3>1, <3>4 DEF Ending
      <4> HIDE DEF b, z
      <4>3. /\ <<z>> \in Seq(Events) /\ Len(<<z>>) = 1 /\ <<z>>[1] = z
            /\ <<b>> \in Seq(Events) /\ Len(<<b>>) = 1 /\ <<b>>[1] = b
        BY <3>2, <4>1
      <4>4. /\ todo' \in Seq(Events) /\ Len(todo') = 2
            /\ todo'[1] = z /\ todo'[2] = b
        <5> DEFINE x == <<z>>
                   y == <<b>>
        <5>1. /\ x \in Seq(Events) /\ Len(x) = 1 /\ x[1] = z
              /\ y \in Seq(Events) /\ Len(y) = 1 /\ y[1] = b
              /\ todo' = x \o y
          BY <4>2, <4>3
        <5> HIDE DEF x, y
        <5>2. QED
          BY <5>1, ConcatProperties
      <4>5. todo' # <<>> /\ Head(todo') = z
        BY <4>4
      <4>6. QED
        BY <1>1, <3>2, <4>1, <4>4, <4>5 DEF TodoFits
    <3>5. QED
      BY <3>3, <3>4
  <2>2. CASE (\E v \in Levels : Value(v)) \/ End
    <3>1. PICK e \in Events : /\ todo' = <<e>> /\ e.kind \in {"value", "end"}
                              /\ e.index = active
      <4>1. CASE End
        <5> DEFINE e == Edit("end", active, target[active])
        <5>1. active # NoParam /\ todo' = <<e>>
          BY <4>1 DEF End, Ending
        <5>2. e \in Events /\ e.kind = "end" /\ e.index = active
          BY <1>4, <5>1 DEF Edit, Events
        <5> HIDE DEF e
        <5>3. QED
          BY <5>1, <5>2
      <4>2. CASE \E v \in Levels : Value(v)
        <5>1. PICK v \in Levels : active # NoParam
                                  /\ todo' = <<Edit("value", active, v)>>
          BY <4>2 DEF Value
        <5> DEFINE e == Edit("value", active, v)
        <5>2. e \in Events /\ e.kind = "value" /\ e.index = active
          BY <1>4, <5>1 DEF Edit, Events
        <5>3. todo' = <<e>>
          BY <5>1
        <5> HIDE DEF e
        <5>4. QED
          BY <5>2, <5>3
      <4>3. QED
        BY <2>2, <4>1, <4>2
    <3>2. Head(<<e>>) = e /\ Len(<<e>>) = 1 /\ <<e>> \in Seq(Events)
      BY <3>1
    <3>3. QED
      BY <1>1, <3>1, <3>2 DEF TodoFits
  <2>3. QED
    BY <2>1, <2>2 DEF User
<1>6. TypeOK'
  BY <1>1, <1>2, <1>5 DEF QueueInv, TypeOK
<1>7. RoomHeld'
  BY <1>1, <1>3 DEF QueueInv, RoomHeld
<1>8. OfferHeld'
  BY <1>1, <1>2, <1>3, Counted, OfferFrame
<1>9. QED
  BY <1>1, <1>2, <1>3, <1>5, <1>6, <1>7, <1>8 DEF QueueInv

(* An edit that does not fit is dropped, which never happens to an end. *)
LEMMA RoomStep ==
  ASSUME QueueInv, Room
  PROVE  /\ QueueInv' /\ Undelivered' = Undelivered
         /\ UNCHANGED <<target, told, active, open>>
         /\ gpc = "idle" /\ todo # <<>>
         /\ gpc' = "put" => todo' = todo /\ Head(todo).kind # "value"
         /\ gpc' # "publish"
<1> DEFINE e == Head(todo)
<1>1. /\ UNCHANGED <<slots, write, read, target, audio, host>>
      /\ gpc = "idle" /\ todo # <<>>
  BY DEF Room
<1>2. UNCHANGED <<apc, end, open, told>> /\ First' = First
  BY <1>1 DEF audio, host, First
<1>3. Undelivered' = Undelivered /\ Count' = Count
  BY <1>1, <1>2, SameWaiting
<1>4. /\ e \in Events /\ e.kind \in {"begin", "value", "end"}
      /\ Reserve(e.kind) \in 1 .. 3 /\ Reserve("end") = 1
      /\ e.index # NoParam
  BY <1>1, Current, Reserves
<1>5. Count \in Nat /\ Size \in Nat
  BY Counted
<1>6. CASE FreeSlots < Reserve(e.kind)
  <2>1. todo' = Tail(todo) /\ active' = ActiveAfter(e, FALSE) /\ gpc' = "idle"
    BY <1>1, <1>6 DEF Room
  <2>2. e.kind # "end"
    <3> SUFFICES ASSUME e.kind = "end" PROVE FALSE
      OBVIOUS
    <3>1. active # NoParam
      BY <1>1, <1>4 DEF QueueInv, TodoFits
    <3>2. Count + 1 <= Size
      BY <1>4, <3>1 DEF QueueInv, RoomHeld
    <3>3. QED
      BY <1>4, <1>5, <1>6, <3>2 DEF FreeSlots
  <2>3. active' = active
    BY <2>1, <2>2 DEF ActiveAfter
  <2>4. todo' \in Seq(Events) /\ TodoFits'
    BY <1>1, <2>1, <2>2, RestFits
  <2>5. TypeOK'
    BY <1>1, <1>2, <2>1, <2>3, <2>4 DEF QueueInv, TypeOK
  <2>6. RoomHeld'
    BY <1>1, <1>3, <2>1, <2>3 DEF QueueInv, RoomHeld
  <2>7. OfferHeld'
    BY <1>1, <1>2, <1>3, <1>5, OfferFrame
  <2>8. QED
    BY <1>1, <1>2, <1>3, <2>1, <2>3, <2>4, <2>5, <2>6, <2>7 DEF QueueInv
<1>7. CASE ~(FreeSlots < Reserve(e.kind))
  <2>1. /\ gpc' = IF e.kind = "value" THEN "request" ELSE "put"
        /\ UNCHANGED <<todo, active>>
    BY <1>1, <1>7 DEF Room
  <2>2. Count + Reserve(e.kind) <= Size
    BY <1>4, <1>5, <1>7 DEF FreeSlots
  <2>3. TypeOK'
    BY <1>1, <1>2, <2>1 DEF QueueInv, TypeOK
  <2>4. TodoFits'
    BY <1>1, <2>1 DEF QueueInv, TodoFits
  <2>5. RoomHeld'
    BY <1>1, <1>3, <2>1, <2>2 DEF QueueInv, RoomHeld
  <2>6. OfferHeld'
    BY <1>1, <1>2, <1>3, <1>5, OfferFrame
  <2>7. QED
    BY <1>1, <1>2, <1>3, <2>1, <2>3, <2>4, <2>5, <2>6 DEF QueueInv
<1>8. QED
  BY <1>6, <1>7

(* The processor takes a value or refuses it. *)
LEMMA RequestStep ==
  ASSUME QueueInv, Request
  PROVE  /\ QueueInv' /\ Undelivered' = Undelivered
         /\ UNCHANGED <<told, active, open>> /\ gpc = "request"
         /\ Head(todo) \in Events /\ Head(todo).kind = "value"
         /\ \/ /\ target' = [target EXCEPT ![Head(todo).index] = Head(todo).value]
               /\ gpc' = "put" /\ todo' = todo
            \/ gpc' = "idle" /\ target' = target
<1> DEFINE e == Head(todo)
<1>1. /\ UNCHANGED <<slots, write, read, active, audio, host>>
      /\ gpc = "request" /\ todo # <<>> /\ e.kind = "value"
  BY DEF Request, QueueInv, TodoFits
<1>2. UNCHANGED <<apc, end, open, told>> /\ First' = First
  BY <1>1 DEF audio, host, First
<1>3. Undelivered' = Undelivered /\ Count' = Count
  BY <1>1, <1>2, SameWaiting
<1>4. e \in Events /\ e.index \in Params /\ e.value \in Levels
  BY <1>1, Current, Reserves
<1>5. OfferHeld'
  BY <1>1, <1>2, <1>3, Counted, OfferFrame
<1>6. CASE /\ target' = [target EXCEPT ![e.index] = e.value]
           /\ gpc' = "put" /\ UNCHANGED todo
  <2>1. target' \in [Params -> Levels]
    BY <1>4, <1>6 DEF QueueInv, TypeOK
  <2>2. TypeOK'
    BY <1>1, <1>2, <1>6, <2>1 DEF QueueInv, TypeOK
  <2>3. TodoFits' /\ RoomHeld'
    BY <1>1, <1>3, <1>6 DEF QueueInv, TodoFits, RoomHeld
  <2>4. QED
    BY <1>1, <1>2, <1>3, <1>4, <1>5, <1>6, <2>2, <2>3 DEF QueueInv
<1>7. CASE gpc' = "idle" /\ todo' = Tail(todo) /\ UNCHANGED target
  <2>1. todo' \in Seq(Events) /\ TodoFits'
    BY <1>1, <1>7, RestFits
  <2>2. TypeOK'
    BY <1>1, <1>2, <1>7, <2>1 DEF QueueInv, TypeOK
  <2>3. RoomHeld'
    BY <1>1, <1>3, <1>7 DEF QueueInv, RoomHeld
  <2>4. QED
    BY <1>1, <1>2, <1>3, <1>4, <1>5, <1>7, <2>1, <2>2, <2>3 DEF QueueInv
<1>8. QED
  BY <1>6, <1>7 DEF Request

(* put() finds the room that gui_edit() found. *)
LEMMA PutStep ==
  ASSUME QueueInv, Put
  PROVE  /\ QueueInv' /\ Undelivered' = Undelivered
         /\ UNCHANGED <<target, told, active, open, todo>>
         /\ gpc = "put" /\ gpc' = "publish"
<1> DEFINE e == Head(todo)
<1>1. /\ UNCHANGED <<write, read, target, audio, host>>
      /\ gpc = "put" /\ todo # <<>>
  BY DEF Put, QueueInv, TodoFits
<1>2. UNCHANGED <<apc, end, open, told>> /\ First' = First /\ Count' = Count
  BY <1>1 DEF audio, host, First, Count
<1>3. e \in Events /\ Reserve(e.kind) \in 1 .. 3
  BY <1>1, Current, Reserves
<1>4. /\ Count \in Nat /\ Size \in Nat /\ Count + Reserve(e.kind) <= Size
      /\ write \in Int
  BY <1>1, Counted DEF QueueInv, RoomHeld, TypeOK
<1>5. ~(FreeSlots < Reserve(e.kind)) /\ Count < Size
  BY <1>3, <1>4 DEF FreeSlots
<1>6. /\ slots' = [slots EXCEPT ![Slot(write)] = e]
      /\ gpc' = "publish" /\ UNCHANGED <<todo, active>>
  BY <1>5 DEF Put
<1>7. Slot(write) \in 0 .. Size - 1
  BY <1>4, SlotType
<1>8. slots' \in [0 .. Size - 1 -> Events] /\ slots'[Slot(write)] = e
  BY <1>3, <1>6, <1>7 DEF QueueInv, TypeOK
<1>9. TypeOK'
  BY <1>1, <1>2, <1>6, <1>8 DEF QueueInv, TypeOK
<1>10. TodoFits'
  BY <1>1, <1>6 DEF QueueInv, TodoFits
<1>11. RoomHeld'
  BY <1>1, <1>2, <1>6, <1>8 DEF QueueInv, RoomHeld
<1>12. OfferHeld'
  BY <1>1, <1>2, <1>4, OfferFrame
<1>13. QueueInv'
  BY <1>9, <1>10, <1>11, <1>12 DEF QueueInv
<1>14. Undelivered' = Undelivered
  BY <1>1, <1>2, <1>5, <1>6, <1>13, PutWaiting
<1>15. QED
  BY <1>1, <1>2, <1>6, <1>13, <1>14

(* A published event takes the room that was kept for it, and no more. *)
LEMMA PublishStep ==
  ASSUME QueueInv, Publish
  PROVE  /\ QueueInv' /\ Undelivered' = Append(Undelivered, Head(todo))
         /\ UNCHANGED <<target, told, open>> /\ Head(todo) \in Events
         /\ gpc = "publish" /\ gpc' = "idle"
<1> DEFINE e == Head(todo)
<1>1. /\ UNCHANGED <<slots, read, target, audio, host>>
      /\ gpc = "publish" /\ todo # <<>> /\ write' = Succ(write)
      /\ active' = ActiveAfter(e, TRUE)
      /\ todo' = Tail(todo) /\ gpc' = "idle"
  BY DEF Publish, QueueInv, TodoFits
<1>2. UNCHANGED <<apc, end, open, told>> /\ First' = First
  BY <1>1 DEF audio, host, First
<1>3. /\ e \in Events /\ e.kind \in {"begin", "value", "end"}
      /\ e.index \in Params /\ e.index # NoParam
      /\ Reserve("end") = 1 /\ Reserve(e.kind) \in 1 .. 3
      /\ e.kind = "begin" => Reserve(e.kind) = 3
      /\ e.kind = "value" => Reserve(e.kind) = 2
  BY <1>1, Current, Reserves
<1>4. /\ write \in 0 .. Wrap - 1 /\ read \in 0 .. Wrap - 1 /\ Wrap \in Nat
      /\ Size \in Nat /\ Size < Wrap /\ Count \in Nat
      /\ Count + Reserve(e.kind) <= Size
      /\ Count = IF write >= read THEN write - read ELSE write - read + Wrap
  BY <1>1, Counted, QueueAssumption DEF QueueInv, RoomHeld, TypeOK
<1>5. write' \in 0 .. Wrap - 1 /\ Count' = Count + 1
  <2>1. write' = IF write = Wrap - 1 THEN 0 ELSE write + 1
    BY <1>1, <1>4, Successor
  <2>2. Count' = IF write' >= read THEN write' - read ELSE write' - read + Wrap
    <3>1. write' \in 0 .. Wrap - 1
      BY <1>4, <2>1
    <3>2. Count' = (write' - read + Wrap) % Wrap
      BY <1>1 DEF Count
    <3>3. QED
      BY <1>4, <3>1, <3>2, Subtraction
  <2>3. QED
    BY <1>3, <1>4, <2>1, <2>2
<1>6. /\ e.kind = "end" => active' = NoParam
      /\ e.kind = "begin" => active' = e.index
      /\ e.kind = "value" => active' = e.index
  BY <1>1, <1>3 DEF ActiveAfter, QueueInv, TodoFits
<1>7. todo' \in Seq(Events) /\ TodoFits'
  BY <1>1, <1>6, RestFits
<1>8. TypeOK'
  BY <1>1, <1>2, <1>3, <1>5, <1>6, <1>7 DEF QueueInv, TypeOK
<1>9. RoomHeld'
  <2>1. Count' <= Size
    BY <1>3, <1>4, <1>5
  <2>2. active' # NoParam => Count' + Reserve("end") <= Size
    BY <1>3, <1>4, <1>5, <1>6
  <2>3. QED
    BY <1>1, <2>1, <2>2 DEF RoomHeld
<1>10. OfferHeld'
  BY <1>1, <1>2, <1>4, <1>5, OfferFrame
<1>11. QueueInv'
  BY <1>7, <1>8, <1>9, <1>10 DEF QueueInv
<1>12. slots[Slot(write)] = e
  BY <1>1 DEF QueueInv, RoomHeld
<1>13. Undelivered' = Append(Undelivered, e)
  BY <1>1, <1>2, <1>3, <1>5, <1>11, <1>12, PublishWaiting
<1>14. QED
  BY <1>1, <1>2, <1>3, <1>11, <1>13

(* What output_ui() will offer is what is published when it starts. *)
LEMMA OutputStep ==
  ASSUME QueueInv, Output
  PROVE  /\ QueueInv' /\ Undelivered' = Undelivered
         /\ UNCHANGED <<target, told, active, open, todo, gpc>>
<1>1. /\ UNCHANGED <<slots, write, read, target, gui, host>>
      /\ apc = "idle" /\ end' = write /\ apc' = "offer"
  BY DEF Output
<1>2. UNCHANGED <<active, todo, gpc, open, told>> /\ First' = First
  BY <1>1 DEF gui, host, First
<1>3. Undelivered' = Undelivered /\ Count' = Count
  BY <1>1, <1>2, SameWaiting
<1>4. TypeOK' /\ TodoFits' /\ RoomHeld'
  BY <1>1, <1>2, <1>3 DEF QueueInv, TypeOK, TodoFits, RoomHeld
<1>5. (end' - read' + Wrap) % Wrap = Count /\ Count \in Nat
  BY <1>1, Counted DEF Count
<1>6. OfferHeld'
  BY <1>1, <1>3, <1>5 DEF OfferHeld
<1>7. QED
  BY <1>1, <1>2, <1>3, <1>4, <1>6 DEF QueueInv

(* An event that is offered is published. *)
LEMMA AcceptStep ==
  ASSUME QueueInv, Accept
  PROVE  /\ QueueInv' /\ UNCHANGED <<target, active, todo, gpc>>
         /\ Undelivered # <<>> /\ Undelivered' = Tail(Undelivered)
         /\ LET e == Head(Undelivered) IN
              /\ open' = CASE e.kind = "begin" -> e.index
                           [] e.kind = "value" -> open
                           [] e.kind = "end" -> NoParam
              /\ told' = IF e.kind = "value"
                         THEN [told EXCEPT ![e.index] = e.value] ELSE told
<1> DEFINE e == slots[Slot(read)]
<1>1. /\ UNCHANGED <<slots, write, read, target, gui, end>>
      /\ apc = "offer" /\ read # end /\ apc' = "accepted"
      /\ open' = CASE e.kind = "begin" -> e.index
                   [] e.kind = "value" -> open
                   [] e.kind = "end" -> NoParam
      /\ told' = IF e.kind = "value" THEN [told EXCEPT ![e.index] = e.value]
                 ELSE told
  BY Zenon DEF Accept
<1>2. /\ UNCHANGED <<active, todo, gpc>> /\ First = 0 /\ First' = 1
      /\ Count' = Count
  BY <1>1 DEF gui, First, Count
<1>3. /\ read \in 0 .. Wrap - 1 /\ end \in 0 .. Wrap - 1 /\ Wrap \in Nat
      /\ Count \in Nat
  BY Counted, QueueAssumption DEF QueueInv, TypeOK
<1>4. (end - read + Wrap) % Wrap <= Count
  BY <1>1 DEF QueueInv, OfferHeld
<1>5. Count >= 1
  <2>1. (end - read + Wrap) % Wrap
           = IF end >= read THEN end - read ELSE end - read + Wrap
    BY <1>3, Subtraction
  <2>2. read # end
    BY <1>1
  <2>3. QED
    BY <1>3, <1>4, <2>1, <2>2
<1>6. e \in Events /\ e.kind \in {"begin", "value", "end"}
      /\ e.index \in Params /\ e.value \in Levels
  <2>1. Slot(read) \in 0 .. Size - 1
    BY <1>3, SlotType
  <2>2. e \in Events
    BY <2>1 DEF QueueInv, TypeOK
  <2>3. QED
    BY <2>2, Reserves
<1>7. TypeOK'
  <2>1. open' \in Params \cup {NoParam}
    <3>1. open \in Params \cup {NoParam}
      BY DEF QueueInv, TypeOK
    <3>2. QED
      BY <1>1, <1>6, <3>1
  <2>2. told' \in [Params -> Levels]
    <3>1. told \in [Params -> Levels]
      BY DEF QueueInv, TypeOK
    <3>2. QED
      BY <1>1, <1>6, <3>1
  <2>3. QED
    BY <1>1, <1>2, <2>1, <2>2 DEF QueueInv, TypeOK
<1>8. TodoFits' /\ RoomHeld'
  BY <1>1, <1>2 DEF QueueInv, TodoFits, RoomHeld
<1>9. OfferHeld'
  BY <1>1, <1>2, <1>4 DEF OfferHeld
<1>10. QueueInv'
  BY <1>7, <1>8, <1>9 DEF QueueInv
<1>11. /\ Undelivered # <<>> /\ Head(Undelivered) = e
       /\ Undelivered' = Tail(Undelivered)
  BY <1>1, <1>2, <1>5, <1>10, AcceptWaiting
<1>12. QED
  BY <1>1, <1>2, <1>10, <1>11

(* The freed slot is counted once. *)
LEMMA AdvanceStep ==
  ASSUME QueueInv, Advance
  PROVE  /\ QueueInv' /\ Undelivered' = Undelivered
         /\ UNCHANGED <<target, told, active, open, todo, gpc>>
<1>1. /\ UNCHANGED <<slots, write, target, gui, end, host>>
      /\ apc = "accepted" /\ read' = Succ(read) /\ apc' = "offer"
  BY DEF Advance
<1>2. UNCHANGED <<active, todo, gpc, open, told>> /\ First = 1 /\ First' = 0
  BY <1>1 DEF gui, host, First
<1>3. /\ write \in 0 .. Wrap - 1 /\ read \in 0 .. Wrap - 1
      /\ end \in 0 .. Wrap - 1 /\ Wrap \in Nat
      /\ Count \in Nat /\ 1 <= Count /\ Count <= Size /\ Size \in Nat /\ Size < Wrap
      /\ Count = IF write >= read THEN write - read ELSE write - read + Wrap
  BY <1>2, Counted, QueueAssumption DEF QueueInv, TypeOK
<1>4. /\ read' = IF read = Wrap - 1 THEN 0 ELSE read + 1
      /\ read' \in 0 .. Wrap - 1
  <2>1. read' = IF read = Wrap - 1 THEN 0 ELSE read + 1
    BY <1>1, <1>3, Successor
  <2>2. QED
    BY <1>3, <2>1
<1>5. Count' = Count - 1
  <2>1. Count' = (write - read' + Wrap) % Wrap
    BY <1>1 DEF Count
  <2>2. Count' = IF write >= read' THEN write - read' ELSE write - read' + Wrap
    BY <1>3, <1>4, <2>1, Subtraction
  <2>3. QED
    BY <1>3, <1>4, <2>2
<1>6. TypeOK'
  BY <1>1, <1>2, <1>4 DEF QueueInv, TypeOK
<1>7. TodoFits'
  BY <1>2 DEF QueueInv, TodoFits
<1>8. RoomHeld'
  <2>1. active # NoParam => Count' + Reserve("end") <= Size
    <3>1. Reserve("end") = 1
      BY DEF Reserve
    <3>2. QED
      BY <1>3, <1>5, <3>1 DEF QueueInv, RoomHeld
  <2>2. gpc # "idle" => Count' + Reserve(Head(todo).kind) <= Size
    <3> SUFFICES ASSUME gpc # "idle"
                 PROVE  Count' + Reserve(Head(todo).kind) <= Size
      OBVIOUS
    <3>1. Reserve(Head(todo).kind) \in 1 .. 3
      BY Current, Reserves DEF QueueInv, TodoFits
    <3>2. Count + Reserve(Head(todo).kind) <= Size
      BY DEF QueueInv, RoomHeld
    <3>3. QED
      BY <1>3, <1>5, <3>1, <3>2
  <2>3. QED
    BY <1>1, <1>2, <1>3, <1>5, <2>1, <2>2 DEF QueueInv, RoomHeld
<1>9. OfferHeld'
  <2>1. (end - read + Wrap) % Wrap <= Count /\ read # end
    BY <1>1 DEF QueueInv, OfferHeld
  <2>2. (end - read + Wrap) % Wrap
           = IF end >= read THEN end - read ELSE end - read + Wrap
    BY <1>3, Subtraction
  <2>3. (end - read' + Wrap) % Wrap
           = IF end >= read' THEN end - read' ELSE end - read' + Wrap
    BY <1>3, <1>4, Subtraction
  <2>4. (end - read' + Wrap) % Wrap <= Count - 1
    BY <1>3, <1>4, <2>1, <2>2, <2>3
  <2>5. QED
    BY <1>1, <1>5, <2>4 DEF OfferHeld
<1>10. QueueInv'
  BY <1>6, <1>7, <1>8, <1>9 DEF QueueInv
<1>11. Undelivered' = Undelivered
  BY <1>1, <1>2, <1>5, <1>10, AdvanceWaiting
<1>12. QED
  BY <1>1, <1>2, <1>10, <1>11

(* The call ends, or nothing happens. *)
LEMMA QuietStep ==
  ASSUME QueueInv, OutputEnd \/ UNCHANGED vars
  PROVE  /\ QueueInv' /\ Undelivered' = Undelivered
         /\ UNCHANGED <<target, told, active, open, todo, gpc>>
<1>1. /\ UNCHANGED <<slots, write, read, target, end, active, todo, gpc, open, told>>
      /\ (apc = "offer" /\ apc' = "idle") \/ apc' = apc
  BY DEF OutputEnd, vars, gui, audio, host
<1>2. First' = First
  BY <1>1 DEF First
<1>3. Undelivered' = Undelivered /\ Count' = Count
  BY <1>1, <1>2, SameWaiting
<1>4. TypeOK' /\ TodoFits' /\ RoomHeld'
  BY <1>1, <1>3 DEF QueueInv, TypeOK, TodoFits, RoomHeld
<1>5. OfferHeld'
  BY <1>1, <1>3 DEF QueueInv, OfferHeld
<1>6. QED
  BY <1>1, <1>3, <1>4, <1>5 DEF QueueInv

-----------------------------------------------------------------------------
(* The invariant of the queue holds. *)

(* No slot is filled at first. *)
LEMMA InitQueue ==
  ASSUME Init
  PROVE  QueueInv /\ Undelivered = <<>>
<1>1. /\ write = 0 /\ read = 0 /\ end = 0 /\ todo = <<>> /\ gpc = "idle"
      /\ apc = "idle" /\ active = NoParam /\ open = NoParam
      /\ target = [p \in Params |-> Initial] /\ told = target
  BY DEF Init
<1>2. Wrap \in Nat /\ Wrap > 0 /\ Size \in Nat /\ Initial \in Levels
      /\ Params # {}
  BY QueueAssumption
<1>3. Count = 0
  <2>1. 0 \in 0 .. Wrap - 1
    BY <1>2
  <2>2. (0 - 0 + Wrap) % Wrap = 0 - 0
    BY <2>1, Subtraction
  <2>3. QED
    BY <1>1, <2>2 DEF Count
<1>4. slots \in [0 .. Size - 1 -> Events]
  <2> DEFINE q == CHOOSE p \in Params : TRUE
             e == Edit("end", q, Initial)
  <2>1. q \in Params
    BY <1>2
  <2>2. e \in Events
    BY <1>2, <2>1 DEF Edit, Events
  <2>3. slots = [s \in 0 .. Size - 1 |-> e]
    BY DEF Init
  <2> HIDE DEF e
  <2>4. QED
    BY <2>2, <2>3
<1>5. TypeOK
  BY <1>1, <1>2, <1>4 DEF TypeOK
<1>6. TodoFits
  <2>1. Len(todo) = 0
    BY <1>1
  <2>2. QED
    BY <1>1, <2>1 DEF TodoFits
<1>7. RoomHeld /\ OfferHeld
  BY <1>1, <1>2, <1>3 DEF RoomHeld, OfferHeld
<1>8. QueueInv
  BY <1>5, <1>6, <1>7 DEF QueueInv
<1>9. Undelivered = <<>>
  <2>1. First = 0
    BY <1>1 DEF First
  <2>2. Undelivered \in Seq(Events) /\ Len(Undelivered) = 0
    BY <1>3, <1>8, <2>1, WaitingEvents DEF WaitingOK
  <2>3. QED
    BY <2>2, EmptySeq
<1>10. QED
  BY <1>8, <1>9

(* Every step keeps it. *)
LEMMA NextQueue ==
  ASSUME QueueInv, [Next]_vars
  PROVE  QueueInv'
<1>1. CASE User
  BY <1>1, UserStep
<1>2. CASE Room
  BY <1>2, RoomStep
<1>3. CASE Request
  BY <1>3, RequestStep
<1>4. CASE Put
  BY <1>4, PutStep
<1>5. CASE Publish
  BY <1>5, PublishStep
<1>6. CASE Output
  BY <1>6, OutputStep
<1>7. CASE Accept
  BY <1>7, AcceptStep
<1>8. CASE Advance
  BY <1>8, AdvanceStep
<1>9. CASE OutputEnd \/ UNCHANGED vars
  BY <1>9, QuietStep
<1>10. QED
  BY <1>1, <1>2, <1>3, <1>4, <1>5, <1>6, <1>7, <1>8, <1>9
     DEF Next, GuiStep, HostStep

(* Types, the lists of edits, the room that is kept for them and what is   *)
(* offered are right in every state.                                       *)
THEOREM QueueHolds == Spec => []QueueInv
<1>1. Init => QueueInv
  BY InitQueue
<1>2. QueueInv /\ [Next]_vars => QueueInv'
  BY NextQueue
<1>3. QED
  BY <1>1, <1>2, PTL DEF Spec

(* The slot that gui_edit() has filled and not published is none of those  *)
(* the audio thread may be reading, however far the two counters have      *)
(* come and wherever they wrap.                                            *)
THEOREM SlotsPrivate == Spec => []SlotPrivate
<1>1. QueueInv => SlotPrivate
  <2> SUFFICES ASSUME QueueInv, gpc = "publish"
               PROVE  \A i \in 0 .. Count - 1 : Slot(read + i) # Slot(write)
    BY DEF SlotPrivate
  <2>1. Reserve(Head(todo).kind) \in 1 .. 3
    BY Current, Reserves DEF QueueInv, TodoFits
  <2>2. Count + Reserve(Head(todo).kind) <= Size
    BY DEF QueueInv, RoomHeld
  <2>3. Count < Size
    BY <2>1, <2>2, Counted
  <2>4. QED
    BY <2>3, Private
<1>2. QED
  BY <1>1, QueueHolds, PTL

-----------------------------------------------------------------------------
(* The promise to the host. *)

Kept == INSTANCE GesturesProofs WITH queue <- Undelivered

(* A published event is the beginning, a value or the end of a gesture, at *)
(* a time when it may be.                                                  *)
LEMMA PublishPromise ==
  ASSUME QueueInv, Publish
  PROVE  Kept!BeginGesture \/ Kept!ChangeValue \/ Kept!EndGesture
<1> DEFINE e == Head(todo)
<1>1. /\ gpc = "publish" /\ todo # <<>> /\ active' = ActiveAfter(e, TRUE)
  BY DEF Publish, QueueInv, TodoFits
<1>2. /\ e \in Events /\ e.kind \in {"begin", "value", "end"}
      /\ e.index \in Params /\ e.index # NoParam
      /\ e.kind = "begin" => Reserve(e.kind) = 3
      /\ e.kind = "value" => Reserve(e.kind) = 2
  BY <1>1, Current, Reserves
<1>3. Undelivered' = Append(Undelivered, e) /\ open' = open
  BY PublishStep
<1>4. Count + Reserve(e.kind) <= Size /\ Count \in Nat /\ Size \in Nat
      /\ First \in {0, 1} /\ Len(Undelivered) = Count - First
  BY <1>1, Counted, WaitingEvents DEF QueueInv, RoomHeld, WaitingOK
<1>5. /\ e.kind = "begin" => active = NoParam
      /\ e.kind # "begin" => active = e.index
  BY <1>1, <1>2 DEF QueueInv, TodoFits
<1>6. e \in Kept!Events
  BY <1>2 DEF Kept!Events, Events
<1>7. CASE e.kind = "begin"
  <2>1. Kept!Fits("begin")
    <3>1. Len(Undelivered) + 3 <= Size
      BY <1>2, <1>4, <1>7
    <3>2. QED
      BY <3>1 DEF Kept!Fits, Kept!Reserve
  <2>2. active' = e.index
    BY <1>1, <1>7 DEF ActiveAfter
  <2>3. QED
    BY <1>3, <1>5, <1>6, <1>7, <2>1, <2>2 DEF Kept!BeginGesture, Kept!MayBegin
<1>8. CASE e.kind = "value"
  <2>1. Kept!Fits("value")
    <3>1. Len(Undelivered) + 2 <= Size
      BY <1>2, <1>4, <1>8
    <3>2. QED
      BY <3>1 DEF Kept!Fits, Kept!Reserve
  <2>2. active' = active
    BY <1>1, <1>8 DEF ActiveAfter
  <2>3. QED
    BY <1>2, <1>3, <1>5, <1>6, <1>8, <2>1, <2>2 DEF Kept!ChangeValue
<1>9. CASE e.kind = "end"
  <2>1. active' = NoParam
    BY <1>1, <1>9 DEF ActiveAfter
  <2>2. QED
    BY <1>2, <1>3, <1>5, <1>6, <1>9, <2>1 DEF Kept!EndGesture
<1>10. QED
  BY <1>2, <1>7, <1>8, <1>9

(* Every step is a step of a gesture, or none that the promise is about. *)
LEMMA StepPromise ==
  ASSUME QueueInv, [Next]_vars
  PROVE  [Kept!GestureNext]_(Kept!gestureVars)
<1>1. CASE Publish
  BY <1>1, PublishPromise DEF Kept!GestureNext
<1>2. CASE Accept
  <2>1. /\ Undelivered # <<>> /\ Undelivered' = Tail(Undelivered)
        /\ active' = active
        /\ open' = CASE Head(Undelivered).kind = "begin" -> Head(Undelivered).index
                     [] Head(Undelivered).kind = "value" -> open
                     [] Head(Undelivered).kind = "end" -> NoParam
    BY <1>2, AcceptStep, Zenon
  <2>2. Kept!Deliver
    BY <2>1, Zenon DEF Kept!Deliver
  <2>3. QED
    BY <2>2 DEF Kept!GestureNext
<1>3. ASSUME UNCHANGED <<active, open>>, Undelivered' = Undelivered
      PROVE  UNCHANGED Kept!gestureVars
  BY <1>3 DEF Kept!gestureVars
<1>4. CASE User
  BY <1>3, <1>4, UserStep
<1>5. CASE GuiStep /\ ~Publish
  BY <1>3, <1>5, RoomStep, RequestStep, PutStep DEF GuiStep
<1>6. CASE HostStep /\ ~Accept
  BY <1>3, <1>6, OutputStep, AdvanceStep, QuietStep DEF HostStep
<1>7. CASE UNCHANGED vars
  BY <1>3, <1>7, QuietStep
<1>8. QED
  BY <1>1, <1>2, <1>4, <1>5, <1>6, <1>7 DEF Next, GuiStep, HostStep

(* At first nothing waits. *)
LEMMA InitPromise ==
  ASSUME Init
  PROVE  Kept!GestureInit
<1>1. Undelivered = <<>> /\ active = NoParam /\ open = NoParam
  BY InitQueue DEF Init
<1>2. QED
  BY <1>1 DEF Kept!GestureInit

(* The ring, gui_edit() and output_ui() implement the promise of Gestures: *)
(* what reaches the host, refused and offered again as it may be, are the  *)
(* user's gestures, in their order, and the room they need is kept.        *)
THEOREM QueueKeepsPromise == Spec => GesturesKept
<1>1. Init => Promise!GestureInit
  BY InitPromise DEF Promise!GestureInit, Kept!GestureInit
<1>2. QueueInv /\ [Next]_vars => [Promise!GestureNext]_(Promise!gestureVars)
  <2> SUFFICES ASSUME QueueInv, [Next]_vars
               PROVE  [Promise!GestureNext]_(Promise!gestureVars)
    OBVIOUS
  <2>1. CASE UNCHANGED Kept!gestureVars
    BY <2>1 DEF Kept!gestureVars, Promise!gestureVars
  <2>2. CASE Kept!BeginGesture
    <3>1. Promise!BeginGesture
      BY <2>2 DEF Kept!BeginGesture, Kept!MayBegin, Kept!Fits, Kept!Reserve,
           Kept!Events, Promise!BeginGesture, Promise!MayBegin, Promise!Fits,
           Promise!Reserve, Promise!Events
    <3>2. QED
      BY <3>1 DEF Promise!GestureNext
  <2>3. CASE Kept!ChangeValue
    <3>1. Promise!ChangeValue
      BY <2>3 DEF Kept!ChangeValue, Kept!Fits, Kept!Reserve, Kept!Events,
           Promise!ChangeValue, Promise!Fits, Promise!Reserve, Promise!Events
    <3>2. QED
      BY <3>1 DEF Promise!GestureNext
  <2>4. CASE Kept!EndGesture
    <3>1. Promise!EndGesture
      BY <2>4 DEF Kept!EndGesture, Kept!Events, Promise!EndGesture,
           Promise!Events
    <3>2. QED
      BY <3>1 DEF Promise!GestureNext
  <2>5. CASE Kept!Deliver
    <3>1. Promise!Deliver
      BY <2>5, Zenon DEF Kept!Deliver, Promise!Deliver
    <3>2. QED
      BY <3>1 DEF Promise!GestureNext
  <2>6. QED
    BY <2>1, <2>2, <2>3, <2>4, <2>5, StepPromise DEF Kept!GestureNext
<1>3. QED
  BY <1>1, <1>2, QueueHolds, PTL
     DEF Spec, GesturesKept, Promise!GestureSpec

(* No gesture is ever left open or split at the host: what it has been     *)
(* given and what waits for it are bracketed, and agree with the editor on *)
(* what is being edited.                                                   *)
THEOREM BracketsDelivered == Spec => []Brackets
<1>1. Kept!GestureAssumption
  BY QueueAssumption DEF Kept!GestureAssumption
<1>2. Init => Kept!GestureInv
  <2> SUFFICES ASSUME Init PROVE Kept!GestureInv
    OBVIOUS
  <2>1. Kept!GestureInit
    BY InitPromise
  <2>2. QED
    BY <1>1, <2>1, Kept!InitGesture
<1>3. QueueInv /\ Kept!GestureInv /\ [Next]_vars => Kept!GestureInv'
  <2> SUFFICES ASSUME QueueInv, Kept!GestureInv, [Next]_vars
               PROVE  Kept!GestureInv'
    OBVIOUS
  <2>1. [Kept!GestureNext]_(Kept!gestureVars)
    BY StepPromise
  <2>2. QED
    BY <1>1, <2>1, Kept!NextGesture
<1>4. Kept!GestureInv => Brackets
  BY Zenon DEF Brackets, Kept!GestureInv, Kept!Bracketed, Kept!Closes, Kept!OpenBefore,
     Kept!OpenAfter, Promise!Bracketed, Promise!Closes, Promise!OpenBefore,
     Promise!OpenAfter
<1>5. QED
  BY <1>2, <1>3, <1>4, QueueHolds, PTL DEF Spec

-----------------------------------------------------------------------------
(* What the host is told. *)

(* An event more: it is the last, if it sets the parameter. *)
LEMMA FinalAppend ==
  ASSUME NEW s \in Seq(Events), NEW e \in Events, NEW p, NEW known, NEW wanted,
         IF Sets(e, p) THEN wanted = e.value ELSE Final(s, p, known, wanted)
  PROVE  Final(Append(s, e), p, known, wanted)
<1> DEFINE u == Append(s, e)
           n == Len(s)
<1>1. /\ n \in Nat /\ Len(u) = n + 1 /\ u[n + 1] = e
      /\ \A i \in 1 .. n : u[i] = s[i]
  OBVIOUS
<1>2. (\A i \in 1 .. n : ~Sets(s[i], p)) /\ ~Sets(e, p) => known = wanted
  BY DEF Final
<1>3. \A i \in 1 .. n :
        /\ Sets(s[i], p)
        /\ \A j \in 1 .. n : j > i => ~Sets(s[j], p)
        /\ ~Sets(e, p)
        => s[i].value = wanted
  BY DEF Final
<1> HIDE DEF u, n
<1>4. (\A i \in 1 .. Len(u) : ~Sets(u[i], p)) => known = wanted
  <2> SUFFICES ASSUME \A i \in 1 .. n + 1 : ~Sets(u[i], p)
               PROVE  known = wanted
    BY <1>1
  <2>1. ~Sets(e, p)
    BY <1>1
  <2>2. \A i \in 1 .. n : ~Sets(s[i], p)
    BY <1>1
  <2>3. QED
    BY <1>2, <2>1, <2>2
<1>5. ASSUME NEW i \in 1 .. Len(u), Sets(u[i], p),
             \A j \in 1 .. Len(u) : j > i => ~Sets(u[j], p)
      PROVE  u[i].value = wanted
  <2>1. CASE i = n + 1
    BY <1>1, <1>5, <2>1
  <2>2. CASE i \in 1 .. n
    <3>1. ~Sets(e, p)
      BY <1>1, <1>5, <2>2
    <3>2. Sets(s[i], p) /\ u[i] = s[i]
      BY <1>1, <1>5, <2>2
    <3>3. \A j \in 1 .. n : j > i => ~Sets(s[j], p)
      BY <1>1, <1>5
    <3>4. QED
      BY <1>3, <2>2, <3>1, <3>2, <3>3
  <2>3. QED
    BY <1>1, <2>1, <2>2
<1>6. QED
  BY <1>4, <1>5 DEF Final, u

(* The first event is taken: it counts for what is known. *)
LEMMA FinalTail ==
  ASSUME NEW s \in Seq(Events), s # <<>>, NEW p, NEW known, NEW wanted,
         Final(s, p, known, wanted)
  PROVE  Final(Tail(s), p, IF Sets(Head(s), p) THEN Head(s).value ELSE known, wanted)
<1> DEFINE t == Tail(s)
           n == Len(t)
           k == IF Sets(Head(s), p) THEN Head(s).value ELSE known
<1>1. /\ n \in Nat /\ Len(s) = n + 1 /\ s[1] = Head(s)
      /\ \A i \in 1 .. n : t[i] = s[i + 1]
  <2>1. Len(s) \in Nat \ {0} /\ Len(t) = Len(s) - 1
        /\ \A i \in 1 .. Len(t) : t[i] = s[i + 1]
    BY EmptySeq, HeadTailProperties
  <2>2. s[1] = Head(s)
    OBVIOUS
  <2>3. QED
    BY <2>1, <2>2
<1>2. (\A i \in 1 .. n + 1 : ~Sets(s[i], p)) => known = wanted
  BY <1>1 DEF Final
<1>3. \A i \in 1 .. n + 1 :
        /\ Sets(s[i], p)
        /\ \A j \in 1 .. n + 1 : j > i => ~Sets(s[j], p)
        => s[i].value = wanted
  BY <1>1 DEF Final
<1>4. k = IF Sets(s[1], p) THEN s[1].value ELSE known
  BY <1>1
<1> HIDE DEF t, n, k
<1>5. ASSUME \A i \in 1 .. n : ~Sets(t[i], p)
      PROVE  k = wanted
  <2>1. \A j \in 1 .. n + 1 : j > 1 => ~Sets(s[j], p)
    <3> SUFFICES ASSUME NEW j \in 1 .. n + 1, j > 1 PROVE ~Sets(s[j], p)
      OBVIOUS
    <3>1. j - 1 \in 1 .. n /\ (j - 1) + 1 = j
      BY <1>1
    <3>2. QED
      BY <1>1, <1>5, <3>1
  <2>2. CASE Sets(s[1], p)
    BY <1>1, <1>3, <1>4, <2>1, <2>2
  <2>3. CASE ~Sets(s[1], p)
    <3>1. \A i \in 1 .. n + 1 : ~Sets(s[i], p)
      BY <1>1, <2>1, <2>3
    <3>2. QED
      BY <1>2, <1>4, <2>3, <3>1
  <2>4. QED
    BY <2>2, <2>3
<1>6. ASSUME NEW i \in 1 .. n, Sets(t[i], p),
             \A j \in 1 .. n : j > i => ~Sets(t[j], p)
      PROVE  t[i].value = wanted
  <2>1. i + 1 \in 1 .. n + 1 /\ t[i] = s[i + 1]
    BY <1>1
  <2>2. \A j \in 1 .. n + 1 : j > i + 1 => ~Sets(s[j], p)
    <3> SUFFICES ASSUME NEW j \in 1 .. n + 1, j > i + 1 PROVE ~Sets(s[j], p)
      OBVIOUS
    <3>1. j - 1 \in 1 .. n /\ j - 1 > i /\ (j - 1) + 1 = j
      BY <1>1
    <3>2. QED
      BY <1>1, <1>6, <3>1
  <2>3. QED
    BY <1>3, <1>6, <2>1, <2>2
<1>7. QED
  BY <1>5, <1>6 DEF Final, t, n, k

(* A step that leaves alone what is told and wanted. *)
LEMMA ToldSame ==
  ASSUME ToldSoFar, UNCHANGED <<target, told>>, Undelivered' = Undelivered,
         \A p \in Params : Unqueued(p)' <=> Unqueued(p),
         \A p \in Params : Unqueued(p) => Head(todo)' = Head(todo)
  PROVE  ToldSoFar'
<1> SUFFICES ASSUME NEW p \in Params PROVE UpToDate(p)'
  BY DEF ToldSoFar
<1>1. UpToDate(p)
  BY DEF ToldSoFar
<1>2. CASE Unqueued(p)
  BY <1>1, <1>2 DEF UpToDate
<1>3. CASE ~Unqueued(p)
  <2>1. Final(Undelivered, p, told[p], target[p])
    BY <1>1, <1>3 DEF UpToDate
  <2>2. Final(Undelivered, p, told[p], target[p])'
    BY <2>1 DEF Final
  <2>3. QED
    BY <1>3, <2>2 DEF UpToDate
<1>4. QED
  BY <1>2, <1>3

(* A value that the processor takes is queued next. *)
LEMMA ToldRequest ==
  ASSUME QueueInv, ToldSoFar, Request
  PROVE  ToldSoFar'
<1> DEFINE e == Head(todo)
<1>1. /\ Undelivered' = Undelivered /\ UNCHANGED told /\ gpc = "request"
      /\ e \in Events /\ e.kind = "value"
  BY RequestStep
<1>2. \A p \in Params : ~Unqueued(p)
  BY <1>1 DEF Unqueued
<1>3. CASE /\ target' = [target EXCEPT ![e.index] = e.value]
           /\ gpc' = "put" /\ todo' = todo
  <2> SUFFICES ASSUME NEW p \in Params PROVE UpToDate(p)'
    BY DEF ToldSoFar
  <2>1. target \in [Params -> Levels]
    BY DEF QueueInv, TypeOK
  <2>2. CASE p = e.index
    BY <1>1, <1>3, <2>1, <2>2 DEF UpToDate, Unqueued
  <2>3. CASE p # e.index
    <3>1. ~Unqueued(p)' /\ target'[p] = target[p]
      BY <1>3, <2>1, <2>3 DEF Unqueued
    <3>2. Final(Undelivered, p, told[p], target[p])
      BY <1>2 DEF ToldSoFar, UpToDate
    <3>3. Final(Undelivered, p, told[p], target[p])'
      BY <1>1, <3>1, <3>2 DEF Final
    <3>4. QED
      BY <3>1, <3>3 DEF UpToDate
  <2>4. QED
    BY <2>2, <2>3
<1>4. CASE gpc' = "idle" /\ target' = target
  <2>1. \A p \in Params : ~Unqueued(p)'
    BY <1>4 DEF Unqueued
  <2>2. QED
    BY <1>1, <1>2, <1>4, <2>1, ToldSame
<1>5. QED
  BY <1>3, <1>4, RequestStep

(* Then it is the last that waits. *)
LEMMA ToldPublish ==
  ASSUME QueueInv, ToldSoFar, Publish
  PROVE  ToldSoFar'
<1> DEFINE e == Head(todo)
<1>1. /\ UNCHANGED <<target, told>> /\ e \in Events
      /\ Undelivered' = Append(Undelivered, e)
      /\ gpc = "publish" /\ gpc' = "idle"
  BY PublishStep
<1>2. Undelivered \in Seq(Events)
  BY WaitingEvents DEF WaitingOK
<1> SUFFICES ASSUME NEW p \in Params PROVE UpToDate(p)'
  BY DEF ToldSoFar
<1>3. UpToDate(p)
  BY DEF ToldSoFar
<1>4. Unqueued(p) <=> Sets(e, p)
  BY <1>1 DEF Unqueued, Sets
<1>5. IF Sets(e, p) THEN target[p] = e.value
      ELSE Final(Undelivered, p, told[p], target[p])
  BY <1>3, <1>4, Zenon DEF UpToDate
<1> HIDE DEF e
<1>6. Final(Append(Undelivered, e), p, told[p], target[p])
  BY <1>1, <1>2, <1>5, FinalAppend
<1>7. Final(Undelivered, p, told[p], target[p])'
  BY <1>1, <1>6 DEF Final
<1>8. QED
  BY <1>1, <1>7 DEF UpToDate, Unqueued

(* The host takes the events in their order. *)
LEMMA ToldAccept ==
  ASSUME QueueInv, ToldSoFar, Accept
  PROVE  ToldSoFar'
<1> DEFINE e == Head(Undelivered)
<1>1. /\ UNCHANGED <<target, todo, gpc>>
      /\ Undelivered # <<>> /\ Undelivered' = Tail(Undelivered)
      /\ told' = IF e.kind = "value" THEN [told EXCEPT ![e.index] = e.value]
                 ELSE told
  BY AcceptStep, Zenon
<1>2. Undelivered \in Seq(Events) /\ told \in [Params -> Levels]
  BY WaitingEvents DEF WaitingOK, QueueInv, TypeOK
<1> SUFFICES ASSUME NEW p \in Params PROVE UpToDate(p)'
  BY DEF ToldSoFar
<1>3. UpToDate(p)
  BY DEF ToldSoFar
<1>4. Unqueued(p)' <=> Unqueued(p)
  BY <1>1 DEF Unqueued
<1>5. CASE Unqueued(p)
  BY <1>1, <1>3, <1>4, <1>5 DEF UpToDate
<1>6. CASE ~Unqueued(p)
  <2>1. Final(Undelivered, p, told[p], target[p])
    BY <1>3, <1>6 DEF UpToDate
  <2>2. told'[p] = IF Sets(e, p) THEN e.value ELSE told[p]
    BY <1>1, <1>2 DEF Sets
  <2>3. Final(Tail(Undelivered), p, IF Sets(e, p) THEN e.value ELSE told[p], target[p])
    BY <1>1, <1>2, <2>1, FinalTail
  <2>4. Final(Undelivered, p, told[p], target[p])'
    BY <1>1, <2>2, <2>3 DEF Final
  <2>5. QED
    BY <1>4, <1>6, <2>4 DEF UpToDate
<1>7. QED
  BY <1>5, <1>6

(* Every step keeps it. *)
LEMMA ToldStep ==
  ASSUME QueueInv, ToldSoFar, [Next]_vars
  PROVE  ToldSoFar'
<1>1. ASSUME UNCHANGED <<target, told, todo, gpc>>, Undelivered' = Undelivered
      PROVE  ToldSoFar'
  BY <1>1, ToldSame DEF Unqueued
<1>2. CASE User
  BY <1>2, UserStep, ToldSame DEF Unqueued
<1>3. CASE Room
  <2>1. \A p \in Params : ~Unqueued(p) /\ ~Unqueued(p)'
    BY <1>3, RoomStep DEF Unqueued
  <2>2. QED
    BY <1>3, <2>1, RoomStep, ToldSame
<1>4. CASE Request
  BY <1>4, ToldRequest
<1>5. CASE Put
  BY <1>5, PutStep, ToldSame DEF Unqueued
<1>6. CASE Publish
  BY <1>6, ToldPublish
<1>7. CASE Output
  BY <1>1, <1>7, OutputStep
<1>8. CASE Accept
  BY <1>8, ToldAccept
<1>9. CASE Advance
  BY <1>1, <1>9, AdvanceStep
<1>10. CASE OutputEnd \/ UNCHANGED vars
  BY <1>1, <1>10, QuietStep
<1>11. QED
  BY <1>2, <1>3, <1>4, <1>5, <1>6, <1>7, <1>8, <1>9, <1>10
     DEF Next, GuiStep, HostStep

(* When every edit is delivered, the host knows the values the processor   *)
(* works with, however often it refused one and whatever the processor     *)
(* refused.                                                                *)
THEOREM ToldEverything == Spec => []HostTold
<1>1. Init => ToldSoFar
  <2> SUFFICES ASSUME Init, NEW p \in Params PROVE UpToDate(p)
    BY DEF ToldSoFar
  <2>1. Undelivered = <<>> /\ gpc = "idle" /\ told = target
    BY InitQueue DEF Init
  <2>2. Len(<<>>) = 0
    OBVIOUS
  <2>3. Final(Undelivered, p, told[p], target[p])
    BY <2>1, <2>2 DEF Final
  <2>4. QED
    BY <2>1, <2>3 DEF UpToDate, Unqueued
<1>2. QueueInv /\ ToldSoFar /\ [Next]_vars => ToldSoFar'
  BY ToldStep
<1>3. QueueInv /\ ToldSoFar => HostTold
  <2> SUFFICES ASSUME QueueInv, ToldSoFar, Idle, read = write, apc # "accepted"
               PROVE  told = target
    BY DEF HostTold
  <2>1. told \in [Params -> Levels] /\ target \in [Params -> Levels]
        /\ write \in 0 .. Wrap - 1 /\ read \in 0 .. Wrap - 1
    BY DEF QueueInv, TypeOK
  <2>2. Count = 0
    BY <2>1, Counted
  <2>3. Len(Undelivered) = 0
    BY <2>2, WaitingEvents DEF WaitingOK, First
  <2>4. ASSUME NEW p \in Params PROVE told[p] = target[p]
    <3>1. ~Unqueued(p)
      BY DEF Unqueued, Idle
    <3>2. UpToDate(p)
      BY DEF ToldSoFar
    <3>3. QED
      BY <2>3, <3>1, <3>2 DEF UpToDate, Final
  <2>5. QED
    BY <2>1, <2>4
<1>4. QED
  BY <1>1, <1>2, <1>3, QueueHolds, PTL DEF Spec

-----------------------------------------------------------------------------
(* The editor. *)

(* What the editor may be in.                                              *)
Held == Controls \cup {Nobody}
States ==
  [v : [Controls -> Int],
   u : [active : Held, editing : BOOLEAN, open : Held, yes : Int, good : BOOLEAN],
   late : Seq(Stores)]

(* Each value is one of its control, whether or not they go together.      *)
InRange(v) == v \in [Controls -> Int] /\ \A p \in Controls : v[p] \in Own(p)

(* No gesture without the host, values in their ranges.                    *)
Fit(s) ==
  /\ s \in States /\ InRange(s.v)
  /\ s.u.good /\ s.u.active = s.u.open

(* What a control may be is a number.                                      *)
LEMMA OwnInt ==
  ASSUME EditorLimits, NEW p \in Controls, NEW x \in Own(p) PROVE x \in Int
<1>1. Limits[0] \in Nat /\ FormantLimit \in Nat
  BY DEF EditorLimits
<1> QED BY <1>1 DEF Own, Controls, Sliders

(* The audio thread stores values that are one of their control each.      *)
LEMMA OverRange ==
  ASSUME EditorLimits, NEW v, InRange(v), NEW f \in Stores
  PROVE  InRange(Over(v, f))
<1>1. ASSUME NEW p \in Controls PROVE Over(v, f)[p] \in Own(p)
  <2>1. Over(v, f)[p] = IF p \in DOMAIN f \cap Automated THEN f[p] ELSE v[p]
    BY DEF Over
  <2>2. ASSUME p \in DOMAIN f PROVE f[p] \in Own(p)
    <3>1. PICK ps \in SUBSET Controls :
            f \in {g \in [ps -> UNION {Own(q) : q \in ps}] :
                    \A q \in ps : g[q] \in Own(q)}
      BY DEF Stores
    <3>2. DOMAIN f = ps /\ \A q \in ps : f[q] \in Own(q)
      BY <3>1
    <3> QED BY <2>2, <3>2
  <2>3. v[p] \in Own(p)
    BY DEF InRange
  <2> QED BY <2>1, <2>2, <2>3
<1>2. Over(v, f) \in [Controls -> Int]
  <2>1. \A p \in Controls : Over(v, f)[p] \in Int
    BY <1>1, OwnInt
  <2>2. Over(v, f) = [p \in Controls |-> Over(v, f)[p]]
    BY DEF Over
  <2> QED BY <2>1, <2>2
<1> QED BY <1>1, <1>2 DEF InRange

(* A look finds other values; nothing of the gesture changes.              *)
LEMMA LookFits ==
  ASSUME EditorLimits, NEW s, Fit(s)
  PROVE  Fit(Look(s)) /\ Look(s).u = s.u
<1>1. s \in States /\ InRange(s.v) /\ s.u.good /\ s.u.active = s.u.open
  BY DEF Fit
<1>2. CASE s.late = <<>>
  BY <1>2 DEF Look
<1>3. CASE s.late # <<>>
  <2> DEFINE w == Over(s.v, Head(s.late))
             l == [s EXCEPT !.v = Over(@, Head(s.late)), !.late = Tail(@)]
  <2>1. s.late \in Seq(Stores)
    BY <1>1 DEF States
  <2>2. Head(s.late) \in Stores /\ Tail(s.late) \in Seq(Stores)
    BY <1>3, <2>1, HeadTailProperties
  <2>3. InRange(w)
    BY <1>1, <2>2, OverRange
  <2> HIDE DEF w
  <2>4. w \in [Controls -> Int]
    BY <2>3 DEF InRange
  <2>5. l = [s EXCEPT !.v = w, !.late = Tail(s.late)]
    BY DEF w
  <2> HIDE DEF l
  <2>6. l \in States /\ l.v = w /\ l.u = s.u
    BY <1>1, <2>2, <2>4, <2>5 DEF States
  <2>7. Look(s) = l
    BY <1>3, Zenon DEF Look, l
  <2> QED BY <1>1, <2>3, <2>6, <2>7 DEF Fit
<1> QED BY <1>2, <1>3

(* Ending leaves nothing open.                                             *)
LEMMA EndedFits ==
  ASSUME NEW s, Fit(s)
  PROVE  /\ Fit(Ended(s)) /\ Ended(s).v = s.v
         /\ Ended(s).u.active = Nobody /\ ~Ended(s).u.editing
<1>1. s \in States /\ s.u.good /\ s.u.active = s.u.open /\ InRange(s.v)
  BY DEF Fit
<1>2. Nobody \in Held
  BY DEF Held
<1>3. Ended(s).v = s.v /\ Ended(s).u.active = Nobody /\ Ended(s).u.open = Nobody
  BY <1>1 DEF Ended, States
<1>4. Ended(s).u.editing = FALSE /\ Ended(s).u.yes = s.u.yes
  BY <1>1 DEF Ended, States
<1>5. Ended(s).u.good
  BY <1>1 DEF Ended, States
<1>6. Ended(s) \in States
  BY <1>1, <1>2 DEF Ended, States
<1> QED BY <1>1, <1>3, <1>4, <1>5, <1>6 DEF Fit

(* What the host answers changes nothing of the gesture.                   *)
LEMMA AskedFits ==
  ASSUME NEW s, Fit(s)
  PROVE  /\ Fit(Asked(s)) /\ Asked(s).v = s.v
         /\ Asked(s).u.active = s.u.active /\ Asked(s).u.editing = s.u.editing
         /\ Asked(s).u.open = s.u.open /\ Asked(s).u.good = s.u.good
<1>1. s \in States /\ s.u.good /\ s.u.active = s.u.open /\ InRange(s.v)
  BY DEF Fit
<1>3. Asked(s).v = s.v /\ Asked(s).u.active = s.u.active /\ Asked(s).u.open = s.u.open
  BY <1>1 DEF Asked, States
<1>4. Asked(s).u.editing = s.u.editing
  BY <1>1 DEF Asked, States
<1>5. Asked(s).u.good = s.u.good
  BY <1>1 DEF Asked, States
<1>6. Asked(s) \in States
  BY <1>1 DEF Asked, States
<1> QED BY <1>1, <1>3, <1>4, <1>5, <1>6 DEF Fit

(* A gesture begins only when the one before has ended.                    *)
LEMMA StartedFits ==
  ASSUME NEW s, NEW p \in Controls, Fit(s), s.u.active = Nobody, ~s.u.editing
  PROVE  /\ Fit(Started(s, p))
         /\ Started(s, p).u.active \in {p, Nobody} /\ ~Started(s, p).u.editing
<1> DEFINE a == Asked(s)
           b == [a EXCEPT !.u.active = p, !.u.open = p,
                          !.u.good = @ /\ s.u.open = Nobody]
<1>1. /\ Fit(a) /\ a.v = s.v /\ a.u.active = Nobody /\ a.u.editing = s.u.editing
      /\ a.u.open = s.u.open /\ a.u.good = s.u.good
  BY AskedFits
<1>2. s.u.open = Nobody /\ p \in Held /\ p # Nobody
  BY DEF Fit, Held, Controls, Sliders, Nobody
<1> HIDE DEF a
<1>3. a \in States /\ a.u.good /\ InRange(a.v)
  BY <1>1 DEF Fit
<1>4. b.v = a.v /\ b.u.active = p /\ b.u.open = p
  BY <1>3 DEF States
<1>5. b.u.editing = a.u.editing
  BY <1>3 DEF States
<1>6. b.u.good
  BY <1>2, <1>3 DEF States
<1>7. b \in States
  BY <1>2, <1>3 DEF States
<1> HIDE DEF b
<1>8. Fit(b)
  BY <1>3, <1>4, <1>6, <1>7 DEF Fit
<1>9. Started(s, p) = IF enabled(p, s.v) /\ Answers(s) THEN b ELSE s
  BY Zenon DEF Started, a, b
<1>10. CASE enabled(p, s.v) /\ Answers(s)
  BY <1>1, <1>4, <1>5, <1>8, <1>9, <1>10
<1>11. CASE ~(enabled(p, s.v) /\ Answers(s))
  BY <1>2, <1>9, <1>11
<1> QED BY <1>10, <1>11

(* The same after its look.                                                *)
LEMMA BegunFits ==
  ASSUME EditorLimits, NEW s, NEW p \in Controls, Fit(s), s.u.active = Nobody,
         ~s.u.editing
  PROVE  /\ Fit(Begun(s, p))
         /\ Begun(s, p).u.active \in {p, Nobody} /\ ~Begun(s, p).u.editing
<1>1. Fit(Look(s)) /\ Look(s).u = s.u
  BY LookFits
<1> DEFINE l == Look(s)
<1>2. Fit(l) /\ l.u.active = Nobody /\ ~l.u.editing
  BY <1>1
<1>3. Begun(s, p) = Started(l, p)
  BY DEF Begun
<1> HIDE DEF l
<1> QED BY <1>2, <1>3, StartedFits

(* A value in its gesture, that is valid when it is expected to be.        *)
LEMMA SentFits ==
  ASSUME EditorLimits, NEW s, NEW p \in Controls, NEW x \in Int, NEW seen,
         Fit(s), s.u.active = p,
         Expected(s, p, seen) => valid_values([s.v EXCEPT ![p] = x])
  PROVE  /\ Fit(Sent(s, p, x, seen))
         /\ Sent(s, p, x, seen).u.active = p
         /\ Sent(s, p, x, seen).u.editing = s.u.editing
<1> DEFINE l == Look(s)
           a == Asked(l)
           valid == valid_values([s.v EXCEPT ![p] = x])
           goes == valid /\ (Answers(s) \/ adapter = "vst3")
           w == IF goes THEN [a.v EXCEPT ![p] = x] ELSE a.v
           b == [a EXCEPT !.v = IF goes THEN [@ EXCEPT ![p] = x] ELSE @,
                   !.u.good = @ /\ s.u.open = p /\ (Expected(s, p, seen) => valid)]
<1>1. Fit(l) /\ l.u = s.u
  BY LookFits
<1> HIDE DEF l
<1>2. /\ Fit(a) /\ a.v = l.v /\ a.u.active = p /\ a.u.editing = s.u.editing
      /\ a.u.open = s.u.open /\ a.u.good = s.u.good
  BY <1>1, AskedFits
<1>3. s.u.open = p
  BY DEF Fit
<1> HIDE DEF a
<1>4. a \in States /\ a.u.good /\ InRange(a.v) /\ a.u.open = p
  BY <1>2, <1>3 DEF Fit
<1>5. valid => x \in Own(p)
  <2>1. s.v \in [Controls -> Int]
    BY DEF Fit, InRange
  <2>2. [s.v EXCEPT ![p] = x][p] = x
    BY <2>1
  <2> QED BY <2>2 DEF valid_values
<1>6. Expected(s, p, seen) => valid
  OBVIOUS
<1> HIDE DEF valid
<1>7. goes => x \in Own(p)
  BY <1>5
<1> HIDE DEF goes
<1>8. InRange(w)
  <2>1. a.v \in [Controls -> Int] /\ \A q \in Controls : a.v[q] \in Own(q)
    BY <1>4 DEF InRange
  <2>2. CASE ~goes
    BY <1>4, <2>2
  <2>3. CASE goes
    <3>1. w = [a.v EXCEPT ![p] = x] /\ x \in Own(p)
      BY <1>7, <2>3
    <3>2. w \in [Controls -> Int]
      BY <2>1, <3>1
    <3>3. ASSUME NEW q \in Controls PROVE w[q] \in Own(q)
      <4>1. CASE q = p
        BY <2>1, <3>1, <4>1
      <4>2. CASE q # p
        BY <2>1, <3>1, <4>2
      <4> QED BY <4>1, <4>2
    <3> QED BY <3>2, <3>3 DEF InRange
  <2> QED BY <2>2, <2>3
<1>9. b = [a EXCEPT !.v = w,
                    !.u.good = @ /\ s.u.open = p /\ (Expected(s, p, seen) => valid)]
  BY DEF w
<1>10. w \in [Controls -> Int]
  BY <1>8 DEF InRange
<1> HIDE DEF w, b
<1> DEFINE fine == a.u.good /\ s.u.open = p /\ (Expected(s, p, seen) => valid)
<1>11. fine = TRUE
  BY <1>3, <1>4, <1>6
<1>12. b = [a EXCEPT !.v = w, !.u.good = fine]
  BY <1>9
<1> HIDE DEF fine
<1>13. b.v = w /\ b.u.active = p /\ b.u.open = p
  BY <1>2, <1>4, <1>10, <1>12 DEF States
<1>14. b.u.editing = a.u.editing
  BY <1>4, <1>12 DEF States
<1>15. b.u.good
  BY <1>4, <1>11, <1>12 DEF States
<1>16. b \in States
  BY <1>4, <1>10, <1>11, <1>12 DEF States
<1>17. b = Sent(s, p, x, seen)
  BY Zenon DEF Sent, a, l, goes, valid, b
<1>18. Fit(b)
  BY <1>8, <1>13, <1>15, <1>16 DEF Fit
<1> QED BY <1>2, <1>13, <1>14, <1>17, <1>18

(* A distance is bounded on both sides.                                    *)
LEMMA DistanceIs ==
  ASSUME NEW x \in Int, NEW l \in Int
  PROVE  Distance(x) <= l <=> -l <= x /\ x <= l
  BY DEF Distance

(* Whatever the values, the bounds of a control are numbers.               *)
LEMMA BoundsInt ==
  ASSUME EditorLimits, NEW v, InRange(v)
  PROVE  /\ v.Pitch \in Int /\ v.Fine \in Int /\ v.Formant \in Int
         /\ v.Backend \in {0, 1} /\ v.Policy \in {0, 1}
         /\ Limits[0] \in Nat /\ Limits[v.Backend] \in Nat /\ FormantLimit \in Nat
         /\ \A p \in Controls : Low(p, v) \in Int /\ High(p, v) \in Int
<1>1. /\ v.Pitch \in Int /\ v.Fine \in Int /\ v.Formant \in Int
      /\ v.Backend \in 0..1 /\ v.Policy \in 0..1
  BY DEF InRange, Own, Controls, Sliders
<1>2. v.Backend \in {0, 1} /\ v.Policy \in {0, 1}
  BY <1>1
<1>3. Limits[0] \in Nat /\ Limits[v.Backend] \in Nat /\ FormantLimit \in Nat
  BY <1>2 DEF EditorLimits
<1>4. \A p \in Controls : Low(p, v) \in Int /\ High(p, v) \in Int
  BY <1>1, <1>3 DEF Low, High, Greater, Lesser, Controls, Sliders
<1> QED BY <1>1, <1>2, <1>3, <1>4

(* Where a slider has room, what it is set to goes with the others.        *)
LEMMA ClampValid ==
  ASSUME EditorLimits, NEW v, InRange(v), NEW p \in Sliders, NEW x \in Int,
         enabled(p, v), HasRoom(p, v)
  PROVE  valid_values([v EXCEPT ![p] = Clamped(p, v, x)])
<1> DEFINE c == Clamped(p, v, x)
           n == [v EXCEPT ![p] = c]
<1>1. /\ v.Pitch \in Int /\ v.Fine \in Int /\ v.Formant \in Int
      /\ v.Backend \in {0, 1} /\ v.Policy \in {0, 1}
      /\ Limits[0] \in Nat /\ Limits[v.Backend] \in Nat /\ FormantLimit \in Nat
      /\ Low(p, v) \in Int /\ High(p, v) \in Int
  BY BoundsInt DEF Controls
<1>2. PICK y \in Own(p) : valid_values([v EXCEPT ![p] = y])
  BY DEF HasRoom
<1> DEFINE m == [v EXCEPT ![p] = y]
<1>3. v \in [Controls -> Int] /\ \A q \in Controls : v[q] \in Own(q)
  BY DEF InRange
<1>4. /\ Distance(m.Pitch + m.Fine) <= Limits[m.Backend]
      /\ m.Backend = 0 => m.Policy = 0
      /\ m.Policy = 0 => m.Formant = 0
  BY <1>2 DEF valid_values
<1>5. y \in Int
  BY <1>2, OwnInt DEF Controls
<1>6. /\ m.Pitch = (IF p = "Pitch" THEN y ELSE v.Pitch)
      /\ m.Fine = (IF p = "Fine" THEN y ELSE v.Fine)
      /\ m.Formant = (IF p = "Formant" THEN y ELSE v.Formant)
      /\ m.Backend = v.Backend /\ m.Policy = v.Policy
  BY <1>3 DEF Controls, Sliders
<1>7. /\ n.Pitch = (IF p = "Pitch" THEN c ELSE v.Pitch)
      /\ n.Fine = (IF p = "Fine" THEN c ELSE v.Fine)
      /\ n.Formant = (IF p = "Formant" THEN c ELSE v.Formant)
      /\ n.Backend = v.Backend /\ n.Policy = v.Policy
  BY <1>3 DEF Controls, Sliders
<1>8. \A q \in Controls : n[q] = IF q = p THEN c ELSE v[q]
  BY <1>3 DEF Controls
<1> HIDE DEF m
<1>9. Low(p, v) <= y /\ y <= High(p, v)
  <2>1. CASE p = "Pitch"
    <3>1. y \in -Limits[0]..Limits[0] /\ Distance(y + v.Fine) <= Limits[v.Backend]
      BY <1>2, <1>4, <1>6, <2>1 DEF Own
    <3>2. -Limits[v.Backend] <= y + v.Fine /\ y + v.Fine <= Limits[v.Backend]
      BY <1>1, <1>5, <3>1, DistanceIs
    <3> QED BY <1>1, <1>5, <2>1, <3>1, <3>2 DEF Low, High, Greater, Lesser
  <2>2. CASE p = "Fine"
    <3>1. y \in -1..1 /\ Distance(v.Pitch + y) <= Limits[v.Backend]
      BY <1>2, <1>4, <1>6, <2>2 DEF Own
    <3>2. -Limits[v.Backend] <= v.Pitch + y /\ v.Pitch + y <= Limits[v.Backend]
      BY <1>1, <1>5, <3>1, DistanceIs
    <3> QED BY <1>1, <1>5, <2>2, <3>1, <3>2 DEF Low, High, Greater, Lesser
  <2>3. CASE p = "Formant"
    BY <1>1, <1>2, <1>5, <2>3 DEF Own, Low, High
  <2> QED BY <2>1, <2>2, <2>3 DEF Sliders
<1>10. c \in Int /\ Low(p, v) <= c /\ c <= High(p, v)
  BY <1>1, <1>5, <1>9 DEF Clamped, Greater, Lesser
<1> HIDE DEF c
<1>11. c \in Own(p)
  BY <1>1, <1>10 DEF Own, Low, High, Greater, Lesser, Sliders
<1>12. \A q \in Controls : n[q] \in Own(q)
  BY <1>3, <1>8, <1>11
<1> HIDE DEF n
<1>13. Distance(n.Pitch + n.Fine) <= Limits[n.Backend]
  <2>1. CASE p = "Pitch"
    <3>1. -Limits[v.Backend] <= c + v.Fine /\ c + v.Fine <= Limits[v.Backend]
      BY <1>1, <1>10, <2>1 DEF Low, High, Greater, Lesser
    <3> QED BY <1>1, <1>7, <1>10, <2>1, <3>1, DistanceIs
  <2>2. CASE p = "Fine"
    <3>1. -Limits[v.Backend] <= v.Pitch + c /\ v.Pitch + c <= Limits[v.Backend]
      BY <1>1, <1>10, <2>2 DEF Low, High, Greater, Lesser
    <3> QED BY <1>1, <1>7, <1>10, <2>2, <3>1, DistanceIs
  <2>3. CASE p = "Formant"
    BY <1>4, <1>6, <1>7, <2>3
  <2> QED BY <2>1, <2>2, <2>3 DEF Sliders
<1>14. /\ n.Backend = 0 => n.Policy = 0
       /\ n.Policy = 0 => n.Formant = 0
  <2>1. CASE p = "Formant"
    <3>1. v.Policy # 0
      BY <2>1 DEF enabled
    <3> QED BY <1>4, <1>6, <1>7, <3>1
  <2>2. CASE p # "Formant"
    BY <1>4, <1>6, <1>7, <2>2
  <2> QED BY <2>1, <2>2
<1>15. valid_values(n)
  BY <1>12, <1>13, <1>14 DEF valid_values
<1> QED BY <1>15 DEF n, c

(* What is set is a number, be the control enabled or not.                 *)
LEMMA ClampInt ==
  ASSUME EditorLimits, NEW v, InRange(v), NEW p \in Controls, NEW x \in Int
  PROVE  Clamped(p, v, x) \in Int
<1>1. Low(p, v) \in Int /\ High(p, v) \in Int
  BY BoundsInt
<1> QED BY <1>1 DEF Clamped, Greater, Lesser

(* A slider's value is sent in its gesture, and valid if there was room    *)
(* and nobody stored in between.                                           *)
LEMMA ValuedFits ==
  ASSUME EditorLimits, NEW s, NEW p \in Sliders, NEW x \in Int, Fit(s), s.u.active = p
  PROVE  /\ Fit(Valued(s, p, x))
         /\ Valued(s, p, x).u.active = p
         /\ Valued(s, p, x).u.editing = s.u.editing
<1> DEFINE a == Look(s)
           b == Look(a)
           c == Clamped(p, a.v, x)
<1>1. Fit(a) /\ a.u = s.u
  BY LookFits
<1>2. p \in Controls
  BY DEF Controls
<1>3. Valued(s, p, x) = Sent(b, p, c, a.v)
  BY DEF Valued, Clamps
<1> HIDE DEF a
<1>4. Fit(b) /\ b.u = s.u /\ b.u.active = p
  BY <1>1, LookFits
<1>5. InRange(a.v)
  BY <1>1 DEF Fit
<1>6. c \in Int
  BY <1>2, <1>5, ClampInt
<1> HIDE DEF b
<1>7. ASSUME Expected(b, p, a.v) PROVE valid_values([b.v EXCEPT ![p] = c])
  <2>1. b.v = a.v /\ enabled(p, a.v) /\ HasRoom(p, a.v)
    BY <1>7 DEF Expected
  <2>2. valid_values([a.v EXCEPT ![p] = c])
    BY <1>5, <2>1, ClampValid
  <2> QED BY <2>1, <2>2
<1> HIDE DEF c
<1>8. /\ Fit(Sent(b, p, c, a.v)) /\ Sent(b, p, c, a.v).u.active = p
      /\ Sent(b, p, c, a.v).u.editing = b.u.editing
  BY <1>2, <1>4, <1>6, <1>7, SentFits
<1> QED BY <1>3, <1>4, <1>8

(* Between two events.                                                     *)
Settled(s) ==
  /\ Fit(s) /\ s.u.active \in Sliders \cup {Nobody}
  /\ s.u.editing => s.u.active # Nobody

(* No control is nobody.                                                   *)
LEMMA NotNobody == \A p \in Controls : p # Nobody
  BY DEF Controls, Sliders, Nobody

(* After an end an event may be over.                                      *)
LEMMA EndedSettled ==
  ASSUME NEW s, Fit(s)
  PROVE  Settled(Ended(s)) /\ Ended(s).u.active = Nobody
  BY EndedFits DEF Settled

(* A click is a whole gesture, or none.                                    *)
LEMMA ClickedSettled ==
  ASSUME EditorLimits, NEW s, NEW p \in Sliders, NEW x \in Int, Fit(s)
  PROVE  Settled(Clicked(s, p, x)) /\ Clicked(s, p, x).u.active = Nobody
<1> DEFINE a == Ended(s)
           b == Begun(a, p)
<1>1. Fit(a) /\ a.u.active = Nobody /\ ~a.u.editing
  BY EndedFits
<1>2. p \in Controls /\ p # Nobody
  BY NotNobody DEF Controls
<1> HIDE DEF a
<1>3. Fit(b) /\ b.u.active \in {p, Nobody} /\ ~b.u.editing
  BY <1>1, <1>2, BegunFits
<1> HIDE DEF b
<1>4. Clicked(s, p, x) = IF b.u.active = p THEN Ended(Valued(b, p, x)) ELSE b
  BY Zenon DEF Clicked, Finished, a, b
<1>5. CASE b.u.active = p
  BY <1>3, <1>4, <1>5, ValuedFits, EndedSettled
<1>6. CASE b.u.active # p
  BY <1>3, <1>4, <1>6 DEF Settled
<1> QED BY <1>5, <1>6

(* A configuration is only clicked to where it was valid.                  *)
LEMMA ChosenSettled ==
  ASSUME EditorLimits, NEW s, NEW p \in {"Backend", "Policy"}, NEW x \in {0, 1},
         Fit(s), valid_values([values EXCEPT ![p] = x])
  PROVE  Settled(Clicked(s, p, x)) /\ Clicked(s, p, x).u.active = Nobody
<1> DEFINE a == Ended(s)
           b == Begun(a, p)
           d == Look(b)
           e == Look(d)
           f == Sent(e, p, x, d.v)
<1>1. Fit(a) /\ a.u.active = Nobody /\ ~a.u.editing
  BY EndedFits
<1>2. p \in Controls /\ p # Nobody /\ p \notin Sliders
  BY NotNobody DEF Controls, Sliders
<1>3. Clamped(p, d.v, x) = x
  BY <1>2 DEF Clamped, Low, High, Greater, Lesser, Sliders
<1>4. Clicked(s, p, x) = IF b.u.active = p THEN Ended(f) ELSE b
  BY <1>3, Zenon DEF Clicked, Finished, Valued, Clamps, a, b, d, e, f
<1> HIDE DEF a
<1>5. Fit(b) /\ b.u.active \in {p, Nobody} /\ ~b.u.editing
  BY <1>1, <1>2, BegunFits
<1> HIDE DEF b
<1>6. CASE b.u.active = p
  <2>1. Fit(d) /\ d.u = b.u
    BY <1>5, LookFits
  <2> HIDE DEF d
  <2>2. Fit(e) /\ e.u.active = p
    BY <1>6, <2>1, LookFits
  <2> HIDE DEF e
  <2>3. Expected(e, p, d.v) => valid_values([e.v EXCEPT ![p] = x])
    BY <1>2 DEF Expected
  <2>4. x \in Int
    OBVIOUS
  <2>5. Fit(f)
    BY <1>2, <2>2, <2>3, <2>4, SentFits
  <2> HIDE DEF f
  <2> QED BY <1>4, <1>6, <2>5, EndedSettled
<1>7. CASE b.u.active # p
  BY <1>4, <1>5, <1>7 DEF Settled
<1> QED BY <1>6, <1>7

-----------------------------------------------------------------------------
(* The state as a whole, and the window with its timer: a CLAP plugin has  *)
(* both when it has an editor.                                             *)
Now == [v |-> values, u |-> ui, late |-> <<>>]
LifeOK ==
  /\ adapter \in {"clap", "vst3"}
  /\ ~display => ui.active = Nobody /\ ~shown
  /\ display => exists /\ timer
  /\ timer => IF adapter = "clap" THEN exists ELSE hosted
  /\ exists => adapter = "vst3" \/ timer
  /\ adapter = "vst3" => exists
EditorInv == Settled(Now) /\ LifeOK

(* An event finds what the one before left behind.                         *)
LEMMA FoundSettled ==
  ASSUME Settled(Now), NEW yes \in Int, NEW late \in Seq(Stores)
  PROVE  /\ Settled(AsFound(yes, late)) /\ AsFound(yes, late).v = values
         /\ AsFound(yes, late).u.active = ui.active
         /\ AsFound(yes, late).u.editing = ui.editing
<1> DEFINE u == [ui EXCEPT !.yes = yes]
           s == AsFound(yes, late)
<1>1. Now \in States /\ InRange(Now.v) /\ Now.u.good /\ Now.u.active = Now.u.open
      /\ Now.u.active \in Sliders \cup {Nobody}
      /\ (Now.u.editing => Now.u.active # Nobody)
  BY DEF Settled, Fit
<1>2. Now.v = values /\ Now.u = ui
  BY DEF Now
<1>3. values \in [Controls -> Int]
      /\ ui \in [active : Held, editing : BOOLEAN, open : Held, yes : Int, good : BOOLEAN]
  BY <1>1, <1>2 DEF States
<1>4. s.v = values /\ s.u = u
  BY DEF AsFound
<1>5. s \in States
  BY <1>3 DEF AsFound, States
<1>6. u.active = ui.active /\ u.open = ui.open
  BY <1>3
<1>7. u.editing = ui.editing
  BY <1>3
<1>8. u.good = ui.good
  BY <1>3
<1> HIDE DEF u, s
<1>9. Settled(s) /\ s.v = values /\ s.u.active = ui.active /\ s.u.editing = ui.editing
  BY <1>1, <1>2, <1>4, <1>5, <1>6, <1>7, <1>8 DEF Settled, Fit
<1> QED BY <1>9 DEF s

(* It leaves behind what it has come to.                                   *)
LEMMA BecomesSettled ==
  ASSUME NEW s, Settled(s), Becomes(s)
  PROVE  Settled(Now)' /\ ui'.active = s.u.active
<1>1. s \in States /\ InRange(s.v) /\ s.u.good /\ s.u.active = s.u.open
      /\ s.u.active \in Sliders \cup {Nobody}
      /\ (s.u.editing => s.u.active # Nobody)
  BY DEF Settled, Fit
<1>2. values' = s.v /\ ui' = [s.u EXCEPT !.yes = 0]
  BY DEF Becomes
<1>3. s.u \in [active : Held, editing : BOOLEAN, open : Held, yes : Int, good : BOOLEAN]
      /\ s.v \in [Controls -> Int]
  BY <1>1 DEF States
<1>4. ui'.active = s.u.active /\ ui'.open = s.u.open
  BY <1>2, <1>3
<1>5. ui'.editing = s.u.editing
  BY <1>2, <1>3
<1>6. ui'.good = s.u.good
  BY <1>2, <1>3
<1>7. Now' \in States
  BY <1>2, <1>3, EmptySeq DEF Now, States
<1>8. Now'.v = values' /\ Now'.u = ui'
  BY DEF Now
<1>9. Now'.v = s.v
  BY <1>2, <1>8
<1>10. /\ Now' \in States /\ InRange(Now'.v) /\ Now'.u.good
       /\ Now'.u.active = Now'.u.open /\ Now'.u.active \in Sliders \cup {Nobody}
       /\ (Now'.u.editing => Now'.u.active # Nobody)
  BY <1>1, <1>4, <1>5, <1>6, <1>7, <1>8, <1>9
<1>11. Settled(Now')
  BY <1>10, Zenon DEF Settled, Fit
<1> QED BY <1>4, <1>11

-----------------------------------------------------------------------------
(* An event of the window: it is there before and after.                   *)
LEMMA EventKeeps ==
  ASSUME EditorInv, display, UNCHANGED life, NEW s, Settled(s), Becomes(s)
  PROVE  EditorInv'
<1>1. Settled(Now)'
  BY BecomesSettled
<1>2. LifeOK'
  BY DEF EditorInv, LifeOK, life
<1> QED BY <1>1, <1>2 DEF EditorInv

(* The same from the invariant.                                            *)
LEMMA InvFound ==
  ASSUME EditorLimits, EditorInv, NEW s \in EventStates
  PROVE  /\ Settled(s) /\ Fit(s) /\ s.v = values
         /\ s.u.active = ui.active /\ s.u.editing = ui.editing
<1>1. PICK yes \in {0, 1, 2, 9}, late \in Meanwhile : s = AsFound(yes, late)
  BY DEF EventStates
<1>2. yes \in Int /\ late \in Seq(Stores)
  BY DEF EditorLimits
<1>3. Settled(Now)
  BY DEF EditorInv
<1> QED BY <1>1, <1>2, <1>3, FoundSettled DEF Settled

(* The same of an event that does not look.                                *)
LEMMA InvCalm ==
  ASSUME EditorInv
  PROVE  Settled(Calmly) /\ Fit(Calmly) /\ Calmly.u.active = ui.active
<1>1. Settled(Now) /\ 9 \in Int /\ <<>> \in Seq(Stores)
  BY EmptySeq DEF EditorInv
<1> QED BY <1>1, FoundSettled DEF Settled, Calmly

(* The values are numbers at any time.                                     *)
LEMMA InvValues ==
  ASSUME EditorInv
  PROVE  InRange(values) /\ values \in [Controls -> Int]
<1>1. Settled(Now) /\ Now.v = values
  BY DEF EditorInv, Now
<1> QED BY <1>1 DEF Settled, Fit, InRange

(* Positions are numbers.                                                  *)
LEMMA PositionInt ==
  ASSUME EditorLimits, NEW x \in Positions PROVE x \in Int
  BY DEF Positions, EditorLimits

(* A drag begins with a gesture, or not at all.                            *)
LEMMA PressKeeps == ASSUME EditorLimits, EditorInv, Press PROVE EditorInv'
<1>1. PICK s \in EventStates, p \in Sliders, x \in Positions :
        Becomes(Dragged(Begun(Ended(s), p), p, x))
  BY DEF Press
<1> DEFINE a == Ended(s)
           b == Begun(a, p)
           d == Dragged(b, p, x)
<1>2. Fit(a) /\ a.u.active = Nobody /\ ~a.u.editing
  BY InvFound, EndedFits
<1>3. p \in Controls /\ p # Nobody /\ x \in Int
  BY NotNobody, PositionInt DEF Controls
<1> HIDE DEF a
<1>4. Fit(b) /\ b.u.active \in {p, Nobody} /\ ~b.u.editing
  BY <1>2, <1>3, BegunFits
<1> HIDE DEF b
<1>5. Settled(d)
  BY <1>3, <1>4, ValuedFits DEF Dragged, Settled
<1>6. Becomes(d)
  BY <1>1 DEF a, b, d
<1> HIDE DEF d
<1> QED BY <1>5, <1>6, EventKeeps DEF Press, Pumped

(* A number that may be typed belongs to an open gesture.                  *)
LEMMA PressNumberKeeps == ASSUME EditorLimits, EditorInv, PressNumber PROVE EditorInv'
<1>1. PICK s \in EventStates, p \in Sliders :
        Becomes(Typing(Begun(Ended(s), p), p))
  BY DEF PressNumber
<1> DEFINE a == Ended(s)
           b == Begun(a, p)
           d == Typing(b, p)
<1>2. Fit(a) /\ a.u.active = Nobody /\ ~a.u.editing
  BY InvFound, EndedFits
<1>3. p \in Controls /\ p # Nobody
  BY NotNobody DEF Controls
<1> HIDE DEF a
<1>4. Fit(b) /\ b.u.active \in {p, Nobody} /\ ~b.u.editing
  BY <1>2, <1>3, BegunFits
<1> HIDE DEF b
<1>5. b \in States /\ InRange(b.v) /\ b.u.good /\ b.u.active = b.u.open
  BY <1>4 DEF Fit
<1>6. d.v = b.v /\ d.u.active = b.u.active /\ d.u.open = b.u.open
  BY <1>5 DEF Typing, States
<1>7. d.u.editing = (b.u.active = p)
  BY <1>5 DEF Typing, States
<1>8. d.u.good = b.u.good
  BY <1>5 DEF Typing, States
<1>9. d \in States
  BY <1>5 DEF Typing, States
<1>10. Becomes(d)
  BY <1>1 DEF a, b, d
<1> HIDE DEF d
<1>11. Settled(d)
  BY <1>3, <1>4, <1>5, <1>6, <1>7, <1>8, <1>9 DEF Settled, Fit
<1> QED BY <1>10, <1>11, EventKeeps DEF PressNumber, Pumped

(* Wheel and arrow keys click.                                             *)
LEMMA NudgeKeeps == ASSUME EditorLimits, EditorInv, Nudge PROVE EditorInv'
<1>1. PICK s \in EventStates, p \in Sliders, by \in {-1, 1} :
        Becomes(Clicked(s, p, values[p] + by))
  BY DEF Nudge
<1>2. values[p] + by \in Int
  BY InvValues DEF Controls
<1>3. Settled(Clicked(s, p, values[p] + by))
  BY <1>2, InvFound, ClickedSettled
<1> QED BY <1>1, <1>3, EventKeeps DEF Nudge, Pumped

(* So does a choice of the configuration.                                  *)
LEMMA ChooseKeeps == ASSUME EditorLimits, EditorInv, Choose PROVE EditorInv'
<1>1. PICK s \in EventStates, p \in {"Backend", "Policy"} :
      \E next \in {(values[p] + 1) % 2} :
        \/ /\ valid_values([values EXCEPT ![p] = next])
           /\ Becomes(Clicked(s, p, next))
        \/ /\ ~valid_values([values EXCEPT ![p] = next]) /\ valid_values(values)
           /\ Becomes(Clicked(s, p, values[p]))
  BY DEF Choose
<1>2. values \in [Controls -> Int] /\ p \in Controls /\ values[p] \in Own(p)
  BY InvValues DEF InRange, Controls
<1>3. values[p] \in {0, 1}
  BY <1>2 DEF Own
<1>4. [values EXCEPT ![p] = values[p]] = values
  BY <1>2
<1>5. PICK x \in {0, 1} : /\ valid_values([values EXCEPT ![p] = x])
                          /\ Becomes(Clicked(s, p, x))
  <2> DEFINE next == (values[p] + 1) % 2
  <2>1. next \in {0, 1}
    BY <1>3
  <2> HIDE DEF next
  <2>2. \/ valid_values([values EXCEPT ![p] = next]) /\ Becomes(Clicked(s, p, next))
        \/ valid_values(values) /\ Becomes(Clicked(s, p, values[p]))
    BY <1>1 DEF next
  <2> QED BY <1>3, <1>4, <2>1, <2>2
<1>6. Settled(Clicked(s, p, x))
  BY <1>5, InvFound, ChosenSettled
<1> QED BY <1>5, <1>6, EventKeeps DEF Choose, Pumped

(* So does a reset, three times.                                           *)
LEMMA ResetVoiceKeeps == ASSUME EditorLimits, EditorInv, ResetVoice PROVE EditorInv'
<1>1. PICK s \in EventStates : Becomes(VoiceReset(s))
  BY DEF ResetVoice
<1> DEFINE a == Clicked(s, "Pitch", 0)
           b == Clicked(a, "Fine", 0)
           c == Clicked(b, "Formant", 0)
<1>2. "Pitch" \in Sliders /\ "Fine" \in Sliders /\ "Formant" \in Sliders
  BY DEF Sliders
<1>3. Fit(a)
  BY <1>2, InvFound, ClickedSettled DEF Settled
<1>4. Becomes(c)
  BY <1>1 DEF VoiceReset
<1> HIDE DEF a
<1>5. Fit(b)
  BY <1>2, <1>3, ClickedSettled DEF Settled
<1> HIDE DEF b
<1>6. Settled(c)
  BY <1>2, <1>5, ClickedSettled
<1> HIDE DEF c
<1> QED BY <1>4, <1>6, EventKeeps DEF ResetVoice, Pumped

(* A drag goes on in its gesture.                                          *)
LEMMA MotionKeeps == ASSUME EditorLimits, EditorInv, Motion PROVE EditorInv'
<1>1. PICK s \in EventStates, x \in Positions : Becomes(Valued(s, ui.active, x))
  BY DEF Motion
<1>2. Settled(s) /\ Fit(s) /\ s.u.active = ui.active /\ ui.active # Nobody
  BY InvFound DEF Motion
<1>3. ui.active \in Sliders /\ x \in Int
  BY <1>2, PositionInt DEF Settled
<1> DEFINE d == Valued(s, ui.active, x)
<1>4. Fit(d) /\ d.u.active = ui.active
  BY <1>2, <1>3, ValuedFits
<1>5. Becomes(d)
  BY <1>1
<1> HIDE DEF d
<1>6. Settled(d)
  BY <1>2, <1>3, <1>4 DEF Settled
<1> QED BY <1>5, <1>6, EventKeeps DEF Motion, Pumped

(* Whatever ends the gesture of an event.                                  *)
LEMMA EndKeeps ==
  ASSUME EditorInv, display, UNCHANGED life, Becomes(Ended(Calmly))
  PROVE  EditorInv'
<1>1. Settled(Ended(Calmly))
  BY InvCalm, EndedSettled
<1> QED BY <1>1, EventKeeps

(* A typed number is sent and ends its gesture.                            *)
LEMMA ReturnKeeps == ASSUME EditorLimits, EditorInv, Return PROVE EditorInv'
<1>1. PICK s \in EventStates, x \in Positions : Becomes(Ended(Valued(s, ui.active, x)))
  BY DEF Return
<1>2. Settled(s) /\ Fit(s) /\ s.u.active = ui.active /\ s.u.editing
  BY InvFound DEF Return
<1>3. ui.active \in Sliders /\ x \in Int
  BY <1>2, PositionInt DEF Settled
<1>4. Fit(Valued(s, ui.active, x))
  BY <1>2, <1>3, ValuedFits
<1>5. Settled(Ended(Valued(s, ui.active, x)))
  BY <1>4, EndedSettled
<1> QED BY <1>1, <1>5, EventKeeps DEF Return

(* A key clicks.                                                           *)
LEMMA KeyKeeps == ASSUME EditorLimits, EditorInv, Key PROVE EditorInv'
<1>1. PICK s \in EventStates, p \in Sliders :
      \E x \in {0, values[p] - 1, values[p] + 1} : Becomes(Clicked(s, p, x))
  BY DEF Key
<1>2. PICK x \in {0, values[p] - 1, values[p] + 1} : Becomes(Clicked(s, p, x))
  BY <1>1
<1>3. x \in Int
  BY InvValues DEF Controls
<1>4. Settled(Clicked(s, p, x))
  BY <1>3, InvFound, ClickedSettled
<1> QED BY <1>2, <1>4, EventKeeps DEF Key

-----------------------------------------------------------------------------
(* The window and its view come and go.                                    *)
LEMMA UntouchedSettled ==
  ASSUME Settled(Now), UNCHANGED <<values, ui>> PROVE Settled(Now)'
<1>1. Now' = Now
  BY DEF Now
<1>2. Settled(Now') <=> Settled(Now)
  BY <1>1
<1> QED BY <1>2

(* Detaching ends the gesture.                                             *)
LEMMA DetachedSettled ==
  ASSUME EditorInv, Detached
  PROVE  Settled(Now)' /\ ui'.active = Nobody /\ ~display' /\ ~shown'
<1>1. CASE display
  <2>1. Becomes(Ended(Calmly))
    BY <1>1 DEF Detached
  <2>2. Settled(Ended(Calmly)) /\ Ended(Calmly).u.active = Nobody
    BY InvCalm, EndedSettled
  <2> QED BY <2>1, <2>2, BecomesSettled DEF Detached
<1>2. CASE ~display
  <2>1. Becomes(Calmly)
    BY <1>2 DEF Detached
  <2>2. Settled(Calmly) /\ Calmly.u.active = Nobody
    BY <1>2, InvCalm DEF EditorInv, LifeOK
  <2> QED BY <2>1, <2>2, BecomesSettled DEF Detached
<1> QED BY <1>1, <1>2

(* Views appear: a window comes with its timer.                            *)
LEMMA ViewKeeps ==
  ASSUME EditorInv, Create \/ Parent \/ Show \/ Attached PROVE EditorInv'
<1>1. UNCHANGED <<adapter, values, ui>> /\ Settled(Now)
  BY DEF Create, Parent, Show, Attached, Untouched, EditorInv
<1>2. Settled(Now)'
  BY <1>1, UntouchedSettled
<1>3. LifeOK'
  <2>1. LifeOK
    BY DEF EditorInv
  <2>2. CASE Create
    BY <1>1, <2>1, <2>2 DEF LifeOK, Create
  <2>3. CASE Parent
    BY <1>1, <2>1, <2>3 DEF LifeOK, Parent
  <2>4. CASE Show
    BY <1>1, <2>1, <2>4 DEF LifeOK, Show
  <2>5. CASE Attached
    BY <1>1, <2>1, <2>5 DEF LifeOK, Attached
  <2> QED BY <2>2, <2>3, <2>4, <2>5
<1> QED BY <1>2, <1>3 DEF EditorInv

(* And disappear.                                                          *)
LEMMA CloseKeeps ==
  ASSUME EditorInv, Hide \/ Destroy \/ Removed \/ LoseFocus PROVE EditorInv'
<1>2. Settled(Ended(Calmly)) /\ Ended(Calmly).u.active = Nobody
  BY InvCalm, EndedSettled
<1>3. LifeOK
  BY DEF EditorInv
<1>4. CASE Hide
  <2>1. Settled(Now)' /\ ui'.active = Nobody
    BY <1>2, <1>4, BecomesSettled DEF Hide
  <2> QED BY <1>3, <1>4, <2>1 DEF EditorInv, LifeOK, Hide
<1>5. CASE Destroy
  <2>1. Settled(Now)' /\ ui'.active = Nobody /\ ~display' /\ ~shown'
    BY <1>5, DetachedSettled DEF Destroy
  <2> QED BY <1>3, <1>5, <2>1 DEF EditorInv, LifeOK, Destroy
<1>6. CASE Removed
  <2>1. Settled(Now)' /\ ui'.active = Nobody /\ ~display' /\ ~shown'
    BY <1>6, DetachedSettled DEF Removed
  <2> QED BY <1>3, <1>6, <2>1 DEF EditorInv, LifeOK, Removed
<1>7. CASE LoseFocus
  <2>1. Settled(Now)' /\ ui'.active = Nobody
    BY <1>2, <1>7, BecomesSettled DEF LoseFocus
  <2> QED BY <1>3, <1>7, <2>1 DEF EditorInv, LifeOK, LoseFocus, life
<1> QED BY <1>4, <1>5, <1>6, <1>7

(* Values change, each to one of its control.                              *)
LEMMA AutomateKeeps ==
  ASSUME EditorLimits, EditorInv, Automate \/ HostSets PROVE EditorInv'
<1> PICK p \in Controls : \E x \in Own(p) : values' = [values EXCEPT ![p] = x]
  BY DEF Automate, HostSets, Automated, Controls
<1>1. PICK x \in Own(p) : values' = [values EXCEPT ![p] = x]
  OBVIOUS
<1>2. UNCHANGED life /\ ui' = ui
  BY DEF Automate, HostSets
<1>3. x \in Int
  BY OwnInt
<1>4. values' \in [Controls -> Int]
  BY <1>1, <1>3, InvValues
<1>5. ASSUME NEW q \in Controls PROVE values'[q] \in Own(q)
  BY <1>1, InvValues DEF InRange
<1>6. InRange(values')
  BY <1>4, <1>5 DEF InRange
<1>7. Now \in States /\ Now.u = ui /\ Now.u.good /\ Now.u.active = Now.u.open
      /\ Now.u.active \in Sliders \cup {Nobody}
      /\ (Now.u.editing => Now.u.active # Nobody)
  BY DEF EditorInv, Settled, Fit, Now
<1>8. Now' \in States /\ Now'.u = Now.u /\ Now'.v = values'
  BY <1>2, <1>4, <1>7 DEF Now, States
<1>9. Settled(Now')
  BY <1>6, <1>7, <1>8 DEF Settled, Fit
<1>10. LifeOK'
  BY <1>2 DEF EditorInv, LifeOK, life
<1> QED BY <1>9, <1>10 DEF EditorInv

-----------------------------------------------------------------------------
(* Nothing is open, all is at its initial value.                           *)
LEMMA InitEditor == ASSUME EditorLimits, EditorInit PROVE EditorInv
<1>1. /\ values = [p \in Controls |-> 0]
      /\ ui = [active |-> Nobody, editing |-> FALSE, open |-> Nobody, yes |-> 0,
               good |-> TRUE]
  BY DEF EditorInit
<1>2. values \in [Controls -> Int]
  BY <1>1
<1>4. Limits[0] \in Nat /\ FormantLimit \in Nat
  BY DEF EditorLimits
<1>5. InRange(values)
  BY <1>1, <1>2, <1>4 DEF InRange, Own, Controls, Sliders
<1>6. Nobody \in Held
  BY DEF Held
<1>7. ui \in [active : Held, editing : BOOLEAN, open : Held, yes : Int, good : BOOLEAN]
  BY <1>1, <1>6
<1>8. Now \in States /\ Now.v = values /\ Now.u = ui
  BY <1>2, <1>7, EmptySeq DEF Now, States
<1>9. ui.active = Nobody /\ ui.open = Nobody /\ ~ui.editing /\ ui.good
  BY <1>1
<1>10. Settled(Now)
  BY <1>5, <1>8, <1>9 DEF Settled, Fit
<1>11. LifeOK
  BY <1>9 DEF EditorInit, LifeOK
<1> QED BY <1>10, <1>11 DEF EditorInv

(* Every event and every call keeps the invariant.                         *)
LEMMA NextEditor ==
  ASSUME EditorLimits, EditorInv, [EditorNext]_editorVars PROVE EditorInv'
<1>1. CASE Press
  BY <1>1, PressKeeps
<1>2. CASE PressNumber
  BY <1>2, PressNumberKeeps
<1>3. CASE Nudge
  BY <1>3, NudgeKeeps
<1>4. CASE Choose
  BY <1>4, ChooseKeeps
<1>5. CASE ResetVoice
  BY <1>5, ResetVoiceKeeps
<1>6. CASE Motion
  BY <1>6, MotionKeeps
<1>7. CASE Release \/ FocusOut \/ Escape
  BY <1>7, EndKeeps DEF Release, FocusOut, Escape, Pumped
<1>8. CASE Return
  BY <1>8, ReturnKeeps
<1>9. CASE Key
  BY <1>9, KeyKeeps
<1>10. CASE Create \/ Parent \/ Show \/ Attached
  BY <1>10, ViewKeeps
<1>11. CASE Hide \/ Destroy \/ Removed \/ LoseFocus
  BY <1>11, CloseKeeps
<1>12. CASE Automate \/ HostSets
  BY <1>12, AutomateKeeps
<1>13. CASE UNCHANGED editorVars
  <2>1. UNCHANGED <<values, ui>> /\ UNCHANGED life
    BY <1>13 DEF editorVars
  <2>2. Settled(Now)'
    BY <2>1, UntouchedSettled DEF EditorInv
  <2> QED BY <2>1, <2>2 DEF EditorInv, LifeOK, life
<1> QED BY <1>1, <1>2, <1>3, <1>4, <1>5, <1>6, <1>7, <1>8, <1>9, <1>10, <1>11,
           <1>12, <1>13 DEF EditorNext

(* Whatever the order of clicks, keys, refusals, window calls and          *)
(* automation, the editor leaves no gesture behind, sends no value out of  *)
(* place, and none that the processor refuses while the control is         *)
(* enabled, has room and nobody stored between the two looks.              *)
THEOREM SoundEditor ==
  ASSUME EditorLimits
  PROVE  EditorInit /\ [][EditorNext]_editorVars => []EditorSound
<1>1. ASSUME EditorInv PROVE EditorSound
  <2>1. Now.u = ui /\ Settled(Now) /\ LifeOK
    BY <1>1 DEF EditorInv, Now
  <2> QED BY <2>1 DEF Settled, Fit, LifeOK, EditorSound
<1> QED BY <1>1, InitEditor, NextEditor, PTL
=============================================================================
