--------------------------- MODULE TransportProofs ---------------------------
(***************************************************************************)
(* Theorems about the preview transport, for every source, window and      *)
(* kernel, and every course of blocks, events, ramps and seeks; and about  *)
(* the events of a block, for every list a host may send to the adapters.  *)
(***************************************************************************)
EXTENDS Transport, HostEvents, SequenceTheorems, FiniteSetTheorems, NaturalsInduction,
        WellFoundedInduction, TLAPS

-----------------------------------------------------------------------------
(* Natural numbers. *)

(* A set of natural numbers has a least one. *)
LEMMA LeastOf ==
  ASSUME NEW S, S \subseteq Nat, S # {}
  PROVE  \E x \in S : \A y \in S : x <= y
<1>1. IsWellFoundedOn(OpToRel(<, Nat), Nat)
  BY NatLessThanWellFounded, Zenon
<1>2. PICK x \in S : \A y \in S : ~(<<y, x>> \in OpToRel(<, Nat))
  BY <1>1, WFMin, Zenon
<1>3. \A y \in S : ~(y < x)
  BY <1>2, Zenon DEF OpToRel
<1>4. QED
  BY <1>3

(* A set with zero and every successor holds all of them. *)
LEMMA SetInduction ==
  ASSUME NEW S, 0 \in S, \A n \in Nat : n \in S => n + 1 \in S
  PROVE  \A n \in Nat : n \in S
<1> SUFFICES ASSUME Nat \ S # {} PROVE FALSE
  OBVIOUS
<1>1. PICK x \in Nat \ S : \A y \in Nat \ S : x <= y
  BY LeastOf
<1>2. x # 0 /\ x - 1 \in Nat /\ (x - 1) + 1 = x /\ ~(x <= x - 1)
  BY <1>1
<1>3. x - 1 \in S
  BY <1>1, <1>2
<1>4. QED
  BY <1>1, <1>2, <1>3

(* Quotient and remainder. *)
LEMMA Division ==
  ASSUME NEW x \in Int, NEW d \in Nat \ {0}
  PROVE  \E q \in Int, r \in 0 .. d - 1 : x = d * q + r /\ x % d = r
  OBVIOUS

(* Division leaves one remainder only. *)
LEMMA Remainder ==
  ASSUME NEW d \in Nat \ {0}, NEW q \in Int, NEW r \in 0 .. d - 1
  PROVE  (d * q + r) % d = r
<1> DEFINE x == d * q + r
<1>1. x \in Int
  OBVIOUS
<1>2. PICK p \in Int, m \in 0 .. d - 1 : x = d * p + m /\ x % d = m
  <2> HIDE DEF x
  <2>1. QED
    BY <1>1, Division
<1> DEFINE k == q - p
<1>3. k \in Int /\ d * k = m - r
  <2>1. d * (q - p) = d * q - d * p
    OBVIOUS
  <2>2. QED
    BY <1>2, <2>1
<1> HIDE DEF k
<1>4. (k >= 1 => d * k >= d) /\ (k <= -1 => d * k <= -d)
  BY <1>3
<1>5. k = 0
  BY <1>3, <1>4
<1>6. QED
  BY <1>2, <1>3, <1>5

(* A quotient lies where its bounds do. *)
LEMMA Quotient ==
  ASSUME NEW x \in Int, NEW d \in Nat \ {0}, NEW lo \in Int, NEW hi \in Int,
         d * lo <= x, x <= d * hi
  PROVE  lo <= x \div d /\ x \div d <= hi /\ x \div d \in Int
<1> DEFINE q == x \div d
<1>1. q \in Int /\ d * q <= x /\ x < d * q + d
  OBVIOUS
<1> HIDE DEF q
<1>2. d * (lo - q) = d * lo - d * q /\ d * (q - hi) = d * q - d * hi
  BY <1>1
<1>3. (lo - q >= 1 => d * (lo - q) >= d) /\ (q - hi >= 1 => d * (q - hi) >= d)
  BY <1>1
<1>4. d * (lo - q) < d /\ d * (q - hi) < d
  BY <1>1, <1>2
<1>5. QED
  BY <1>1, <1>3, <1>4 DEF q

(* A quotient of naturals is one. *)
LEMMA NaturalQuotient ==
  ASSUME NEW x \in Nat, NEW d \in Nat \ {0}
  PROVE  x \div d \in Nat
<1> DEFINE q == x \div d
<1>1. q \in Int /\ x < d * q + d
  OBVIOUS
<1> HIDE DEF q
<1>2. q <= -1 => d * q <= -d
  BY <1>1
<1>3. QED
  BY <1>1, <1>2 DEF q

(* Quotients of zero and one. *)
LEMMA SmallQuotient ==
  ASSUME NEW x \in Nat, NEW d \in Nat \ {0}
  PROVE  /\ x < d => x \div d = 0
         /\ d <= x /\ x < 2 * d => x \div d = 1
<1> DEFINE q == x \div d
<1>1. q \in Int /\ d * q <= x /\ x < d * q + d
  OBVIOUS
<1>2. q \in Nat
  BY NaturalQuotient
<1> HIDE DEF q
<1>3. (q >= 1 => d * q >= d) /\ (q >= 2 => d * q >= 2 * d) /\ (q = 0 => d * q = 0)
  BY <1>2
<1>4. QED
  BY <1>1, <1>2, <1>3 DEF q

(* A part of a distance. *)
LEMMA Between ==
  ASSUME NEW lo \in Int, NEW hi \in Int, NEW a \in lo .. hi, NEW b \in lo .. hi,
         NEW n \in Nat, NEW k \in 1 .. n
  PROVE  a + ((b - a) * k) \div n \in lo .. hi
<1> DEFINE d == b - a
           x == d * k
<1>1. n \in Nat \ {0} /\ d \in Int /\ x \in Int /\ k \in Nat
  OBVIOUS
<1>2. CASE d >= 0
  <2>1. n * 0 <= x
    BY <1>1, <1>2
  <2>2. x <= n * d
    <3>1. d \in Nat /\ n - k \in Nat
      BY <1>1, <1>2
    <3>2. d * (n - k) >= 0
      BY <3>1
    <3>3. d * (n - k) = n * d - d * k
      BY <1>1
    <3>4. QED
      BY <1>1, <3>2, <3>3
  <2> HIDE DEF d, x
  <2>3. 0 <= x \div n /\ x \div n <= d /\ x \div n \in Int
    BY <1>1, <2>1, <2>2, Quotient
  <2>4. QED
    BY <2>3 DEF d, x
<1>3. CASE d < 0
  <2>1. x <= n * 0
    BY <1>1, <1>3
  <2>2. n * d <= x
    <3>1. -d \in Nat /\ n - k \in Nat
      BY <1>1, <1>3
    <3>2. (-d) * (n - k) >= 0
      BY <3>1
    <3>3. (-d) * (n - k) = d * k - n * d
      BY <1>1
    <3>4. QED
      BY <1>1, <3>2, <3>3
  <2> HIDE DEF d, x
  <2>3. d <= x \div n /\ x \div n <= 0 /\ x \div n \in Int
    BY <1>1, <2>1, <2>2, Quotient
  <2>4. QED
    BY <2>3 DEF d, x
<1>4. QED
  BY <1>1, <1>2, <1>3

-----------------------------------------------------------------------------
(* Slots of a ring. *)

(* A lap more is the same slot. *)
LEMMA SameSlot ==
  ASSUME NEW n \in Nat \ {0}, NEW a \in Int
  PROVE  a % n \in 0 .. n - 1 /\ (a + n) % n = a % n
<1>1. PICK q \in Int, r \in 0 .. n - 1 : a = n * q + r /\ a % n = r
  BY Division
<1>2. a + n = n * (q + 1) + r
  BY <1>1
<1>3. (n * (q + 1) + r) % n = r
  BY <1>1, Remainder
<1>4. QED
  BY <1>1, <1>2, <1>3

(* Places less than a lap apart have slots of their own. *)
LEMMA OwnSlot ==
  ASSUME NEW n \in Nat \ {0}, NEW a \in Int, NEW b \in Int, a % n = b % n,
         a - b < n, b - a < n
  PROVE  a = b
<1>1. PICK q \in Int, r \in 0 .. n - 1 : a = n * q + r /\ a % n = r
  BY Division
<1>2. PICK p \in Int, s \in 0 .. n - 1 : b = n * p + s /\ b % n = s
  BY Division
<1> DEFINE k == q - p
<1>3. k \in Int /\ n * k = a - b /\ r = s
  <2>1. n * (q - p) = n * q - n * p
    OBVIOUS
  <2>2. QED
    BY <1>1, <1>2, <2>1
<1> HIDE DEF k
<1>4. (k >= 1 => n * k >= n) /\ (k <= -1 => n * k <= -n)
  BY <1>3
<1>5. k = 0
  BY <1>3, <1>4
<1>6. QED
  BY <1>1, <1>2, <1>3, <1>5

(* How far a slot is from a place. *)
Distance(n, from, slot) == (slot - from) % n

(* So far it is, and no other distance of less than a lap. *)
LEMMA SlotDistance ==
  ASSUME NEW n \in Nat \ {0}, NEW from \in Int, NEW slot \in 0 .. n - 1
  PROVE  /\ Distance(n, from, slot) \in 0 .. n - 1
         /\ (from + Distance(n, from, slot)) % n = slot
         /\ \A j \in 0 .. n - 1 :
              slot = (from + j) % n => j = Distance(n, from, slot)
<1> DEFINE k == (slot - from) % n
<1>1. PICK q \in Int, r \in 0 .. n - 1 : slot - from = n * q + r /\ k = r
  BY Division
<1>2. k \in 0 .. n - 1
  BY <1>1
<1>3. (from + k) % n = slot
  <2>1. n * (-q) = -(n * q) /\ -q \in Int /\ n * q \in Int
    BY <1>1
  <2>2. from + k = n * (-q) + slot
    BY <1>1, <2>1
  <2> HIDE DEF k
  <2>3. (n * (-q) + slot) % n = slot
    BY <2>1, Remainder
  <2>4. QED
    BY <2>2, <2>3
<1> HIDE DEF k
<1>4. ASSUME NEW j \in 0 .. n - 1, slot = (from + j) % n PROVE j = k
  <2> DEFINE a == from + j
             b == from + k
  <2>1. a \in Int /\ b \in Int /\ a - b < n /\ b - a < n
    BY <1>2
  <2>2. a % n = b % n
    BY <1>3, <1>4
  <2> HIDE DEF a, b
  <2>3. a = b
    BY <2>1, <2>2, OwnSlot
  <2>4. QED
    BY <1>2, <2>3 DEF a, b
<1>5. QED
  BY <1>2, <1>3, <1>4 DEF k, Distance

-----------------------------------------------------------------------------
(* Sizes and states. *)

(* All sizes in hops. *)
LEMMA SizesFit ==
  ASSUME TransportSizes, NEW c \in Configs, Creates(c)
  PROVE  /\ SynthesisHop(c) \in Nat /\ SynthesisHop(c) >= 2 /\ Half \in Nat /\ Half >= 1
         /\ Window(c) = 4 * SynthesisHop(c) /\ Capacity(c) = 16 * SynthesisHop(c)
         /\ TailLimit(c) = 16 * SynthesisHop(c) + 2 * Half
         /\ Half + 1 < 2 * SynthesisHop(c)
         /\ Pace(c) \in Nat /\ Parts * c.frames \in Nat
<1> DEFINE b == Base[c.mode]
           w == Window(c)
<1>1. c \in Configurations
  BY DEF TransportSizes
<1>2. b \in Nat /\ b % 4 = 0 /\ b >= 8 /\ 2 * (Half + 1) < b /\ Half \in Nat \ {0}
  BY <1>1 DEF TransportSizes, Configurations
<1>3. w = b \/ w = 2 * b
  BY <1>2 DEF Window
<1> HIDE DEF b, w
<1>4. w \in Nat /\ w % 4 = 0 /\ w >= 8 /\ 2 * (Half + 1) < w
  BY <1>2, <1>3
<1>5. w = 4 * (w \div 4) /\ w \div 4 \in Nat
  BY <1>4
<1>6. SynthesisHop(c) = w \div 4 /\ Capacity(c) = 4 * w /\ TailLimit(c) = 4 * w + 2 * Half
  BY DEF SynthesisHop, Capacity, TailLimit, w
<1>7. Pace(c) \in Nat
  <2>1. c.source_rate \in Nat /\ c.output_rate \in Nat /\ c.output_rate >= 8000
    BY <1>1 DEF Creates, Configurations
  <2> DEFINE x == Parts * c.source_rate
             d == 4 * c.output_rate
  <2>2. x \in Nat /\ d \in Nat \ {0}
    BY <2>1 DEF Parts
  <2>3. Pace(c) = x \div d
    BY DEF Pace
  <2> HIDE DEF x, d
  <2>4. QED
    BY <2>2, <2>3, NaturalQuotient
<1>8. Parts * c.frames \in Nat
  BY <1>1 DEF Configurations, Parts
<1>9. QED
  BY <1>2, <1>4, <1>5, <1>6, <1>7, <1>8 DEF w

(* What be_transport_render accepts. *)
Allowed(p) ==
  IF p = "speed" THEN 0 .. 16 ELSE IF p = "pitch" THEN -2 .. 2 ELSE -1 .. 1

Ramps == [value : Int, start : Int, target : Int, length : Nat, elapsed : Nat]

(* Controls stay in the ranges of their events, ramps under way included. *)
ControlsFit(control) ==
  /\ control \in [Parameters -> Ramps]
  /\ \A p \in Parameters :
       /\ control[p].value \in Allowed(p) /\ control[p].start \in Allowed(p)
       /\ control[p].target \in Allowed(p)

States(c) ==
  [position : Int, anchor : Int, clock : Int, analyses : Int, frame_clock : Nat,
   resampled : Nat, tail : Nat, spectrum : BOOLEAN,
   control : [Parameters -> Ramps],
   pv : [0 .. Capacity(c) - 1 -> [at : Int, heard : BOOLEAN]],
   ola : [0 .. Capacity(c) - 1 -> BOOLEAN]]

(* Ranges are intervals. *)
LEMMA AllowedIs ==
  ASSUME NEW p \in Parameters
  PROVE  \E lo \in Int, hi \in Int : Allowed(p) = lo .. hi
<1>1. Allowed(p) = 0 .. 16 \/ Allowed(p) = -2 .. 2 \/ Allowed(p) = -1 .. 1
  BY DEF Allowed
<1>2. 0 \in Int /\ 16 \in Int /\ -2 \in Int /\ 2 \in Int /\ -1 \in Int /\ 1 \in Int
  OBVIOUS
<1>3. QED
  BY <1>1, <1>2, Zenon

(* A ramp stays between its ends. *)
LEMMA TickFits ==
  ASSUME NEW p \in Parameters, NEW r \in Ramps, r.value \in Allowed(p),
         r.start \in Allowed(p), r.target \in Allowed(p)
  PROVE  /\ Tick(r) \in Ramps /\ Tick(r).value \in Allowed(p)
         /\ Tick(r).start \in Allowed(p) /\ Tick(r).target \in Allowed(p)
<1>1. CASE r.elapsed >= r.length
  BY <1>1 DEF Tick
<1>2. CASE ~(r.elapsed >= r.length)
  <2> DEFINE v == r.start + ((r.target - r.start) * (r.elapsed + 1)) \div r.length
  <2>1. Tick(r) = [r EXCEPT !.elapsed = r.elapsed + 1, !.value = v]
    BY <1>2 DEF Tick
  <2>2. r.length \in Nat /\ r.elapsed + 1 \in 1 .. r.length
    BY <1>2 DEF Ramps
  <2>3. PICK lo \in Int, hi \in Int : Allowed(p) = lo .. hi
    BY AllowedIs
  <2>4. v \in lo .. hi
    BY <2>2, <2>3, Between
  <2> HIDE DEF v
  <2>5. v \in Int /\ v \in Allowed(p) /\ r.elapsed + 1 \in Nat
    BY <2>2, <2>3, <2>4
  <2>6. QED
    BY <2>1, <2>5 DEF Ramps
<1>3. QED
  BY <1>1, <1>2

(* All of them a frame later. *)
LEMMA TicksFit ==
  ASSUME NEW control, ControlsFit(control)
  PROVE  ControlsFit([p \in DOMAIN control |-> Tick(control[p])])
<1> DEFINE next == [p \in DOMAIN control |-> Tick(control[p])]
<1>1. DOMAIN control = Parameters /\ \A p \in Parameters : control[p] \in Ramps
  BY DEF ControlsFit
<1>2. \A p \in Parameters : next[p] = Tick(control[p])
  BY <1>1
<1>3. \A p \in Parameters :
        /\ Tick(control[p]) \in Ramps /\ Tick(control[p]).value \in Allowed(p)
        /\ Tick(control[p]).start \in Allowed(p)
        /\ Tick(control[p]).target \in Allowed(p)
  BY <1>1, TickFits DEF ControlsFit
<1>4. next \in [Parameters -> Ramps]
  BY <1>1, <1>3
<1> HIDE DEF next
<1>5. ControlsFit(next)
  BY <1>2, <1>3, <1>4 DEF ControlsFit
<1>6. QED
  BY <1>5 DEF next

(* A ramp to a value in range. *)
LEMMA TowardsFits ==
  ASSUME NEW p \in Parameters, NEW r \in Ramps, r.value \in Allowed(p),
         NEW x \in Allowed(p), NEW n \in Nat
  PROVE  /\ Towards(r, x, n) \in Ramps /\ Towards(r, x, n).value \in Allowed(p)
         /\ Towards(r, x, n).start \in Allowed(p)
         /\ Towards(r, x, n).target \in Allowed(p)
<1>1. Allowed(p) \subseteq Int
  BY AllowedIs
<1>2. QED
  BY <1>1 DEF Towards, Ramps

(* The pitch moves the kernel by a quarter to four samples. *)
LEMMA QuartersFit ==
  ASSUME NEW octaves \in Allowed("pitch")
  PROVE  Quarters(octaves) \in 1 .. 16
<1>1. octaves \in {-2, -1, 0, 1, 2}
  BY DEF Allowed
<1>2. 2^0 = 1 /\ 2^1 = 2 /\ 2^2 = 4 /\ 2^3 = 8 /\ 2^4 = 16
  OBVIOUS
<1>3. -2 + 2 = 0 /\ -1 + 2 = 1 /\ 0 + 2 = 2 /\ 1 + 2 = 3 /\ 2 + 2 = 4
  OBVIOUS
<1>4. Quarters(octaves) \in {1, 2, 4, 8, 16}
  BY <1>1, <1>2, <1>3 DEF Quarters
<1>5. QED
  BY <1>4

-----------------------------------------------------------------------------
(* The invariant. *)

(* Where source audio reaches: no further than the window of the last frame *)
(* that had some, less what the tail has counted since.                     *)
Reached(c, s, at) == 4 * at + s.tail <= s.resampled + 4 * (Half + Window(c))

(* How far ahead of frame_clock a slot is. *)
Ahead(c, s, slot) == Distance(Capacity(c), s.frame_clock, slot)

(* The last lap of finished samples is in the ring, each in its slot. *)
Own(c, s) ==
  \A at \in Nat : at < s.frame_clock /\ s.frame_clock <= at + Capacity(c) =>
    s.pv[at % Capacity(c)].at = at

(* Nothing is heard further than source audio reaches, and the overlap      *)
(* buffer is silent a window ahead of frame_clock.                          *)
Heard(c, s) ==
  /\ \A slot \in 0 .. Capacity(c) - 1 :
       s.pv[slot].heard => Reached(c, s, s.pv[slot].at)
  /\ \A slot \in 0 .. Capacity(c) - 1 :
       s.ola[slot] => /\ Ahead(c, s, slot) < Window(c)
                      /\ Reached(c, s, s.frame_clock + Ahead(c, s, slot))

(* What a synthesis frame and an output frame both leave true. *)
Held(c, s) ==
  /\ s \in States(c)
  /\ ControlsFit(s.control)
  /\ s.tail <= TailLimit(c)
  /\ s.position < Parts * c.frames => s.tail = 0
  /\ Own(c, s)
  /\ Heard(c, s)

(* Between output frames synthesis is a hop ahead at most and three samples *)
(* late at most, except before the first of them.                           *)
Paced(c, s) ==
  /\ s.frame_clock <= Needed(s) + SynthesisHop(c)
  /\ (s.frame_clock = 0 /\ s.resampled = 0) \/ Needed(s) <= s.frame_clock + 3

Good(c, s) == Held(c, s) /\ Paced(c, s)

(* What that distance is. *)
LEMMA AheadIs ==
  ASSUME TransportSizes, NEW c \in Configs, Creates(c), NEW s, s.frame_clock \in Nat,
         NEW slot \in 0 .. Capacity(c) - 1
  PROVE  /\ Ahead(c, s, slot) \in 0 .. Capacity(c) - 1
         /\ (s.frame_clock + Ahead(c, s, slot)) % Capacity(c) = slot
         /\ \A j \in 0 .. Capacity(c) - 1 :
              slot = (s.frame_clock + j) % Capacity(c) => j = Ahead(c, s, slot)
<1> DEFINE n == Capacity(c)
           from == s.frame_clock
           d == Distance(n, from, slot)
<1>1. n \in Nat \ {0} /\ from \in Int
  BY SizesFit
<1>2. slot \in 0 .. n - 1
  OBVIOUS
<1>3. Ahead(c, s, slot) = d
  BY DEF Ahead
<1> HIDE DEF n, from
<1>4. /\ d \in 0 .. n - 1 /\ (from + d) % n = slot
      /\ \A j \in 0 .. n - 1 : slot = (from + j) % n => j = d
  BY <1>1, <1>2, SlotDistance
<1> HIDE DEF d
<1>5. QED
  BY <1>3, <1>4, Zenon DEF n, from

(* The slots from one on are those less than so many ahead of it. *)
LEMMA SlotsAre ==
  ASSUME TransportSizes, NEW c \in Configs, Creates(c), NEW s, s.frame_clock \in Nat,
         NEW slot \in 0 .. Capacity(c) - 1, NEW count \in 0 .. Capacity(c)
  PROVE  slot \in Slots(c, s.frame_clock, count) <=> Ahead(c, s, slot) < count
<1> DEFINE n == Capacity(c)
           from == s.frame_clock
           d == Distance(n, from, slot)
<1>1. n \in Nat \ {0} /\ from \in Int
  BY SizesFit
<1>2. /\ d \in 0 .. n - 1 /\ (from + d) % n = slot
      /\ \A j \in 0 .. n - 1 : slot = (from + j) % n => j = d
  <2> HIDE DEF n, from
  <2>1. slot \in 0 .. n - 1
    BY DEF n
  <2>2. QED
    BY <1>1, <2>1, SlotDistance
<1>3. slot \in Slots(c, from, count) <=> \E j \in 0 .. count - 1 : slot = (from + j) % n
  BY DEF Slots
<1>4. Ahead(c, s, slot) = d
  BY DEF Ahead
<1>5. count \in 0 .. n
  OBVIOUS
<1> HIDE DEF n, from, d
<1>6. d < count => d \in 0 .. count - 1
  BY <1>1, <1>2, <1>5
<1>7. \A j \in 0 .. count - 1 : j \in 0 .. n - 1 /\ j < count
  BY <1>1, <1>5
<1>8. QED
  BY <1>2, <1>3, <1>4, <1>6, <1>7 DEF from

(* A hop later every slot is a hop nearer. *)
LEMMA AheadLess ==
  ASSUME TransportSizes, NEW c \in Configs, Creates(c), NEW s, s.frame_clock \in Nat,
         NEW t, t.frame_clock = s.frame_clock + SynthesisHop(c),
         NEW slot \in 0 .. Capacity(c) - 1, Ahead(c, s, slot) >= SynthesisHop(c)
  PROVE  Ahead(c, t, slot) = Ahead(c, s, slot) - SynthesisHop(c)
<1> DEFINE n == Capacity(c)
           from == s.frame_clock
           hop == SynthesisHop(c)
           d == Distance(n, from, slot)
<1>1. n \in Nat \ {0} /\ from \in Int /\ from \in Nat /\ hop \in Nat
      /\ from + hop \in Int
  BY SizesFit
<1>2. slot \in 0 .. n - 1 /\ d >= hop
  BY DEF Ahead
<1>3. t.frame_clock = from + hop
  OBVIOUS
<1>4. Ahead(c, s, slot) = d
  BY DEF Ahead
<1>5. Ahead(c, t, slot) = Distance(n, from + hop, slot)
  BY <1>3 DEF Ahead
<1> HIDE DEF n, from, hop, d
<1>6. d \in 0 .. n - 1 /\ (from + d) % n = slot
  BY <1>1, <1>2, SlotDistance DEF d
<1>7. d - hop \in 0 .. n - 1 /\ (from + hop) + (d - hop) = from + d
  BY <1>1, <1>2, <1>6
<1>8. slot = ((from + hop) + (d - hop)) % n
  BY <1>6, <1>7
<1>9. \A j \in 0 .. n - 1 :
        slot = ((from + hop) + j) % n => j = Distance(n, from + hop, slot)
  BY <1>1, <1>2, SlotDistance
<1>10. d - hop = Distance(n, from + hop, slot)
  BY <1>7, <1>8, <1>9
<1>11. QED
  BY <1>4, <1>5, <1>10 DEF hop

-----------------------------------------------------------------------------
(* A synthesis frame. *)

(* What it writes. *)
LEMMA FrameWrites ==
  ASSUME TransportSizes, NEW c \in Configs, Creates(c), NEW s \in States(c)
  PROVE  LET t == Frame(c, s)
         IN /\ t \in States(c)
            /\ t.position = s.position /\ t.tail = s.tail /\ t.clock = s.clock
            /\ t.resampled = s.resampled /\ t.control = s.control
            /\ t.frame_clock = s.frame_clock + SynthesisHop(c)
            /\ \A slot \in 0 .. Capacity(c) - 1 :
                 LET done == Ahead(c, s, slot) < SynthesisHop(c)
                     mixed == \/ s.ola[slot]
                              \/ Sounding(c, s) /\ Ahead(c, s, slot) < Window(c)
                 IN /\ t.ola[slot] <=> ~done /\ mixed
                    /\ done => /\ t.pv[slot].at = s.frame_clock + Ahead(c, s, slot)
                               /\ t.pv[slot].heard <=> mixed
                    /\ ~done => t.pv[slot] = s.pv[slot]
<1> DEFINE a == Analysed(c, s)
           places == 0 .. Capacity(c) - 1
           added == Slots(c, s.frame_clock, Window(c))
           done == Slots(c, s.frame_clock, SynthesisHop(c))
           mixed == [slot \in DOMAIN s.ola |->
                      s.ola[slot] \/ (Sounding(c, s) /\ slot \in added)]
           ola == [slot \in DOMAIN s.ola |-> slot \notin done /\ mixed[slot]]
           pv == [slot \in DOMAIN s.pv |->
                    IF slot \notin done THEN s.pv[slot]
                    ELSE [at |-> s.frame_clock
                                   + ((slot - s.frame_clock) % Capacity(c)),
                          heard |-> mixed[slot]]]
           t == Frame(c, s)
<1>1. /\ a \in States(c) /\ a.position = s.position /\ a.tail = s.tail
      /\ a.clock = s.clock /\ a.resampled = s.resampled
      /\ a.control = s.control /\ a.frame_clock = s.frame_clock
  <2>1. CASE ~Sounding(c, s) \/ ~Refresh(c, s)
    BY <2>1 DEF Analysed
  <2>2. CASE ~(~Sounding(c, s) \/ ~Refresh(c, s))
    <3> DEFINE n == s.analyses + (IF c.mode \in Spectral THEN 2 ELSE 1)
               b == s.spectrum \/ c.mode \in Spectral
    <3>1. a = [s EXCEPT !.anchor = s.position, !.analyses = n, !.spectrum = b]
      BY <2>2 DEF Analysed
    <3>2. n \in Int /\ b \in BOOLEAN /\ s.position \in Int
      BY DEF States
    <3> HIDE DEF n, b, a
    <3>3. QED
      BY <3>1, <3>2 DEF States
  <2>3. QED
    BY <2>1, <2>2
<1>2. t = [a EXCEPT !.ola = ola, !.pv = pv, !.frame_clock = a.frame_clock + SynthesisHop(c)]
  BY DEF Frame
<1>3. /\ Capacity(c) \in Nat \ {0} /\ s.frame_clock \in Nat /\ SynthesisHop(c) \in Nat
      /\ SynthesisHop(c) \in 0 .. Capacity(c) /\ Window(c) \in 0 .. Capacity(c)
  <2>1. s.frame_clock \in Nat
    BY DEF States
  <2>2. SynthesisHop(c) \in Nat /\ SynthesisHop(c) >= 2 /\ Window(c) = 4 * SynthesisHop(c) /\ Capacity(c) = 16 * SynthesisHop(c)
    BY SizesFit, Zenon
  <2>3. QED
    BY <2>1, <2>2
<1>4. DOMAIN s.ola = places /\ DOMAIN s.pv = places
  BY DEF States
<1>5. \A slot \in places :
        /\ slot \in done <=> Ahead(c, s, slot) < SynthesisHop(c)
        /\ slot \in added <=> Ahead(c, s, slot) < Window(c)
        /\ Ahead(c, s, slot) = (slot - s.frame_clock) % Capacity(c)
        /\ Ahead(c, s, slot) \in Int
  <2> SUFFICES ASSUME NEW slot \in places
               PROVE  /\ slot \in done <=> Ahead(c, s, slot) < SynthesisHop(c)
                      /\ slot \in added <=> Ahead(c, s, slot) < Window(c)
                      /\ Ahead(c, s, slot) = (slot - s.frame_clock) % Capacity(c)
                      /\ Ahead(c, s, slot) \in Int
    OBVIOUS
  <2> HIDE DEF done, added
  <2>1. slot \in done <=> Ahead(c, s, slot) < SynthesisHop(c)
    BY <1>3, SlotsAre DEF done
  <2>2. slot \in added <=> Ahead(c, s, slot) < Window(c)
    BY <1>3, SlotsAre DEF added
  <2>3. Ahead(c, s, slot) = (slot - s.frame_clock) % Capacity(c)
    BY DEF Ahead, Distance
  <2>4. Ahead(c, s, slot) \in Int
    BY <1>3, <2>3
  <2>5. QED
    BY <2>1, <2>2, <2>3, <2>4
<1> HIDE DEF added, done, a
<1>6. \A slot \in places :
        /\ mixed[slot] \in BOOLEAN
        /\ mixed[slot] <=> s.ola[slot] \/ (Sounding(c, s) /\ slot \in added)
  BY <1>4
<1> HIDE DEF mixed
<1>7. \A slot \in places :
        /\ ola[slot] \in BOOLEAN
        /\ ola[slot] <=> slot \notin done /\ mixed[slot]
  BY <1>4
<1>8. \A slot \in places :
        /\ slot \notin done => pv[slot] = s.pv[slot]
        /\ slot \in done =>
             pv[slot] = [at |-> s.frame_clock + ((slot - s.frame_clock) % Capacity(c)),
                         heard |-> mixed[slot]]
  BY <1>4
<1>9. ola \in [places -> BOOLEAN]
  BY <1>4, <1>7
<1>10. pv \in [places -> [at : Int, heard : BOOLEAN]]
  <2>1. \A slot \in places : pv[slot] \in [at : Int, heard : BOOLEAN]
    <3> SUFFICES ASSUME NEW slot \in places
                 PROVE  pv[slot] \in [at : Int, heard : BOOLEAN]
      OBVIOUS
    <3>1. CASE slot \in done
      <4> DEFINE x == s.frame_clock + ((slot - s.frame_clock) % Capacity(c))
      <4>1. x \in Int
        BY <1>3, <1>5
      <4>2. pv[slot] = [at |-> x, heard |-> mixed[slot]]
        BY <1>8, <3>1
      <4> HIDE DEF x, pv
      <4>3. QED
        BY <1>6, <4>1, <4>2
    <3>2. CASE slot \notin done
      <4>1. pv[slot] = s.pv[slot]
        BY <1>8, <3>2
      <4>2. s.pv[slot] \in [at : Int, heard : BOOLEAN]
        BY DEF States
      <4> HIDE DEF pv
      <4>3. QED
        BY <4>1, <4>2
    <3>3. QED
      BY <3>1, <3>2
  <2>2. pv = [slot \in places |-> pv[slot]]
    BY <1>4
  <2> HIDE DEF pv
  <2>3. QED
    BY <2>1, <2>2
<1> HIDE DEF ola, pv, t
<1>11. /\ t \in States(c) /\ t.position = a.position /\ t.tail = a.tail
       /\ t.clock = a.clock /\ t.resampled = a.resampled /\ t.control = a.control
       /\ t.frame_clock = a.frame_clock + SynthesisHop(c) /\ t.ola = ola /\ t.pv = pv
  <2>1. a.frame_clock + SynthesisHop(c) \in Nat
    BY <1>1, <1>3
  <2>2. QED
    BY <1>1, <1>2, <1>9, <1>10, <2>1 DEF States
<1>12. ASSUME NEW slot \in places, NEW d, d <=> Ahead(c, s, slot) < SynthesisHop(c),
              NEW m, m <=> s.ola[slot] \/ (Sounding(c, s) /\ Ahead(c, s, slot) < Window(c))
       PROVE  /\ t.ola[slot] <=> ~d /\ m
              /\ d => /\ t.pv[slot].at = s.frame_clock + Ahead(c, s, slot)
                      /\ t.pv[slot].heard <=> m
              /\ ~d => t.pv[slot] = s.pv[slot]
  <2>1. t.ola[slot] <=> ~d /\ m
    BY <1>5, <1>6, <1>7, <1>11, <1>12, Zenon
  <2>2. ~d => t.pv[slot] = s.pv[slot]
    BY <1>5, <1>8, <1>11, <1>12, Zenon
  <2>3. ASSUME d
        PROVE  /\ t.pv[slot].at = s.frame_clock + Ahead(c, s, slot)
               /\ t.pv[slot].heard <=> m
    <3>1. t.pv[slot] = [at |-> s.frame_clock + Ahead(c, s, slot), heard |-> mixed[slot]]
      BY <1>5, <1>8, <1>11, <1>12, <2>3, Zenon
    <3>2. /\ t.pv[slot].at = s.frame_clock + Ahead(c, s, slot)
          /\ t.pv[slot].heard = mixed[slot]
      BY <3>1
    <3>3. QED
      BY <1>5, <1>6, <1>12, <3>2, Zenon
  <2>4. QED
    BY <2>1, <2>2, <2>3, Zenon
<1>13. QED
  BY <1>1, <1>11, <1>12 DEF t

(* While source audio is left, a frame that is due keeps what it must. *)
LEMMA FrameHolds ==
  ASSUME TransportSizes, NEW c \in Configs, Creates(c), NEW s, Held(c, s),
         s.frame_clock <= Needed(s)
  PROVE  Held(c, Frame(c, s))
<1> DEFINE t == Frame(c, s)
           n == Capacity(c)
           hop == SynthesisHop(c)
           from == s.frame_clock
           D(slot) == Ahead(c, s, slot)
<1>1. /\ hop \in Nat /\ hop >= 2 /\ Half \in Nat
      /\ Window(c) = 4 * hop /\ n = 16 * hop /\ n \in Nat \ {0}
  <2>1. SynthesisHop(c) \in Nat /\ SynthesisHop(c) >= 2 /\ Half \in Nat
        /\ Window(c) = 4 * SynthesisHop(c) /\ Capacity(c) = 16 * SynthesisHop(c)
    BY SizesFit, Zenon
  <2>2. QED
    BY <2>1
<1>2. s \in States(c) /\ ControlsFit(s.control) /\ s.tail <= TailLimit(c)
      /\ (Sounding(c, s) => s.tail = 0) /\ Own(c, s) /\ Heard(c, s)
  BY DEF Held, Sounding
<1>3. from \in Nat /\ s.tail \in Nat /\ s.resampled \in Nat
  BY <1>2 DEF States
<1>4. /\ t \in States(c)
      /\ t.position = s.position /\ t.tail = s.tail
      /\ t.resampled = s.resampled /\ t.control = s.control
      /\ t.frame_clock = from + hop
  BY <1>2, FrameWrites
<1>5. \A slot \in 0 .. n - 1 :
        /\ t.ola[slot] => /\ ~(D(slot) < hop)
                          /\ s.ola[slot] \/ (Sounding(c, s) /\ D(slot) < Window(c))
        /\ D(slot) < hop =>
             /\ t.pv[slot].at = from + D(slot)
             /\ t.pv[slot].heard =>
                  s.ola[slot] \/ (Sounding(c, s) /\ D(slot) < Window(c))
        /\ ~(D(slot) < hop) => t.pv[slot] = s.pv[slot]
  BY <1>2, FrameWrites
<1>6. \A slot \in 0 .. n - 1 :
        /\ D(slot) \in 0 .. n - 1 /\ (from + D(slot)) % n = slot
        /\ \A j \in 0 .. n - 1 : slot = (from + j) % n => j = D(slot)
        /\ ~(D(slot) < hop) => Ahead(c, t, slot) = D(slot) - hop
  <2> SUFFICES ASSUME NEW slot \in 0 .. n - 1
               PROVE  /\ D(slot) \in 0 .. n - 1 /\ (from + D(slot)) % n = slot
                      /\ \A j \in 0 .. n - 1 : slot = (from + j) % n => j = D(slot)
                      /\ ~(D(slot) < hop) => Ahead(c, t, slot) = D(slot) - hop
    OBVIOUS
  <2>1. /\ D(slot) \in 0 .. n - 1 /\ (from + D(slot)) % n = slot
        /\ \A j \in 0 .. n - 1 : slot = (from + j) % n => j = D(slot)
    BY <1>3, AheadIs, Zenon
  <2>2. ASSUME ~(D(slot) < hop) PROVE Ahead(c, t, slot) = D(slot) - hop
    <3>1. D(slot) \in Int
      BY <1>1, <2>1
    <3>2. D(slot) >= hop
      BY <1>1, <2>2, <3>1
    <3> HIDE DEF t
    <3>3. QED
      BY <1>3, <1>4, <3>2, AheadLess
  <2>3. QED
    BY <2>1, <2>2, Zenon
<1>7. \A at : Reached(c, t, at) <=> Reached(c, s, at)
  BY <1>4, Zenon DEF Reached
<1>8. \A slot \in 0 .. n - 1 :
        s.ola[slot] \/ (Sounding(c, s) /\ D(slot) < Window(c)) =>
          D(slot) < Window(c) /\ Reached(c, s, from + D(slot))
  <2> SUFFICES ASSUME NEW slot \in 0 .. n - 1,
                      s.ola[slot] \/ (Sounding(c, s) /\ D(slot) < Window(c))
               PROVE  D(slot) < Window(c) /\ Reached(c, s, from + D(slot))
    OBVIOUS
  <2>1. CASE s.ola[slot]
    BY <1>2, <2>1 DEF Heard
  <2>2. CASE Sounding(c, s) /\ D(slot) < Window(c)
    <3>1. s.tail = 0 /\ D(slot) \in Int /\ D(slot) <= Window(c) - 1
      BY <1>1, <1>2, <1>6, <2>2
    <3>2. from <= s.resampled \div 4 + Half + 1
      BY DEF Needed, Center
    <3>3. 4 * (s.resampled \div 4) <= s.resampled /\ s.resampled \div 4 \in Int
      BY <1>3
    <3> HIDE DEF from, D
    <3>4. QED
      BY <1>1, <1>3, <2>2, <3>1, <3>2, <3>3 DEF Reached
  <2>3. QED
    BY <2>1, <2>2
<1>9. Own(c, t)
  <2> SUFFICES ASSUME NEW at \in Nat, at < from + hop, from + hop <= at + n
               PROVE  t.pv[at % n].at = at
    <3> HIDE DEF t
    <3> QED  BY <1>4 DEF Own
  <2> DEFINE slot == at % n
  <2>1. slot \in 0 .. n - 1
    <3>1. at \in Int
      OBVIOUS
    <3> HIDE DEF n
    <3>2. QED
      BY <1>1, <3>1, SameSlot, Zenon
  <2>2. CASE at >= from
    <3>1. at - from \in 0 .. n - 1 /\ at - from < hop /\ from + (at - from) = at
      <4> HIDE DEF from, hop
      <4> QED  BY <1>1, <1>3, <2>2
    <3>2. D(slot) = at - from
      BY <1>6, <2>1, <3>1
    <3>3. t.pv[slot].at = from + D(slot)
      BY <1>5, <2>1, <3>1, <3>2
    <3>4. QED
      BY <3>1, <3>2, <3>3
  <2>3. CASE at < from
    <3>1. ~(D(slot) < hop)
      <4> SUFFICES ASSUME D(slot) < hop PROVE FALSE
        OBVIOUS
      <4> DEFINE b == from + D(slot)
      <4>1. D(slot) \in 0 .. n - 1 /\ b % n = slot
        BY <1>6, <2>1
      <4> HIDE DEF D, slot
      <4>2. b \in Int /\ at - b < n /\ b - at < n /\ b # at
        <5> HIDE DEF n, hop, from
        <5> QED  BY <1>1, <1>3, <2>3, <4>1
      <4> HIDE DEF n, b
      <4>3. at % n = b % n
        BY <4>1 DEF slot
      <4>4. at = b
        BY <1>1, <4>2, <4>3, OwnSlot
      <4>5. QED
        BY <4>2, <4>4
    <3>2. t.pv[slot] = s.pv[slot]
      BY <1>5, <2>1, <3>1
    <3>3. from <= at + n
      <4> HIDE DEF n, hop, from
      <4> QED  BY <1>1, <1>3
    <3>4. s.pv[slot].at = at
      BY <1>2, <2>3, <3>3 DEF Own
    <3>5. QED
      BY <3>2, <3>4
  <2>4. QED
    BY <1>3, <2>2, <2>3
<1>10. Heard(c, t)
  <2>1. ASSUME NEW slot \in 0 .. n - 1, t.pv[slot].heard
        PROVE  Reached(c, t, t.pv[slot].at)
    <3>1. CASE D(slot) < hop
      BY <1>5, <1>7, <1>8, <2>1, <3>1, Zenon
    <3>2. CASE ~(D(slot) < hop)
      <4>1. t.pv[slot] = s.pv[slot]
        BY <1>5, <3>2
      <4>2. Reached(c, s, s.pv[slot].at)
        BY <1>2, <2>1, <4>1 DEF Heard
      <4>3. QED
        BY <1>7, <4>1, <4>2
    <3>3. QED
      BY <3>1, <3>2
  <2>2. ASSUME NEW slot \in 0 .. n - 1, t.ola[slot]
        PROVE  /\ Ahead(c, t, slot) < Window(c)
               /\ Reached(c, t, t.frame_clock + Ahead(c, t, slot))
    <3>1. ~(D(slot) < hop) /\ (s.ola[slot] \/ (Sounding(c, s) /\ D(slot) < Window(c)))
      BY <1>5, <2>2
    <3>2. D(slot) < Window(c) /\ Reached(c, s, from + D(slot))
      BY <1>8, <3>1
    <3>3. Ahead(c, t, slot) = D(slot) - hop /\ D(slot) \in Int
      BY <1>6, <3>1
    <3> HIDE DEF t, D, hop, from
    <3>4. (from + hop) + (D(slot) - hop) = from + D(slot) /\ D(slot) - hop < Window(c)
      BY <1>1, <1>3, <3>2, <3>3
    <3>5. QED
      BY <1>4, <1>7, <3>2, <3>3, <3>4
  <2> HIDE DEF t
  <2>3. QED
    BY <2>1, <2>2 DEF Heard
<1> HIDE DEF t
<1>11. t.tail <= TailLimit(c) /\ (t.position < Parts * c.frames => t.tail = 0)
  BY <1>2, <1>4 DEF Sounding
<1>12. Held(c, t)
  BY <1>2, <1>4, <1>9, <1>10, <1>11, Zenon DEF Held
<1>13. QED
  BY <1>12 DEF t

(* At most two frames are due before an output frame. *)
LEMMA FewDue ==
  ASSUME TransportSizes, NEW c \in Configs, Creates(c), NEW s, Good(c, s)
  PROVE  LET ahead == Needed(s) - s.frame_clock
         IN /\ ahead \in Int /\ ahead < 2 * SynthesisHop(c) /\ -SynthesisHop(c) <= ahead
            /\ ahead < 0 => FramesDue(c, s) = 0
            /\ 0 <= ahead /\ ahead < SynthesisHop(c) => FramesDue(c, s) = 1
            /\ SynthesisHop(c) <= ahead => FramesDue(c, s) = 2
<1> DEFINE hop == SynthesisHop(c)
           need == Needed(s)
           from == s.frame_clock
           x == need - from
<1>1. hop \in Nat /\ hop >= 2 /\ Half \in Nat /\ Half + 1 < 2 * hop
  <2>1. SynthesisHop(c) \in Nat /\ SynthesisHop(c) >= 2 /\ Half \in Nat /\ Half + 1 < 2 * SynthesisHop(c)
    BY SizesFit, Zenon
  <2>2. QED
    BY <2>1
<1>2. from \in Nat /\ s.resampled \in Nat
  BY DEF Good, Held, States
<1>3. /\ from <= need + hop
      /\ (from = 0 /\ s.resampled = 0) \/ need <= from + 3
  BY DEF Good, Paced
<1>4. need = s.resampled \div 4 + Half + 1
  BY DEF Needed, Center
<1>5. need \in Nat /\ (s.resampled = 0 => need = Half + 1)
  <2>1. s.resampled \div 4 \in Nat /\ (s.resampled = 0 => s.resampled \div 4 = 0)
    BY <1>2
  <2> HIDE DEF need
  <2>2. QED
    BY <1>1, <1>4, <2>1
<1>6. FramesDue(c, s) = IF from > need THEN 0 ELSE x \div hop + 1
  BY DEF FramesDue
<1> HIDE DEF hop, need, from
<1>7. x \in Int /\ x < 2 * hop /\ -hop <= x /\ (x < 0 <=> from > need)
  BY <1>1, <1>2, <1>3, <1>5
<1> HIDE DEF x
<1>8. 0 <= x /\ x < hop => x \div hop = 0
  BY <1>1, <1>7, SmallQuotient
<1>9. hop <= x => x \div hop = 1
  <2> SUFFICES ASSUME hop <= x PROVE x \div hop = 1
    OBVIOUS
  <2>1. x \in Nat /\ hop \in Nat \ {0}
    BY <1>1, <1>7
  <2>2. QED
    BY <1>7, <2>1, SmallQuotient
<1>10. QED
  BY <1>1, <1>6, <1>7, <1>8, <1>9 DEF x, hop, need, from

(* What Framed adds. *)
LEMMA FramedIs ==
  ASSUME NEW c, NEW s
  PROVE  /\ FramesDue(c, s) = 0 => Framed(c, s) = s
         /\ FramesDue(c, s) = 1 => Framed(c, s) = Frame(c, s)
         /\ FramesDue(c, s) = 2 => Framed(c, s) = Frame(c, Frame(c, s))
<1> DEFINE F(f, n) == f = [k \in 0 .. n |-> IF k = 0 THEN s ELSE Frame(c, f[k - 1])]
           n == FramesDue(c, s)
<1>1. Framed(c, s) = (CHOOSE f : F(f, n))[n]
  BY DEF Framed
<1>2. ASSUME n \in {0, 1, 2} PROVE F(CHOOSE f : F(f, n), n)
  <2> DEFINE g == [k \in 0 .. n |-> IF k = 0 THEN s ELSE IF k = 1 THEN Frame(c, s)
                                    ELSE Frame(c, Frame(c, s))]
             e == [k \in 0 .. n |-> IF k = 0 THEN s ELSE Frame(c, g[k - 1])]
  <2> HIDE DEF n
  <2>1. \A k \in 0 .. n : g[k] = e[k]
    <3> SUFFICES ASSUME NEW k \in 0 .. n PROVE g[k] = e[k]
      OBVIOUS
    <3>1. k \in {0, 1, 2} /\ k \in 0 .. n /\ (k # 0 => k - 1 \in 0 .. n)
      BY <1>2
    <3>2. CASE k = 0
      BY <3>1, <3>2
    <3>3. CASE k = 1
      BY <3>1, <3>3
    <3>4. CASE k = 2
      BY <3>1, <3>4
    <3>5. QED
      BY <3>1, <3>2, <3>3, <3>4
  <2>2. g = e
    BY <2>1
  <2>3. F(g, n)
    BY <2>2, Zenon
  <2> HIDE DEF g, F
  <2>4. QED
    BY <2>3
<1> DEFINE f == CHOOSE f : F(f, n)
<1>3. Framed(c, s) = f[n]
  BY <1>1
<1>4. n \in {0, 1, 2} =>
        f = [k \in 0 .. n |-> IF k = 0 THEN s ELSE Frame(c, f[k - 1])]
  BY <1>2, Zenon
<1> HIDE DEF f, n
<1>5. n = 0 => f[0] = s
  BY <1>4
<1>6. n = 1 => f[1] = Frame(c, s)
  <2> SUFFICES ASSUME n = 1 PROVE f[1] = Frame(c, s)
    OBVIOUS
  <2>1. f[0] = s /\ f[1] = Frame(c, f[0])
    BY <1>4
  <2>2. QED
    BY <2>1
<1>7. n = 2 => f[2] = Frame(c, Frame(c, s))
  <2> SUFFICES ASSUME n = 2 PROVE f[2] = Frame(c, Frame(c, s))
    OBVIOUS
  <2>1. f[0] = s /\ f[1] = Frame(c, f[0]) /\ f[2] = Frame(c, f[1])
    BY <1>4
  <2>2. QED
    BY <2>1
<1>8. QED
  BY <1>3, <1>5, <1>6, <1>7 DEF n

(* The frames that are due put synthesis ahead of the kernel, by a hop at   *)
(* most, and keep what they must.                                           *)
LEMMA FramedHolds ==
  ASSUME TransportSizes, NEW c \in Configs, Creates(c), NEW s, Good(c, s)
  PROVE  LET t == Framed(c, s)
         IN /\ Held(c, t)
            /\ t.position = s.position /\ t.tail = s.tail /\ t.clock = s.clock
            /\ t.resampled = s.resampled /\ t.control = s.control
            /\ Needed(s) < t.frame_clock /\ t.frame_clock <= Needed(s) + SynthesisHop(c)
            /\ FramesDue(c, s) <= 2
<1> DEFINE x == Needed(s) - s.frame_clock
           u == Frame(c, s)
           v == Frame(c, u)
           t == Framed(c, s)
           Same(a) == /\ a.position = s.position /\ a.tail = s.tail
                      /\ a.clock = s.clock /\ a.resampled = s.resampled
                      /\ a.control = s.control
<1>1. /\ x \in Int /\ x < 2 * SynthesisHop(c) /\ -SynthesisHop(c) <= x
      /\ x < 0 => FramesDue(c, s) = 0
      /\ 0 <= x /\ x < SynthesisHop(c) => FramesDue(c, s) = 1
      /\ SynthesisHop(c) <= x => FramesDue(c, s) = 2
  BY FewDue
<1>2. SynthesisHop(c) \in Nat /\ SynthesisHop(c) >= 2
  BY SizesFit, Zenon
<1>3. Held(c, s) /\ s \in States(c)
  BY DEF Good, Held
<1>4. s.frame_clock \in Nat /\ Needed(s) \in Int
  <2>1. s.frame_clock \in Nat /\ s.resampled \in Nat
    BY <1>3 DEF States
  <2>2. Half \in Nat
    BY SizesFit, Zenon
  <2>3. QED
    BY <2>1, <2>2 DEF Needed, Center
<1>5. CASE x < 0
  <2>1. t = s /\ FramesDue(c, s) = 0
    BY <1>1, <1>5, FramedIs
  <2> HIDE DEF t
  <2>2. Needed(s) < s.frame_clock /\ s.frame_clock <= Needed(s) + SynthesisHop(c)
    BY <1>1, <1>2, <1>4, <1>5
  <2>3. QED
    BY <1>3, <2>1, <2>2 DEF t
<1>6. ASSUME x >= 0
      PROVE  Held(c, u) /\ Same(u) /\ u.frame_clock = s.frame_clock + SynthesisHop(c)
  <2>1. s.frame_clock <= Needed(s)
    BY <1>1, <1>4, <1>6
  <2>2. Held(c, u)
    BY <1>3, <2>1, FrameHolds
  <2>3. Same(u) /\ u.frame_clock = s.frame_clock + SynthesisHop(c)
    BY <1>3, FrameWrites
  <2>4. QED
    BY <2>2, <2>3
<1>7. CASE 0 <= x /\ x < SynthesisHop(c)
  <2>1. t = u /\ FramesDue(c, s) = 1
    BY <1>1, <1>7, FramedIs
  <2>2. Held(c, u) /\ Same(u) /\ u.frame_clock = s.frame_clock + SynthesisHop(c)
    BY <1>1, <1>6, <1>7
  <2> HIDE DEF t, u
  <2>3. Needed(s) < u.frame_clock /\ u.frame_clock <= Needed(s) + SynthesisHop(c)
    BY <1>1, <1>2, <1>4, <1>7, <2>2
  <2>4. QED
    BY <2>1, <2>2, <2>3 DEF t
<1>8. CASE SynthesisHop(c) <= x
  <2>1. t = v /\ FramesDue(c, s) = 2
    BY <1>1, <1>8, FramedIs
  <2>2. Held(c, u) /\ Same(u) /\ u.frame_clock = s.frame_clock + SynthesisHop(c)
    BY <1>1, <1>2, <1>6, <1>8
  <2>3. Needed(u) = Needed(s)
    BY <2>2, Zenon DEF Needed, Center
  <2>4. u.frame_clock <= Needed(u)
    BY <1>1, <1>2, <1>4, <1>8, <2>2, <2>3
  <2>5. Held(c, v)
    BY <2>2, <2>4, FrameHolds
  <2>6. Same(v) /\ v.frame_clock = u.frame_clock + SynthesisHop(c)
    <3>1. u \in States(c)
      BY <2>2 DEF Held
    <3> HIDE DEF u
    <3>2. /\ v.position = u.position /\ v.tail = u.tail /\ v.clock = u.clock
          /\ v.resampled = u.resampled /\ v.control = u.control
          /\ v.frame_clock = u.frame_clock + SynthesisHop(c)
      BY <3>1, FrameWrites
    <3> HIDE DEF v
    <3>3. QED
      BY <2>2, <3>2
  <2> HIDE DEF t, u, v
  <2>7. Needed(s) < v.frame_clock /\ v.frame_clock <= Needed(s) + SynthesisHop(c)
    BY <1>1, <1>2, <1>4, <1>8, <2>2, <2>6
  <2>8. QED
    BY <2>1, <2>5, <2>6, <2>7 DEF t
<1>9. QED
  BY <1>1, <1>2, <1>5, <1>7, <1>8

-----------------------------------------------------------------------------
(* An output frame, and a block of them. *)

(* The controls bear on nothing else. *)
LEMMA OtherControls ==
  ASSUME TransportSizes, NEW c \in Configs, Creates(c), NEW s, Good(c, s),
         NEW control, ControlsFit(control)
  PROVE  LET t == [s EXCEPT !.control = control]
         IN /\ Good(c, t) /\ t.control = control
            /\ t.position = s.position /\ t.tail = s.tail /\ t.clock = s.clock
            /\ t.resampled = s.resampled
<1> DEFINE t == [s EXCEPT !.control = control]
<1>1. s \in States(c) /\ control \in [Parameters -> Ramps]
  BY DEF Good, Held, ControlsFit
<1>2. /\ t \in States(c) /\ t.control = control
      /\ t.position = s.position /\ t.tail = s.tail /\ t.clock = s.clock
      /\ t.resampled = s.resampled /\ t.frame_clock = s.frame_clock
      /\ t.pv = s.pv /\ t.ola = s.ola
  BY <1>1 DEF States
<1> HIDE DEF t
<1>3. \A slot, at : /\ Ahead(c, t, slot) = Ahead(c, s, slot)
                    /\ Reached(c, t, at) <=> Reached(c, s, at)
  BY <1>2, Zenon DEF Ahead, Reached
<1>4. Own(c, t) <=> Own(c, s)
  BY <1>2, Zenon DEF Own
<1>5. Heard(c, t) <=> Heard(c, s)
  BY <1>2, <1>3, Zenon DEF Heard
<1>6. Needed(t) = Needed(s)
  BY <1>2, Zenon DEF Needed, Center
<1>7. Good(c, t)
  BY <1>2, <1>4, <1>5, <1>6, Zenon DEF Good, Held, Paced
<1>8. QED
  BY <1>2, <1>7 DEF t

(* An output frame keeps the invariant. *)
LEMMA SampleHolds ==
  ASSUME TransportSizes, NEW c \in Configs, Creates(c), NEW s, Good(c, s)
  PROVE  Good(c, Sample(c, s))
<1> DEFINE control == [p \in DOMAIN s.control |-> Tick(s.control[p])]
           ticked == [s EXCEPT !.control = control]
           ready == Framed(c, ticked)
           position == Moved(c, ready)
           limit == TailLimit(c)
           end == Parts * c.frames
           counted == IF s.tail < limit THEN s.tail + 1 ELSE s.tail
           tail == IF position >= end THEN counted ELSE 0
           q == Quarters(ready.control.pitch.value)
           t == Sample(c, s)
<1>1. ControlsFit(control)
  BY TicksFit DEF Good, Held
<1>2. /\ Good(c, ticked) /\ ticked.position = s.position /\ ticked.tail = s.tail
      /\ ticked.resampled = s.resampled
  <2> HIDE DEF control
  <2>1. QED
    BY <1>1, OtherControls
<1>3. /\ Held(c, ready) /\ ready.tail = s.tail
      /\ ready.resampled = ticked.resampled
      /\ Needed(ticked) < ready.frame_clock
      /\ ready.frame_clock <= Needed(ticked) + SynthesisHop(c)
  <2> HIDE DEF ticked
  <2>1. QED
    BY <1>2, FramedHolds
<1>4. t = [ready EXCEPT !.resampled = ready.resampled + q, !.position = position,
                        !.tail = tail, !.clock = ready.clock + 1]
  BY DEF Sample
<1> HIDE DEF ready, ticked
<1>5. /\ ready \in States(c) /\ ControlsFit(ready.control)
      /\ ready.tail <= limit /\ Own(c, ready) /\ Heard(c, ready)
  BY <1>3 DEF Held
<1>6. /\ ready.frame_clock \in Nat /\ ready.resampled \in Nat /\ ready.tail \in Nat
      /\ ready.position \in Int /\ ready.clock \in Int
  BY <1>5 DEF States
<1>7. /\ SynthesisHop(c) \in Nat /\ Half \in Nat /\ Window(c) = 4 * SynthesisHop(c)
      /\ limit = 16 * SynthesisHop(c) + 2 * Half /\ Pace(c) \in Nat /\ end \in Nat
  BY SizesFit, Zenon
<1>8. q \in 1 .. 16
  <2>1. "pitch" \in Parameters
    BY DEF Parameters
  <2>2. ready.control["pitch"].value \in Allowed("pitch")
    BY <1>5, <2>1 DEF ControlsFit
  <2>3. QED
    BY <2>2, QuartersFit
<1>9. position \in Int
  <2>1. "speed" \in Parameters /\ ready.control \in [Parameters -> Ramps]
    BY <1>5 DEF Parameters, ControlsFit
  <2>2. ready.control.speed.value \in Int
    BY <2>1 DEF Ramps
  <2>3. ready.control.speed.value * Pace(c) \in Int
    BY <1>7, <2>2
  <2> HIDE DEF end
  <2>4. position = IF ready.control.speed.value = 0 THEN ready.position
                   ELSE IF ready.position + ready.control.speed.value * Pace(c) < end
                        THEN ready.position + ready.control.speed.value * Pace(c)
                        ELSE end
    BY DEF Moved, end
  <2> HIDE DEF position
  <2>5. QED
    BY <1>6, <1>7, <2>3, <2>4
<1> HIDE DEF position, q, limit, end
<1>10. /\ tail \in Nat /\ tail <= limit /\ tail <= ready.tail + 1
       /\ position < end => tail = 0
  BY <1>3, <1>5, <1>6, <1>7, <1>9
<1> HIDE DEF tail, t
<1>11. /\ t \in States(c) /\ t.resampled = ready.resampled + q
       /\ t.position = position /\ t.tail = tail /\ t.control = ready.control
       /\ t.frame_clock = ready.frame_clock /\ t.pv = ready.pv /\ t.ola = ready.ola
  <2>1. ready.resampled + q \in Nat /\ ready.clock + 1 \in Int
    BY <1>6, <1>8
  <2>2. QED
    BY <1>4, <1>5, <1>9, <1>10, <2>1 DEF States
<1>12. \A at \in Int : Reached(c, ready, at) => Reached(c, t, at)
  BY <1>6, <1>7, <1>8, <1>10, <1>11 DEF Reached
<1>13. Own(c, t)
  BY <1>5, <1>11, Zenon DEF Own
<1>14. Heard(c, t)
  <2> DEFINE places == 0 .. Capacity(c) - 1
  <2>1. ASSUME NEW slot \in places, t.pv[slot].heard PROVE Reached(c, t, t.pv[slot].at)
    <3>1. Reached(c, ready, ready.pv[slot].at)
      BY <1>5, <1>11, <2>1 DEF Heard
    <3>2. ready.pv[slot].at \in Int
      BY <1>5 DEF States
    <3>3. QED
      BY <1>11, <1>12, <3>1, <3>2
  <2>2. ASSUME NEW slot \in places, t.ola[slot]
        PROVE  /\ Ahead(c, t, slot) < Window(c)
               /\ Reached(c, t, t.frame_clock + Ahead(c, t, slot))
    <3>1. /\ Ahead(c, ready, slot) < Window(c)
          /\ Reached(c, ready, ready.frame_clock + Ahead(c, ready, slot))
      BY <1>5, <1>11, <2>2 DEF Heard
    <3>2. Ahead(c, ready, slot) \in Int
      <4>1. Ahead(c, ready, slot) \in 0 .. Capacity(c) - 1
        BY <1>6, AheadIs
      <4>2. QED
        BY <4>1
    <3>3. ready.frame_clock + Ahead(c, ready, slot) \in Int
      BY <1>6, <3>2
    <3>4. Ahead(c, t, slot) = Ahead(c, ready, slot)
      BY <1>11 DEF Ahead
    <3>5. QED
      BY <1>11, <1>12, <3>1, <3>3, <3>4
  <2>3. QED
    BY <2>1, <2>2 DEF Heard
<1>15. Paced(c, t)
  <2> DEFINE a == ticked.resampled \div 4
             b == t.resampled \div 4
             n == Needed(ticked)
             m == Needed(t)
  <2>1. n = a + Half + 1 /\ m = b + Half + 1
    BY DEF Needed, Center
  <2>2. a \in Int /\ b \in Int /\ a <= b /\ b <= a + 4
    BY <1>3, <1>6, <1>8, <1>11
  <2> HIDE DEF a, b, n, m
  <2>3. n < ready.frame_clock /\ ready.frame_clock <= n + SynthesisHop(c)
    BY <1>3 DEF n
  <2>4. t.frame_clock <= m + SynthesisHop(c) /\ m <= t.frame_clock + 3
    BY <1>6, <1>7, <1>11, <2>1, <2>2, <2>3
  <2>5. QED
    BY <2>4 DEF Paced, m
<1>16. ControlsFit(t.control) /\ t.tail <= TailLimit(c)
       /\ (t.position < Parts * c.frames => t.tail = 0)
  BY <1>5, <1>10, <1>11 DEF limit, end
<1>17. Good(c, t)
  BY <1>11, <1>13, <1>14, <1>15, <1>16, Zenon DEF Good, Held
<1>18. QED
  BY <1>17 DEF t

(* One more event of a frame, or one more frame of a block. *)
Sequel(kind, c, events, at, k, x) ==
  IF kind = "frames" THEN Sample(c, WithDue(x, events, k - 1))
  ELSE IF events[k].offset # at THEN x
  ELSE [x EXCEPT ![events[k].parameter] =
          Towards(x[events[k].parameter], events[k].value, events[k].ramp)]

(* The functions that Controlled and Sampled take their results from. *)
Trail(f, x, kind, c, events, at, n) ==
  f = [k \in 0 .. n |-> IF k = 0 THEN x ELSE Sequel(kind, c, events, at, k, f[k - 1])]

(* There is one of every length. *)
LEMMA TrailExists ==
  ASSUME NEW x, NEW kind, NEW c, NEW events, NEW at, NEW n \in Nat
  PROVE  \E f : Trail(f, x, kind, c, events, at, n)
<1> DEFINE S == {m \in Nat : \E f : Trail(f, x, kind, c, events, at, m)}
           Then(k, y) == Sequel(kind, c, events, at, k, y)
<1>1. 0 \in S
  <2>1. Trail([k \in 0 .. 0 |-> x], x, kind, c, events, at, 0)
    BY DEF Trail
  <2>2. QED
    BY <2>1
<1>2. ASSUME NEW m \in Nat, m \in S PROVE m + 1 \in S
  <2>1. PICK f : Trail(f, x, kind, c, events, at, m)
    BY <1>2
  <2> DEFINE g == [k \in 0 .. m + 1 |-> IF k = m + 1 THEN Then(m + 1, f[m]) ELSE f[k]]
             e == [k \in 0 .. m + 1 |-> IF k = 0 THEN x ELSE Then(k, g[k - 1])]
  <2>2. ASSUME NEW k \in 0 .. m + 1 PROVE g[k] = e[k]
    <3>1. CASE k = 0
      BY <2>1, <3>1 DEF Trail
    <3>2. CASE k = m + 1
      <4>1. k - 1 = m /\ m \in 0 .. m + 1 /\ m # m + 1 /\ k # 0
        BY <3>2
      <4>2. g[k - 1] = f[m]
        BY <4>1
      <4>3. QED
        BY <3>2, <4>1, <4>2
    <3>3. CASE k # 0 /\ k # m + 1
      <4>1. k - 1 \in 0 .. m /\ k \in 0 .. m
        BY <3>3
      <4>2. g[k - 1] = f[k - 1] /\ g[k] = f[k]
        BY <3>3, <4>1
      <4>3. f[k] = Then(k, f[k - 1])
        BY <2>1, <3>3, <4>1 DEF Trail
      <4>4. QED
        BY <3>3, <4>2, <4>3
    <3>4. QED
      BY <3>1, <3>2, <3>3
  <2>3. g = e
    BY <2>2
  <2>4. Trail(g, x, kind, c, events, at, m + 1)
    BY <2>3, Zenon DEF Trail
  <2> HIDE DEF g
  <2>5. QED
    BY <2>4
<1> HIDE DEF S
<1>3. n \in S
  BY <1>1, <1>2, SetInduction
<1>4. QED
  BY <1>3 DEF S

(* Along one, step by step. *)
LEMMA TrailSteps ==
  ASSUME NEW x, NEW kind, NEW c, NEW events, NEW at, NEW n \in Nat, NEW f,
         Trail(f, x, kind, c, events, at, n)
  PROVE  /\ f[0] = x
         /\ \A k \in 1 .. n : f[k] = Sequel(kind, c, events, at, k, f[k - 1])
<1>1. f[0] = x
  BY DEF Trail
<1>2. ASSUME NEW k \in 1 .. n PROVE f[k] = Sequel(kind, c, events, at, k, f[k - 1])
  <2>1. k \in 0 .. n /\ k # 0
    OBVIOUS
  <2>2. QED
    BY <2>1 DEF Trail
<1>3. QED
  BY <1>1, <1>2

(* The controls after the events of a frame are the end of such a trail. *)
LEMMA ControlledIs ==
  ASSUME NEW control, NEW events, Len(events) \in Nat, NEW at
  PROVE  \E f : /\ Trail(f, control, "events", 0, events, at, Len(events))
                /\ Controlled(control, events, at) = f[Len(events)]
<1> DEFINE n == Len(events)
           Then(i, x) == IF events[i].offset # at THEN x
                         ELSE [x EXCEPT ![events[i].parameter] =
                                 Towards(x[events[i].parameter], events[i].value,
                                         events[i].ramp)]
           F(f) == f = [i \in 0 .. n |-> IF i = 0 THEN control ELSE Then(i, f[i - 1])]
           f == CHOOSE f : F(f)
<1>1. Controlled(control, events, at) = f[n]
  BY DEF Controlled
<1>2. \A i, x : Sequel("events", 0, events, at, i, x) = Then(i, x)
  BY DEF Sequel
<1> HIDE DEF n, Then
<1>3. ASSUME NEW g PROVE F(g) <=> Trail(g, control, "events", 0, events, at, n)
  <2> DEFINE a == [i \in 0 .. n |-> IF i = 0 THEN control ELSE Then(i, g[i - 1])]
             b == [i \in 0 .. n |-> IF i = 0 THEN control
                                   ELSE Sequel("events", 0, events, at, i, g[i - 1])]
  <2>1. a = b
    BY <1>2
  <2>2. QED
    BY <2>1, Zenon DEF Trail
<1>4. \E g : F(g)
  <2>1. PICK g : Trail(g, control, "events", 0, events, at, n)
    BY TrailExists DEF n
  <2> HIDE DEF F
  <2>2. QED
    BY <1>3, <2>1
<1> HIDE DEF F
<1>5. F(f)
  BY <1>4
<1>6. Trail(f, control, "events", 0, events, at, n)
  BY <1>3, <1>5
<1>7. QED
  BY <1>1, <1>6, Zenon DEF n

(* The frames of a block, too. *)
LEMMA SampledIs ==
  ASSUME NEW c, NEW s, NEW frames \in Nat, NEW events
  PROVE  \E f : /\ Trail(f, s, "frames", c, events, 0, frames)
                /\ Sampled(c, s, frames, events) = f[frames]
<1> DEFINE F(f) == f = [k \in 0 .. frames |->
                     IF k = 0 THEN s ELSE Sample(c, WithDue(f[k - 1], events, k - 1))]
           f == CHOOSE f : F(f)
<1>1. Sampled(c, s, frames, events) = f[frames]
  BY DEF Sampled
<1>2. \A k, x : Sequel("frames", c, events, 0, k, x) = Sample(c, WithDue(x, events, k - 1))
  BY DEF Sequel
<1>3. ASSUME NEW g PROVE F(g) <=> Trail(g, s, "frames", c, events, 0, frames)
  <2> DEFINE a == [k \in 0 .. frames |->
                     IF k = 0 THEN s ELSE Sample(c, WithDue(g[k - 1], events, k - 1))]
             b == [k \in 0 .. frames |->
                     IF k = 0 THEN s ELSE Sequel("frames", c, events, 0, k, g[k - 1])]
  <2>1. a = b
    BY <1>2
  <2>2. QED
    BY <2>1, Zenon DEF Trail
<1>4. \E g : F(g)
  <2>1. PICK g : Trail(g, s, "frames", c, events, 0, frames)
    BY TrailExists
  <2> HIDE DEF F
  <2>2. QED
    BY <1>3, <2>1
<1> HIDE DEF F
<1>5. F(f)
  BY <1>4
<1>6. Trail(f, s, "frames", c, events, 0, frames)
  BY <1>3, <1>5
<1>7. QED
  BY <1>1, <1>6, Zenon

EventSet == [offset : Nat, parameter : Parameters, value : Int, ramp : Nat]

(* Events that render() has judged. *)
Fit(events) ==
  events \in Seq(EventSet) /\ \A i \in 1 .. Len(events) : InRange(events[i])

(* Their values are in the range of their parameter. *)
LEMMA ValueAllowed ==
  ASSUME NEW e \in EventSet, InRange(e)
  PROVE  e.value \in Allowed(e.parameter)
<1>1. e.parameter \in Parameters
  BY DEF EventSet
<1>2. CASE e.parameter = "speed"
  BY <1>2 DEF InRange, Allowed
<1>3. CASE e.parameter = "pitch"
  BY <1>3 DEF InRange, Allowed
<1>4. CASE e.parameter = "formant"
  BY <1>4 DEF InRange, Allowed
<1>5. QED
  BY <1>1, <1>2, <1>3, <1>4 DEF Parameters

(* The controls after the events of a frame. *)
LEMMA ControlledFits ==
  ASSUME NEW control, ControlsFit(control), NEW events, Fit(events), NEW at
  PROVE  ControlsFit(Controlled(control, events, at))
<1> DEFINE n == Len(events)
<1>1. n \in Nat /\ \A i \in 1 .. n : events[i] \in EventSet /\ InRange(events[i])
  BY DEF Fit
<1> HIDE DEF n
<1>2. PICK f : /\ Trail(f, control, "events", 0, events, at, n)
               /\ Controlled(control, events, at) = f[n]
  BY <1>1, ControlledIs DEF n
<1>3. /\ f[0] = control
      /\ \A k \in 1 .. n : f[k] = Sequel("events", 0, events, at, k, f[k - 1])
  BY <1>1, <1>2, TrailSteps
<1> DEFINE S == {k \in Nat : k <= n => ControlsFit(f[k])}
<1>4. 0 \in S
  BY <1>3
<1>5. ASSUME NEW k \in Nat, k \in S PROVE k + 1 \in S
  <2> SUFFICES ASSUME k + 1 <= n PROVE ControlsFit(f[k + 1])
    OBVIOUS
  <2> DEFINE e == events[k + 1]
             x == f[k]
             p == e.parameter
             r == Towards(x[p], e.value, e.ramp)
  <2>1. ControlsFit(x) /\ k + 1 \in 1 .. n /\ (k + 1) - 1 = k
    BY <1>1, <1>5
  <2>2. f[k + 1] = Sequel("events", 0, events, at, k + 1, x)
    BY <1>3, <2>1
  <2>3. f[k + 1] = IF e.offset # at THEN x ELSE [x EXCEPT ![p] = r]
    BY <2>2 DEF Sequel
  <2>4. e \in EventSet /\ InRange(e)
    BY <1>1, <2>1
  <2> HIDE DEF x, e
  <2>5. p \in Parameters /\ e.value \in Allowed(p) /\ e.ramp \in Nat
    BY <2>4, ValueAllowed DEF EventSet
  <2> HIDE DEF p
  <2>6. x[p] \in Ramps /\ x[p].value \in Allowed(p)
    BY <2>1, <2>5 DEF ControlsFit
  <2>7. /\ r \in Ramps /\ r.value \in Allowed(p)
        /\ r.start \in Allowed(p) /\ r.target \in Allowed(p)
    BY <2>5, <2>6, TowardsFits
  <2> HIDE DEF r
  <2>8. ControlsFit([x EXCEPT ![p] = r])
    BY <2>1, <2>5, <2>7 DEF ControlsFit
  <2>9. QED
    BY <2>1, <2>3, <2>8
<1> HIDE DEF S
<1>6. n \in S
  BY <1>1, <1>4, <1>5, SetInduction
<1>7. ControlsFit(f[n])
  BY <1>1, <1>6 DEF S
<1>8. QED
  BY <1>2, <1>7

(* Events keep the invariant. *)
LEMMA DueHolds ==
  ASSUME TransportSizes, NEW c \in Configs, Creates(c), NEW s, Good(c, s),
         NEW events, Fit(events), NEW at
  PROVE  Good(c, WithDue(s, events, at))
<1>1. ControlsFit(s.control)
  BY DEF Good, Held
<1>2. ControlsFit(Controlled(s.control, events, at))
  BY <1>1, ControlledFits
<1>3. Good(c, [s EXCEPT !.control = Controlled(s.control, events, at)])
  BY <1>2, OtherControls
<1>4. QED
  BY <1>3 DEF WithDue

(* All through a block the invariant holds. *)
LEMMA SampledHolds ==
  ASSUME TransportSizes, NEW c \in Configs, Creates(c), NEW s, Good(c, s),
         NEW events, Fit(events), NEW frames \in Nat, NEW f,
         Trail(f, s, "frames", c, events, 0, frames)
  PROVE  /\ f[0] = s
         /\ \A k \in 1 .. frames : f[k] = Sample(c, WithDue(f[k - 1], events, k - 1))
         /\ \A k \in 0 .. frames : Good(c, f[k])
<1>1. /\ f[0] = s
      /\ \A k \in 1 .. frames : f[k] = Sequel("frames", c, events, 0, k, f[k - 1])
  BY TrailSteps
<1>2. \A k \in 1 .. frames : f[k] = Sample(c, WithDue(f[k - 1], events, k - 1))
  BY <1>1 DEF Sequel
<1> DEFINE S == {k \in Nat : k <= frames => Good(c, f[k])}
<1>3. 0 \in S
  BY <1>1
<1>4. ASSUME NEW k \in Nat, k \in S PROVE k + 1 \in S
  <2> SUFFICES ASSUME k + 1 <= frames PROVE Good(c, f[k + 1])
    OBVIOUS
  <2>1. Good(c, f[k]) /\ k + 1 \in 1 .. frames /\ (k + 1) - 1 = k
    BY <1>4
  <2>2. Good(c, WithDue(f[k], events, k))
    BY <2>1, DueHolds
  <2>3. f[k + 1] = Sample(c, WithDue(f[k], events, k))
    BY <1>2, <2>1
  <2>4. QED
    BY <2>2, <2>3, SampleHolds
<1> HIDE DEF S
<1>5. \A k \in Nat : k \in S
  BY <1>3, <1>4, SetInduction
<1>6. \A k \in 0 .. frames : Good(c, f[k])
  BY <1>5 DEF S
<1>7. QED
  BY <1>1, <1>2, <1>6

(* And after it. *)
LEMMA RenderedHolds ==
  ASSUME TransportSizes, NEW c \in Configs, Creates(c), NEW s, Good(c, s),
         NEW events, Fit(events), NEW frames \in Nat
  PROVE  Good(c, Rendered(c, s, frames, events))
<1>1. PICK f : /\ Trail(f, s, "frames", c, events, 0, frames)
               /\ Sampled(c, s, frames, events) = f[frames]
  BY SampledIs
<1>2. Good(c, Sampled(c, s, frames, events))
  BY <1>1, SampledHolds
<1>3. QED
  BY <1>2, DueHolds DEF Rendered

-----------------------------------------------------------------------------
(* The invariant holds. *)

Resident == cfg \in Configs /\ Creates(cfg)

(* Judged events are fit. *)
LEMMA JudgedFit ==
  ASSUME TransportSizes, NEW c, NEW frames, NEW events \in EventLists,
         Judged(c, frames, events)
  PROVE  Fit(events)
<1>1. events \in Seq(EventSet)
  BY DEF TransportSizes, EventSet
<1>2. \A i \in 1 .. Len(events) : InRange(events[i])
  BY <1>1 DEF Judged
<1>3. QED
  BY <1>1, <1>2 DEF Fit

(* A sought transport is at its start with nothing in its rings. *)
LEMMA SoughtHolds ==
  ASSUME TransportSizes, NEW c \in Configs, Creates(c), NEW position \in Int,
         NEW control, ControlsFit(control)
  PROVE  Good(c, Sought(c, position, control))
<1> DEFINE t == Sought(c, position, control)
           n == Capacity(c)
<1>1. control \in [Parameters -> Ramps]
  BY DEF ControlsFit
<1>2. /\ t.position = position /\ t.anchor = -1 /\ t.clock = 0 /\ t.analyses = 0
      /\ t.frame_clock = 0 /\ t.resampled = 0 /\ t.tail = 0 /\ t.spectrum = FALSE
      /\ t.control = control
      /\ t.pv = [slot \in 0 .. n - 1 |-> [at |-> -1, heard |-> FALSE]]
      /\ t.ola = [slot \in 0 .. n - 1 |-> FALSE]
  BY DEF Sought
<1>3. t \in States(c)
  <2>1. [slot \in 0 .. n - 1 |-> [at |-> -1, heard |-> FALSE]]
          \in [0 .. n - 1 -> [at : Int, heard : BOOLEAN]]
    OBVIOUS
  <2>2. [slot \in 0 .. n - 1 |-> FALSE] \in [0 .. n - 1 -> BOOLEAN]
    OBVIOUS
  <2>3. QED
    BY <1>1, <2>1, <2>2 DEF States, Sought
<1>4. /\ SynthesisHop(c) \in Nat /\ Half \in Nat /\ TailLimit(c) = 16 * SynthesisHop(c) + 2 * Half
  BY SizesFit, Zenon
<1> HIDE DEF t
<1>5. Own(c, t)
  BY <1>2 DEF Own
<1>6. Heard(c, t)
  BY <1>2 DEF Heard
<1>7. Paced(c, t)
  <2>1. Needed(t) = Half + 1
    BY <1>2, <1>4 DEF Needed, Center
  <2>2. QED
    BY <1>2, <1>4, <2>1 DEF Paced
<1>8. ControlsFit(t.control) /\ t.tail <= TailLimit(c)
      /\ (t.position < Parts * c.frames => t.tail = 0)
  BY <1>2, <1>4
<1>9. Good(c, t)
  BY <1>3, <1>5, <1>6, <1>7, <1>8, Zenon DEF Good, Held
<1>10. QED
  BY <1>9 DEF t

(* A control at rest. *)
LEMMA StillFits ==
  ASSUME NEW p \in Parameters, NEW x \in Allowed(p)
  PROVE  /\ Still(x) \in Ramps /\ Still(x).value \in Allowed(p)
         /\ Still(x).start \in Allowed(p) /\ Still(x).target \in Allowed(p)
<1>1. Allowed(p) \subseteq Int
  BY AllowedIs
<1>2. QED
  BY <1>1 DEF Still, Ramps

(* be_transport_create. *)
LEMMA CreateHolds ==
  ASSUME TransportSizes, cfg \in Configs, CreateTransport
  PROVE  Resident' /\ Good(cfg, h)'
<1> DEFINE control == [speed |-> Still(4), pitch |-> Still(0), formant |-> Still(0)]
<1>1. Resident /\ h' = Sought(cfg, 0, control) /\ cfg' = cfg
  BY DEF CreateTransport, Resident
<1>2. 4 \in Allowed("speed") /\ 0 \in Allowed("pitch") /\ 0 \in Allowed("formant")
  BY DEF Allowed
<1>3. control = [p \in Parameters |-> IF p = "speed" THEN Still(4) ELSE Still(0)]
  BY DEF Parameters
<1>4. \A p \in Parameters : control[p] = Still(IF p = "speed" THEN 4 ELSE 0)
                            /\ (IF p = "speed" THEN 4 ELSE 0) \in Allowed(p)
  BY <1>2 DEF Parameters
<1>5. \A p \in Parameters :
        /\ control[p] \in Ramps /\ control[p].value \in Allowed(p)
        /\ control[p].start \in Allowed(p) /\ control[p].target \in Allowed(p)
  BY <1>4, StillFits, Zenon
<1> HIDE DEF control
<1>6. control \in [Parameters -> Ramps]
  BY <1>3, <1>5
<1>7. ControlsFit(control)
  BY <1>5, <1>6 DEF ControlsFit
<1>8. QED
  BY <1>1, <1>7, SoughtHolds DEF Resident

(* be_transport_render. *)
LEMMA RenderHolds ==
  ASSUME TransportSizes, Resident, Good(cfg, h), Render
  PROVE  Resident' /\ Good(cfg, h)'
<1>1. PICK frames \in BlockSizes, events \in EventLists :
        /\ Judged(cfg, frames, events) /\ h' = Rendered(cfg, h, frames, events)
        /\ cfg' = cfg
  BY DEF Render
<1>2. Fit(events) /\ frames \in Nat
  BY <1>1, JudgedFit DEF TransportSizes
<1>3. Good(cfg, Rendered(cfg, h, frames, events))
  BY <1>2, RenderedHolds DEF Resident
<1>4. QED
  BY <1>1, <1>3 DEF Resident

(* be_transport_seek. *)
LEMMA SeekHolds ==
  ASSUME TransportSizes, Resident, Good(cfg, h), Seek
  PROVE  Resident' /\ Good(cfg, h)'
<1> DEFINE control == [p \in DOMAIN h.control |-> Still(h.control[p].target)]
<1>1. PICK frame \in Seeks : h' = Sought(cfg, Parts * frame, control) /\ cfg' = cfg
  BY DEF Seek
<1>2. Parts * frame \in Int
  BY DEF TransportSizes, Parts
<1>3. h.control \in [Parameters -> Ramps]
      /\ \A p \in Parameters : h.control[p].target \in Allowed(p)
  BY DEF Good, Held, ControlsFit
<1>4. \A p \in Parameters : control[p] = Still(h.control[p].target)
  BY <1>3
<1>5. \A p \in Parameters :
        /\ control[p] \in Ramps /\ control[p].value \in Allowed(p)
        /\ control[p].start \in Allowed(p) /\ control[p].target \in Allowed(p)
  BY <1>3, <1>4, StillFits, Zenon
<1>6. control \in [Parameters -> Ramps]
  BY <1>3, <1>5
<1> HIDE DEF control
<1>7. ControlsFit(control)
  BY <1>5, <1>6 DEF ControlsFit
<1>8. Good(cfg, Sought(cfg, Parts * frame, control))
  BY <1>2, <1>7, SoughtHolds DEF Resident
<1>9. QED
  BY <1>1, <1>8 DEF Resident

(* So it holds in every state with a transport. *)
Playing == cfg \in Configs /\ (h = NoTransport \/ (Resident /\ Good(cfg, h)))

LEMMA PlayingAlways ==
  ASSUME TransportSizes
  PROVE  TransportSpec => []Playing
<1>1. TransportInit => Playing
  BY DEF TransportInit, Playing
<1>2. Playing /\ [TransportNext]_transportVars => Playing'
  <2> SUFFICES ASSUME Playing, [TransportNext]_transportVars PROVE Playing'
    OBVIOUS
  <2>1. CASE CreateTransport
    BY <2>1, CreateHolds DEF Playing, CreateTransport
  <2>2. CASE Render
    BY <2>2, RenderHolds DEF Playing, Render
  <2>3. CASE Seek
    BY <2>3, SeekHolds DEF Playing, Seek
  <2>4. CASE UNCHANGED transportVars
    BY <2>4 DEF transportVars, Playing, Resident, Good, Held, Paced, Own, Heard, Reached,
                Ahead, Needed, Center
  <2>5. QED
    BY <2>1, <2>2, <2>3, <2>4 DEF TransportNext
<1>3. QED
  BY <1>1, <1>2, PTL DEF TransportSpec

-----------------------------------------------------------------------------
(* What follows from it. *)

(* The taps are finished samples, and two frames are enough for them. *)
LEMMA TapsFollow ==
  ASSUME TransportSizes, Resident, Good(cfg, h)
  PROVE  TapsHeld
<1> DEFINE ready == Framed(cfg, h)
           center == Center(h)
<1>1. /\ Own(cfg, ready) /\ ready.frame_clock \in Nat
      /\ Needed(h) < ready.frame_clock /\ ready.frame_clock <= Needed(h) + SynthesisHop(cfg)
      /\ FramesDue(cfg, h) <= 2
  BY FramedHolds DEF Resident, Held, States
<1>2. /\ SynthesisHop(cfg) \in Nat /\ SynthesisHop(cfg) >= 2 /\ Half \in Nat /\ Half >= 1
      /\ Capacity(cfg) = 16 * SynthesisHop(cfg) /\ Half + 1 < 2 * SynthesisHop(cfg)
  BY SizesFit, Zenon DEF Resident
<1>3. center \in Int
  <2>1. h.resampled \in Nat
    BY DEF Good, Held, States
  <2>2. QED
    BY <2>1 DEF Center
<1>4. Needed(h) = center + Half + 1
  BY DEF Needed
<1> HIDE DEF ready, center
<1>5. ASSUME NEW at \in Taps(h) PROVE ready.pv[at % Capacity(cfg)].at = at
  <2>1. at \in Nat /\ center - Half + 1 <= at /\ at <= center + Half
    BY <1>2, <1>3, <1>5 DEF Taps, center
  <2>2. at < ready.frame_clock /\ ready.frame_clock <= at + Capacity(cfg)
    BY <1>1, <1>2, <1>3, <1>4, <2>1
  <2>3. QED
    BY <1>1, <2>1, <2>2 DEF Own
<1>6. QED
  BY <1>1, <1>5 DEF TapsHeld, ready

(* At the end nothing audible is left. *)
LEMMA EndFollows ==
  ASSUME TransportSizes, Resident, Good(cfg, h)
  PROVE  EndedHeard
<1> SUFFICES ASSUME HasEnded(cfg, h)
             PROVE  LET ready == Framed(cfg, h)
                    IN /\ \A slot \in DOMAIN ready.pv :
                            ready.pv[slot].heard => ready.pv[slot].at <= Center(h) + Half
                       /\ \A slot \in DOMAIN ready.ola : ~ready.ola[slot]
  BY DEF EndedHeard
<1> DEFINE ready == Framed(cfg, h)
           places == 0 .. Capacity(cfg) - 1
           center == Center(h)
<1>1. /\ Held(cfg, ready) /\ ready.tail = h.tail /\ ready.resampled = h.resampled
      /\ Needed(h) < ready.frame_clock
  BY FramedHolds DEF Resident
<1>2. /\ SynthesisHop(cfg) \in Nat /\ SynthesisHop(cfg) >= 2 /\ Half \in Nat /\ Half >= 1
      /\ Window(cfg) = 4 * SynthesisHop(cfg) /\ TailLimit(cfg) = 16 * SynthesisHop(cfg) + 2 * Half
  BY SizesFit, Zenon DEF Resident
<1>3. h.resampled \in Nat /\ h.tail = TailLimit(cfg)
  BY DEF Good, Held, States, HasEnded
<1>4. center \in Int /\ h.resampled <= 4 * center + 3 /\ Needed(h) = center + Half + 1
  <2>1. h.resampled \div 4 \in Int /\ h.resampled <= 4 * (h.resampled \div 4) + 3
    BY <1>3
  <2>2. QED
    BY <2>1 DEF Center, Needed
<1> HIDE DEF ready, center
<1>5. /\ Heard(cfg, ready) /\ ready \in States(cfg)
  BY <1>1 DEF Held
<1>6. /\ DOMAIN ready.pv = places /\ DOMAIN ready.ola = places
      /\ ready.frame_clock \in Nat
      /\ \A slot \in places : ready.pv[slot].at \in Int
  BY <1>5 DEF States
<1>7. \A at \in Int : Reached(cfg, ready, at) => at <= center + Half
  BY <1>1, <1>2, <1>3, <1>4 DEF Reached
<1>8. \A slot \in places : ready.pv[slot].heard => ready.pv[slot].at <= center + Half
  BY <1>5, <1>6, <1>7 DEF Heard
<1>9. ASSUME NEW slot \in places, ready.ola[slot] PROVE FALSE
  <2> DEFINE d == Ahead(cfg, ready, slot)
  <2>1. Reached(cfg, ready, ready.frame_clock + d)
    BY <1>5, <1>9 DEF Heard
  <2>2. d \in 0 .. Capacity(cfg) - 1
    BY <1>6, AheadIs DEF Resident
  <2> HIDE DEF d
  <2>3. d \in Nat /\ ready.frame_clock + d \in Int
    BY <1>6, <2>2
  <2>4. ready.frame_clock + d <= center + Half
    BY <1>7, <2>1, <2>3
  <2>5. QED
    BY <1>1, <1>2, <1>4, <1>6, <2>3, <2>4
<1>10. QED
  BY <1>6, <1>8, <1>9 DEF ready, center

-----------------------------------------------------------------------------
(* A block cut in two. *)

(* Where no event is, the controls stay. *)
LEMMA NoneDue ==
  ASSUME NEW control, NEW events, Len(events) \in Nat, NEW at,
         \A i \in 1 .. Len(events) : events[i].offset # at
  PROVE  Controlled(control, events, at) = control
<1> DEFINE n == Len(events)
<1>1. n \in Nat /\ \A i \in 1 .. n : events[i].offset # at
  OBVIOUS
<1> HIDE DEF n
<1>2. PICK f : /\ Trail(f, control, "events", 0, events, at, n)
               /\ Controlled(control, events, at) = f[n]
  BY <1>1, ControlledIs DEF n
<1>3. /\ f[0] = control
      /\ \A k \in 1 .. n : f[k] = Sequel("events", 0, events, at, k, f[k - 1])
  BY <1>1, <1>2, TrailSteps
<1> DEFINE S == {k \in Nat : k <= n => f[k] = control}
<1>4. 0 \in S
  BY <1>3
<1>5. ASSUME NEW k \in Nat, k \in S PROVE k + 1 \in S
  <2> SUFFICES ASSUME k + 1 <= n PROVE f[k + 1] = control
    OBVIOUS
  <2>1. f[k] = control /\ k + 1 \in 1 .. n /\ (k + 1) - 1 = k
    BY <1>1, <1>5
  <2>2. f[k + 1] = Sequel("events", 0, events, at, k + 1, f[k])
    BY <1>3, <2>1
  <2>3. Sequel("events", 0, events, at, k + 1, f[k]) = f[k]
    BY <1>1, <2>1 DEF Sequel
  <2>4. QED
    BY <2>1, <2>2, <2>3
<1> HIDE DEF S
<1>6. n \in S
  BY <1>1, <1>4, <1>5, SetInduction
<1>7. QED
  BY <1>1, <1>2, <1>6 DEF S

(* Events in two parts, the offsets of the second counted from elsewhere. *)
Parted(whole, first, second, at, later) ==
  /\ Len(first) \in Nat /\ Len(second) \in Nat
  /\ Len(whole) = Len(first) + Len(second)
  /\ \A i \in 1 .. Len(first) : first[i] = whole[i]
  /\ \A i \in 1 .. Len(second) :
       /\ second[i].offset = later <=> whole[Len(first) + i].offset = at
       /\ second[i].parameter = whole[Len(first) + i].parameter
       /\ second[i].value = whole[Len(first) + i].value
       /\ second[i].ramp = whole[Len(first) + i].ramp

(* The events of a frame may be applied in two parts. *)
LEMMA TwoParts ==
  ASSUME NEW control, NEW whole, NEW first, NEW second, NEW at, NEW later,
         Parted(whole, first, second, at, later)
  PROVE  Controlled(control, whole, at)
           = Controlled(Controlled(control, first, at), second, later)
<1> DEFINE n == Len(first)
           m == Len(second)
           total == Len(whole)
           middle == Controlled(control, first, at)
<1>1. n \in Nat /\ m \in Nat /\ total = n + m /\ total \in Nat
  BY DEF Parted
<1>2. \A i \in 1 .. n : first[i] = whole[i]
  BY DEF Parted
<1>3. \A i \in 1 .. m :
        /\ second[i].offset = later <=> whole[n + i].offset = at
        /\ second[i].parameter = whole[n + i].parameter
        /\ second[i].value = whole[n + i].value
        /\ second[i].ramp = whole[n + i].ramp
  BY DEF Parted
<1>4. PICK f : /\ Trail(f, control, "events", 0, whole, at, total)
               /\ Controlled(control, whole, at) = f[total]
  <2>1. Len(whole) \in Nat
    BY <1>1
  <2>2. QED
    BY <2>1, ControlledIs
<1>5. PICK g : /\ Trail(g, control, "events", 0, first, at, n) /\ middle = g[n]
  BY <1>1, ControlledIs
<1>6. PICK e : /\ Trail(e, middle, "events", 0, second, later, m)
               /\ Controlled(middle, second, later) = e[m]
  <2> HIDE DEF middle
  <2>1. QED
    BY <1>1, ControlledIs
<1> HIDE DEF n, m, total, middle
<1>7. /\ f[0] = control
      /\ \A k \in 1 .. total : f[k] = Sequel("events", 0, whole, at, k, f[k - 1])
  <2>1. total \in Nat
    BY <1>1
  <2>2. QED
    BY <2>1, <1>4, TrailSteps
<1>8. /\ g[0] = control
      /\ \A k \in 1 .. n : g[k] = Sequel("events", 0, first, at, k, g[k - 1])
  <2>1. n \in Nat
    BY <1>1
  <2>2. QED
    BY <2>1, <1>5, TrailSteps
<1>9. /\ e[0] = middle
      /\ \A k \in 1 .. m : e[k] = Sequel("events", 0, second, later, k, e[k - 1])
  <2>1. m \in Nat
    BY <1>1
  <2>2. QED
    BY <2>1, <1>6, TrailSteps
<1> DEFINE S == {k \in Nat : k <= n => f[k] = g[k]}
           T == {k \in Nat : k <= m => f[n + k] = e[k]}
<1>10. 0 \in S
  BY <1>7, <1>8
<1>11. ASSUME NEW k \in Nat, k \in S PROVE k + 1 \in S
  <2> SUFFICES ASSUME k + 1 <= n PROVE f[k + 1] = g[k + 1]
    OBVIOUS
  <2>1. f[k] = g[k] /\ k + 1 \in 1 .. n /\ k + 1 \in 1 .. total /\ (k + 1) - 1 = k
    BY <1>1, <1>11
  <2>2. /\ f[k + 1] = Sequel("events", 0, whole, at, k + 1, f[k])
        /\ g[k + 1] = Sequel("events", 0, first, at, k + 1, g[k])
    BY <1>7, <1>8, <2>1
  <2>3. first[k + 1] = whole[k + 1]
    BY <1>2, <2>1
  <2>4. QED
    BY <2>1, <2>2, <2>3, Zenon DEF Sequel
<1>12. f[n] = g[n]
  <2> HIDE DEF S
  <2>1. n \in S
    BY <1>1, <1>10, <1>11, SetInduction
  <2>2. QED
    BY <1>1, <2>1 DEF S
<1>13. 0 \in T
  BY <1>1, <1>5, <1>9, <1>12
<1>14. ASSUME NEW k \in Nat, k \in T PROVE k + 1 \in T
  <2> SUFFICES ASSUME k + 1 <= m PROVE f[n + (k + 1)] = e[k + 1]
    OBVIOUS
  <2> DEFINE i == n + (k + 1)
             x == f[n + k]
  <2>1. k + 1 \in 1 .. m /\ i \in 1 .. total /\ i - 1 = n + k /\ (k + 1) - 1 = k
    BY <1>1
  <2>2. x = e[k]
    BY <1>1, <1>14
  <2>3. f[i] = Sequel("events", 0, whole, at, i, x)
    BY <1>7, <2>1
  <2>4. e[k + 1] = Sequel("events", 0, second, later, k + 1, x)
    BY <1>9, <2>1, <2>2
  <2>5. /\ second[k + 1].offset = later <=> whole[i].offset = at
        /\ second[k + 1].parameter = whole[i].parameter
        /\ second[k + 1].value = whole[i].value
        /\ second[k + 1].ramp = whole[i].ramp
    BY <1>3, <2>1
  <2> HIDE DEF i, x
  <2>6. Sequel("events", 0, second, later, k + 1, x)
          = Sequel("events", 0, whole, at, i, x)
    <3>1. CASE whole[i].offset = at
      BY <2>5, <3>1 DEF Sequel
    <3>2. CASE whole[i].offset # at
      BY <2>5, <3>2 DEF Sequel
    <3>3. QED
      BY <3>1, <3>2
  <2>7. QED
    BY <2>3, <2>4, <2>6 DEF i
<1>15. f[total] = e[m]
  <2> HIDE DEF T
  <2>1. m \in T
    BY <1>1, <1>13, <1>14, SetInduction
  <2>2. QED
    BY <1>1, <2>1 DEF T
<1>16. QED
  BY <1>4, <1>6, <1>15 DEF middle

(* The events on either side of a cut are fit and continue each other. *)
LEMMA CutFits ==
  ASSUME NEW events, Fit(events), NEW k \in 0 .. Len(events), NEW cut \in Nat,
         \A i \in k + 1 .. Len(events) : events[i].offset >= cut
  PROVE  /\ Fit(Early(events, k)) /\ Len(Early(events, k)) = k
         /\ \A i \in 1 .. k : Early(events, k)[i] = events[i]
         /\ Fit(Late(events, k, cut)) /\ Len(Late(events, k, cut)) \in Nat
         /\ \A at \in Int :
              Parted(events, Early(events, k), Late(events, k, cut), at, at - cut)
<1> DEFINE n == Len(events)
           m == n - k
           first == Early(events, k)
           second == Late(events, k, cut)
<1>1. events \in Seq(EventSet) /\ n \in Nat /\ k \in Nat /\ m \in Nat
  BY DEF Fit
<1>2. \A i \in 1 .. n : events[i] \in EventSet /\ InRange(events[i])
  BY DEF Fit
<1>3. /\ first \in Seq(EventSet) /\ Len(first) = k
      /\ \A i \in 1 .. k : first[i] = events[i]
  BY <1>1 DEF Early
<1>4. second = [i \in 1 .. m |-> [events[k + i] EXCEPT !.offset =
                                     events[k + i].offset - cut]]
  BY DEF Late
<1> HIDE DEF first, second, m, n
<1>5. ASSUME NEW i \in 1 .. m
      PROVE  /\ second[i] \in EventSet /\ InRange(second[i])
             /\ second[i].offset = events[k + i].offset - cut
             /\ second[i].parameter = events[k + i].parameter
             /\ second[i].value = events[k + i].value
             /\ second[i].ramp = events[k + i].ramp
  <2> DEFINE e == events[k + i]
             d == second[i]
  <2>1. k + i \in k + 1 .. n /\ k + i \in 1 .. n
    BY <1>1 DEF m
  <2>2. e \in EventSet /\ InRange(e) /\ e.offset >= cut
    BY <1>2, <2>1 DEF n
  <2>3. d = [e EXCEPT !.offset = e.offset - cut]
    BY <1>4
  <2> HIDE DEF d, e
  <2>4. e.offset - cut \in Nat
    BY <2>2 DEF EventSet
  <2>5. /\ d \in EventSet /\ d.offset = e.offset - cut
        /\ d.parameter = e.parameter /\ d.value = e.value /\ d.ramp = e.ramp
    BY <2>2, <2>3, <2>4 DEF EventSet
  <2>6. InRange(d) <=> InRange(e)
    BY <2>5, Zenon DEF InRange
  <2>7. QED
    BY <2>2, <2>5, <2>6 DEF d, e
<1>6. second \in Seq(EventSet) /\ Len(second) = m
  <2>1. second \in [1 .. m -> EventSet]
    BY <1>4, <1>5
  <2>2. second \in Seq(EventSet)
    BY <1>1, <2>1, SeqDef
  <2>3. Len(second) \in Nat /\ DOMAIN second = 1 .. Len(second)
    BY <2>2, LenProperties
  <2>4. 1 .. m = 1 .. Len(second)
    BY <2>1, <2>3
  <2>5. m = Len(second)
    <3> DEFINE l == Len(second)
    <3>1. l \in Nat /\ (m \in 1 .. m <=> m \in 1 .. l) /\ (l \in 1 .. m <=> l \in 1 .. l)
      BY <2>3, <2>4
    <3> HIDE DEF l
    <3>2. m = l
      BY <1>1, <3>1
    <3>3. QED
      BY <3>2 DEF l
  <2>6. QED
    BY <2>2, <2>5
<1>7. Fit(first)
  <2>1. ASSUME NEW i \in 1 .. Len(first) PROVE InRange(first[i])
    <3>1. i \in 1 .. k /\ i \in 1 .. n
      BY <1>1, <1>3 DEF m, n
    <3>2. first[i] = events[i] /\ InRange(events[i])
      BY <1>2, <1>3, <3>1
    <3>3. QED
      BY <3>2
  <2>2. QED
    BY <1>3, <2>1 DEF Fit
<1>8. Fit(second)
  BY <1>5, <1>6 DEF Fit
<1>9. ASSUME NEW at \in Int PROVE Parted(events, first, second, at, at - cut)
  <2>1. Len(first) \in Nat /\ Len(second) \in Nat /\ Len(events) = Len(first) + Len(second)
    BY <1>1, <1>3, <1>6 DEF m, n
  <2>2. \A i \in 1 .. Len(first) : first[i] = events[i]
    BY <1>3
  <2>3. ASSUME NEW i \in 1 .. Len(second)
        PROVE  /\ second[i].offset = at - cut <=> events[Len(first) + i].offset = at
               /\ second[i].parameter = events[Len(first) + i].parameter
               /\ second[i].value = events[Len(first) + i].value
               /\ second[i].ramp = events[Len(first) + i].ramp
    <3>1. i \in 1 .. m /\ Len(first) = k /\ k + i \in 1 .. n
      BY <1>1, <1>3, <1>6 DEF m
    <3>2. events[k + i].offset \in Nat
      BY <1>2, <3>1 DEF EventSet
    <3>3. second[i].offset = events[k + i].offset - cut
      BY <1>5, <3>1
    <3>4. second[i].offset = at - cut <=> events[k + i].offset = at
      BY <3>2, <3>3
    <3>5. QED
      BY <1>5, <3>1, <3>4
  <2>4. QED
    BY <2>1, <2>2, <2>3 DEF Parted
<1>10. QED
  BY <1>1, <1>3, <1>6, <1>7, <1>8, <1>9 DEF first, second

(* Applying events twice over is applying them to the controls twice. *)
LEMMA DueTwice ==
  ASSUME NEW c, NEW s \in States(c), NEW first, NEW second, NEW at, NEW later
  PROVE  WithDue(WithDue(s, first, at), second, later)
           = [s EXCEPT !.control =
                Controlled(Controlled(s.control, first, at), second, later)]
<1> DEFINE x == Controlled(s.control, first, at)
           t == [s EXCEPT !.control = x]
           y == Controlled(x, second, later)
<1>1. WithDue(s, first, at) = t
  BY DEF WithDue
<1>2. t.control = x
  BY DEF States
<1>3. WithDue(t, second, later) = [t EXCEPT !.control = Controlled(t.control, second, later)]
  BY DEF WithDue
<1> HIDE DEF x
<1>4. WithDue(t, second, later) = [t EXCEPT !.control = y]
  BY <1>2, <1>3
<1> HIDE DEF y
<1>5. [t EXCEPT !.control = y] = [s EXCEPT !.control = y]
  BY DEF States
<1>6. QED
  BY <1>1, <1>4, <1>5 DEF x, y

(* The two blocks do what the one does. *)
LEMMA SplitFollows ==
  ASSUME TransportSizes, Resident, Good(cfg, h)
  PROVE  SplitAgrees
<1> SUFFICES ASSUME NEW frames \in BlockSizes, NEW events \in EventLists,
                    NEW cut \in 0 .. frames, NEW k \in 0 .. Len(events),
                    Judged(cfg, frames, events),
                    \A i \in 1 .. k : events[i].offset <= cut,
                    \A i \in k + 1 .. Len(events) : events[i].offset >= cut
             PROVE  Rendered(cfg, h, frames, events)
                      = Rendered(cfg, Rendered(cfg, h, cut, Early(events, k)),
                                 frames - cut, Late(events, k, cut))
  BY DEF SplitAgrees
<1> DEFINE c == cfg
           first == Early(events, k)
           second == Late(events, k, cut)
           middle == Rendered(c, h, cut, first)
           rest == frames - cut
<1>1. frames \in Nat /\ cut \in Nat /\ rest \in Nat /\ cut <= frames
  <2>1. frames \in Nat
    BY DEF TransportSizes
  <2>2. QED
    BY <2>1
<1>2. Fit(events)
  BY JudgedFit
<1>3. /\ Fit(first) /\ Len(first) = k /\ \A i \in 1 .. k : first[i] = events[i]
      /\ Fit(second) /\ Len(second) \in Nat
      /\ \A at \in Int : Parted(events, first, second, at, at - cut)
  BY <1>1, <1>2, CutFits, Zenon
<1>4. c \in Configs /\ Creates(c)
  BY DEF Resident
<1>5. PICK a : /\ Trail(a, h, "frames", c, events, 0, frames)
               /\ Sampled(c, h, frames, events) = a[frames]
  BY <1>1, SampledIs
<1>6. PICK b : /\ Trail(b, h, "frames", c, first, 0, cut)
               /\ Sampled(c, h, cut, first) = b[cut]
  BY <1>1, SampledIs
<1> HIDE DEF first, second, rest, middle
<1>7. PICK e : /\ Trail(e, middle, "frames", c, second, 0, rest)
               /\ Sampled(c, middle, rest, second) = e[rest]
  BY <1>1, SampledIs
<1>8. /\ a[0] = h
      /\ \A j \in 1 .. frames : a[j] = Sample(c, WithDue(a[j - 1], events, j - 1))
      /\ \A j \in 0 .. frames : Good(c, a[j])
  BY <1>1, <1>2, <1>4, <1>5, SampledHolds
<1>9. /\ b[0] = h
      /\ \A j \in 1 .. cut : b[j] = Sample(c, WithDue(b[j - 1], first, j - 1))
      /\ \A j \in 0 .. cut : Good(c, b[j])
  BY <1>1, <1>3, <1>4, <1>6, SampledHolds
<1>10. Good(c, middle) /\ middle = WithDue(b[cut], first, cut)
  <2>1. Good(c, middle)
    BY <1>1, <1>3, <1>4, RenderedHolds DEF middle
  <2>2. QED
    BY <1>6, <2>1 DEF middle, Rendered
<1>11. /\ e[0] = middle
       /\ \A j \in 1 .. rest : e[j] = Sample(c, WithDue(e[j - 1], second, j - 1))
  <2>1. rest \in Nat /\ Fit(second) /\ Good(c, middle)
    BY <1>1, <1>3, <1>10
  <2>2. QED
    BY <1>4, <1>7, <2>1, SampledHolds
<1>12. \A x, at : at \in Int =>
         Controlled(x, events, at)
           = Controlled(Controlled(x, first, at), second, at - cut)
  BY <1>3, TwoParts
<1>13. ASSUME NEW at \in 0 .. cut - 1, NEW x
       PROVE  Controlled(x, events, at) = Controlled(x, first, at)
  <2>1. \A i \in 1 .. Len(second) : second[i].offset # at - cut
    <3>1. \A i \in 1 .. Len(second) : second[i] \in EventSet
      BY <1>3 DEF Fit
    <3>2. \A i \in 1 .. Len(second) : second[i].offset \in Nat
      BY <3>1 DEF EventSet
    <3>3. at - cut < 0
      BY <1>1
    <3>4. QED
      BY <3>2, <3>3
  <2>2. Controlled(Controlled(x, first, at), second, at - cut) = Controlled(x, first, at)
    BY <1>3, <2>1, NoneDue
  <2>3. at \in Int
    OBVIOUS
  <2>4. QED
    BY <1>12, <2>2, <2>3
<1>14. ASSUME NEW at \in Int, at > cut, NEW x
       PROVE  Controlled(x, events, at) = Controlled(x, second, at - cut)
  <2>1. \A i \in 1 .. Len(first) : first[i].offset # at
    <3>1. \A i \in 1 .. Len(first) : first[i] \in EventSet
      BY <1>3 DEF Fit
    <3>2. \A i \in 1 .. Len(first) : first[i].offset \in Nat /\ first[i].offset <= cut
      BY <1>3, <3>1 DEF EventSet
    <3>3. QED
      BY <1>1, <1>14, <3>2
  <2>2. Len(first) \in Nat
    BY <1>3 DEF Fit
  <2>3. Controlled(x, first, at) = x
    BY <2>1, <2>2, NoneDue
  <2>4. QED
    BY <1>12, <2>3
<1> DEFINE S == {j \in Nat : j <= cut => a[j] = b[j]}
           T == {j \in Nat : j <= rest =>
                   WithDue(a[cut + j], events, cut + j) = WithDue(e[j], second, j)}
<1>15. 0 \in S
  BY <1>8, <1>9
<1>16. ASSUME NEW j \in Nat, j \in S PROVE j + 1 \in S
  <2> SUFFICES ASSUME j + 1 <= cut PROVE a[j + 1] = b[j + 1]
    OBVIOUS
  <2>1. /\ a[j] = b[j] /\ j \in 0 .. cut - 1 /\ j + 1 \in 1 .. cut
        /\ j + 1 \in 1 .. frames /\ (j + 1) - 1 = j
    BY <1>1, <1>16
  <2>2. /\ a[j + 1] = Sample(c, WithDue(a[j], events, j))
        /\ b[j + 1] = Sample(c, WithDue(b[j], first, j))
    BY <1>8, <1>9, <2>1
  <2>3. WithDue(a[j], events, j) = WithDue(a[j], first, j)
    BY <1>13, <2>1 DEF WithDue
  <2>4. QED
    BY <2>1, <2>2, <2>3
<1>17. a[cut] = b[cut]
  <2> HIDE DEF S
  <2>1. cut \in S
    BY <1>1, <1>15, <1>16, SetInduction
  <2>2. QED
    BY <1>1, <2>1 DEF S
<1>18. WithDue(a[cut], events, cut) = WithDue(e[0], second, 0)
  <2> DEFINE x == b[cut]
  <2>1. x \in States(c)
    BY <1>1, <1>9 DEF Good, Held
  <2>2. WithDue(x, events, cut) = [x EXCEPT !.control = Controlled(x.control, events, cut)]
    BY DEF WithDue
  <2> HIDE DEF x
  <2>3. WithDue(WithDue(x, first, cut), second, 0)
          = [x EXCEPT !.control =
               Controlled(Controlled(x.control, first, cut), second, 0)]
    BY <2>1, DueTwice
  <2>4. Controlled(x.control, events, cut)
          = Controlled(Controlled(x.control, first, cut), second, 0)
    <3>1. cut \in Int /\ cut - cut = 0
      BY <1>1
    <3>2. QED
      BY <1>12, <3>1
  <2>5. QED
    BY <1>10, <1>11, <1>17, <2>2, <2>3, <2>4 DEF x
<1>19. 0 \in T
  <2>1. cut + 0 = cut
    BY <1>1
  <2>2. QED
    BY <1>18, <2>1
<1>20. ASSUME NEW j \in Nat, j \in T PROVE j + 1 \in T
  <2> DEFINE i == cut + (j + 1)
  <2> SUFFICES ASSUME j + 1 <= rest
               PROVE  WithDue(a[i], events, i) = WithDue(e[j + 1], second, j + 1)
    OBVIOUS
  <2>1. /\ i \in 1 .. frames /\ i - 1 = cut + j /\ i > cut /\ i \in Int
        /\ i - cut = j + 1 /\ j + 1 \in 1 .. rest /\ (j + 1) - 1 = j /\ j <= rest
    BY <1>1 DEF rest
  <2>2. WithDue(a[cut + j], events, cut + j) = WithDue(e[j], second, j)
    BY <1>20, <2>1
  <2> HIDE DEF i, T
  <2>3. a[i] = Sample(c, WithDue(a[cut + j], events, cut + j))
    BY <1>8, <2>1
  <2>4. e[j + 1] = Sample(c, WithDue(e[j], second, j))
    BY <1>11, <2>1
  <2>5. \A x : Controlled(x, events, i) = Controlled(x, second, j + 1)
    BY <1>14, <2>1
  <2>6. QED
    BY <2>2, <2>3, <2>4, <2>5 DEF WithDue
<1>21. WithDue(a[frames], events, frames) = WithDue(e[rest], second, rest)
  <2> HIDE DEF T
  <2>1. rest \in T
    BY <1>1, <1>19, <1>20, SetInduction
  <2>2. cut + rest = frames
    BY <1>1 DEF rest
  <2>3. QED
    BY <1>1, <2>1, <2>2 DEF T
<1>22. Rendered(c, h, frames, events) = Rendered(c, middle, rest, second)
  BY <1>5, <1>7, <1>21 DEF Rendered
<1>23. QED
  BY <1>22 DEF middle, rest, first, second

-----------------------------------------------------------------------------
(* Every tap is a finished sample of its own place, no output frame takes   *)
(* more than two synthesis frames, and the end is told only when nothing    *)
(* audible is left, for every source, window and kernel of these sizes and  *)
(* every course of blocks, ramps and seeks; a block cut in two is the same  *)
(* performance (be_transport_render, be_transport_seek, get_info).          *)
THEOREM SoundTransport ==
  ASSUME TransportSizes
  PROVE  TransportSpec => []TransportSound
<1>1. Playing => TransportSound
  BY TapsFollow, EndFollows, SplitFollows DEF TransportSound, Playing
<1>2. QED
  BY <1>1, PlayingAlways, PTL

-----------------------------------------------------------------------------
(* The two adapters' lists of events. *)

(* The last of some positions. *)
LEMMA LastOf ==
  ASSUME NEW n \in Nat, NEW S, S \subseteq 1 .. n, S # {}
  PROVE  \E k \in S : \A j \in S : j <= k
<1> DEFINE T == {m \in Nat : n - m \in S}
<1>1. T # {} /\ T \subseteq Nat
  <2>1. PICK k \in S : k \in 1 .. n
    OBVIOUS
  <2>2. n - k \in Nat /\ n - (n - k) = k
    BY <2>1
  <2>3. QED
    BY <2>1, <2>2
<1>2. PICK m \in T : \A y \in T : m <= y
  BY <1>1, LeastOf
<1>3. n - m \in S
  BY <1>2
<1>4. \A j \in S : j <= n - m
  <2> SUFFICES ASSUME NEW j \in S PROVE j <= n - m
    OBVIOUS
  <2>1. j \in 1 .. n /\ n - j \in Nat /\ n - (n - j) = j
    OBVIOUS
  <2>2. n - j \in T
    BY <2>1
  <2>3. m <= n - j
    BY <1>2, <2>2
  <2>4. QED
    BY <1>2, <2>1, <2>3
<1>5. QED
  BY <1>3, <1>4

(* What a host sends and what an adapter makes of it. *)
HostEvent == [kind : {"param", "note", "short"}, time : Nat,
              index : Known \cup Foreign, value : Int, valid : BOOLEAN]
Ev == [offset : Nat, index : Known, value : Int]
Results == [ok : BOOLEAN, events : Seq(Ev)]

(* A loop over n things, the k-th of which is the function g[k]. *)
Loop(f, n, S, base, g) ==
  f \in [0 .. n -> S] /\ f[0] = base /\ \A k \in 1 .. n : f[k] = g[k][f[k - 1]]

(* There is a course of every loop whose steps stay in their set. *)
LEMMA LoopRuns ==
  ASSUME NEW n \in Nat, NEW S, NEW base \in S, NEW g \in [1 .. n -> [S -> S]]
  PROVE  \E f : Loop(f, n, S, base, g)
<1> DEFINE D == {m \in Nat : m <= n => \E f : Loop(f, m, S, base, g)}
<1>1. 0 \in D
  <2>1. Loop([k \in 0 .. 0 |-> base], 0, S, base, g)
    BY DEF Loop
  <2>2. QED
    BY <2>1
<1>2. ASSUME NEW m \in Nat, m \in D PROVE m + 1 \in D
  <2> SUFFICES ASSUME m + 1 <= n PROVE \E f : Loop(f, m + 1, S, base, g)
    OBVIOUS
  <2>1. PICK f : Loop(f, m, S, base, g)
    BY <1>2
  <2> DEFINE v == [k \in 0 .. m + 1 |-> IF k = m + 1 THEN g[m + 1][f[m]] ELSE f[k]]
  <2>2. f[m] \in S /\ g[m + 1] \in [S -> S]
    BY <2>1 DEF Loop
  <2>3. g[m + 1][f[m]] \in S
    BY <2>2
  <2>4. v \in [0 .. m + 1 -> S] /\ v[0] = base
    BY <2>1, <2>3 DEF Loop
  <2>5. ASSUME NEW k \in 1 .. m + 1 PROVE v[k] = g[k][v[k - 1]]
    <3>1. CASE k = m + 1
      <4>1. v[k] = g[m + 1][f[m]] /\ k - 1 = m /\ v[m] = f[m]
        BY <3>1
      <4>2. QED
        BY <3>1, <4>1, Zenon
    <3>2. CASE k # m + 1
      <4>1. k \in 1 .. m /\ v[k] = f[k] /\ v[k - 1] = f[k - 1]
        BY <3>2
      <4>2. f[k] = g[k][f[k - 1]]
        BY <2>1, <4>1 DEF Loop
      <4>3. QED
        BY <4>1, <4>2, Zenon
    <3>3. QED
      BY <3>1, <3>2
  <2> HIDE DEF v
  <2>6. Loop(v, m + 1, S, base, g)
    BY <2>4, <2>5 DEF Loop
  <2>7. QED
    BY <2>6
<1> HIDE DEF D
<1>3. n \in D
  BY <1>1, <1>2, SetInduction
<1>4. QED
  BY <1>3 DEF D

-----------------------------------------------------------------------------
(* The value of a parameter at an offset. *)

InEffect(s, p, o, k) == s[k].index = p /\ s[k].offset <= o

(* The last event heard gives it. *)
LEMMA ValueIs ==
  ASSUME NEW s \in Seq(Ev), NEW p, NEW o \in Nat, NEW k \in DOMAIN s,
         InEffect(s, p, o, k), \A j \in DOMAIN s : InEffect(s, p, o, j) => j <= k
  PROVE  ValueAt(s, p, o) = s[k].value
<1> DEFINE upTo == {j \in DOMAIN s : s[j].index = p /\ s[j].offset <= o}
<1>1. k \in upTo /\ (\A j \in upTo : j <= k) /\ upTo \subseteq Nat
  BY DEF InEffect
<1>2. ValueAt(s, p, o) = IF upTo = {} THEN -1 ELSE s[Max(upTo)].value
  BY DEF ValueAt
<1> HIDE DEF upTo
<1>3. Max(upTo) = k
  BY <1>1 DEF Max
<1>4. QED
  BY <1>1, <1>2, <1>3

(* Without one there is none. *)
LEMMA NoValue ==
  ASSUME NEW s, NEW p, NEW o, \A j \in DOMAIN s : ~InEffect(s, p, o, j)
  PROVE  ValueAt(s, p, o) = -1
  BY DEF ValueAt, InEffect

(* When one is heard, there is a last one. *)
LEMMA LastInEffect ==
  ASSUME NEW s \in Seq(Ev), NEW p, NEW o, NEW i \in DOMAIN s, InEffect(s, p, o, i)
  PROVE  \E k \in DOMAIN s : InEffect(s, p, o, k)
                             /\ \A j \in DOMAIN s : InEffect(s, p, o, j) => j <= k
<1> DEFINE S == {j \in DOMAIN s : InEffect(s, p, o, j)}
<1>1. Len(s) \in Nat /\ S \subseteq 1 .. Len(s) /\ S # {}
  OBVIOUS
<1>2. PICK k \in S : \A j \in S : j <= k
  BY <1>1, LastOf
<1>3. QED
  BY <1>2

(* The events of a second list come after those of the first. *)
LEMMA ValueOfBoth ==
  ASSUME NEW s \in Seq(Ev), NEW t \in Seq(Ev), NEW p, NEW o \in Nat
  PROVE  ValueAt(s \o t, p, o) =
           IF \E j \in DOMAIN t : InEffect(t, p, o, j) THEN ValueAt(t, p, o)
           ELSE ValueAt(s, p, o)
<1> DEFINE u == s \o t
<1>1. u \in Seq(Ev) /\ Len(u) = Len(s) + Len(t) /\ Len(s) \in Nat /\ Len(t) \in Nat
      /\ DOMAIN u = 1 .. Len(u) /\ DOMAIN s = 1 .. Len(s) /\ DOMAIN t = 1 .. Len(t)
  OBVIOUS
<1>2. \A j \in 1 .. Len(s) : u[j] = s[j]
  OBVIOUS
<1>3. \A j \in 1 .. Len(t) : u[Len(s) + j] = t[j]
  OBVIOUS
<1> HIDE DEF u
<1>4. \A j \in 1 .. Len(s) : InEffect(u, p, o, j) <=> InEffect(s, p, o, j)
  BY <1>2 DEF InEffect
<1>5. \A j \in 1 .. Len(t) : InEffect(u, p, o, Len(s) + j) <=> InEffect(t, p, o, j)
  BY <1>3 DEF InEffect
<1>6. \A j \in 1 .. Len(u) : j \in 1 .. Len(s)
                             \/ (j - Len(s) \in 1 .. Len(t) /\ j = Len(s) + (j - Len(s)))
  BY <1>1
<1>7. CASE \E j \in DOMAIN t : InEffect(t, p, o, j)
  <2>1. PICK k \in DOMAIN t : InEffect(t, p, o, k)
                              /\ \A j \in DOMAIN t : InEffect(t, p, o, j) => j <= k
    BY <1>7, LastInEffect
  <2>2. Len(s) + k \in DOMAIN u /\ InEffect(u, p, o, Len(s) + k) /\ u[Len(s) + k] = t[k]
    BY <1>1, <1>3, <1>5, <2>1
  <2>3. ASSUME NEW j \in DOMAIN u, InEffect(u, p, o, j) PROVE j <= Len(s) + k
    <3>1. CASE j \in 1 .. Len(s)
      BY <1>1, <2>1, <3>1
    <3>2. CASE j - Len(s) \in 1 .. Len(t) /\ j = Len(s) + (j - Len(s))
      <4>1. InEffect(t, p, o, j - Len(s))
        BY <1>5, <2>3, <3>2
      <4>2. j - Len(s) <= k
        BY <1>1, <2>1, <3>2, <4>1
      <4>3. QED
        BY <1>1, <2>1, <3>2, <4>2
    <3>3. QED
      BY <1>1, <1>6, <3>1, <3>2
  <2>4. ValueAt(u, p, o) = u[Len(s) + k].value
    BY <1>1, <2>2, <2>3, ValueIs
  <2>5. ValueAt(t, p, o) = t[k].value
    BY <2>1, ValueIs
  <2>6. QED
    BY <1>7, <2>2, <2>4, <2>5 DEF u
<1>8. CASE ~\E j \in DOMAIN t : InEffect(t, p, o, j)
  <2>1. \A j \in DOMAIN u : InEffect(u, p, o, j) => j \in DOMAIN s /\ InEffect(s, p, o, j)
    BY <1>1, <1>4, <1>5, <1>6, <1>8
  <2>2. CASE \E j \in DOMAIN s : InEffect(s, p, o, j)
    <3>1. PICK k \in DOMAIN s : InEffect(s, p, o, k)
                                /\ \A j \in DOMAIN s : InEffect(s, p, o, j) => j <= k
      BY <2>2, LastInEffect
    <3>2. k \in DOMAIN u /\ InEffect(u, p, o, k) /\ u[k] = s[k]
      BY <1>1, <1>2, <1>4, <3>1
    <3>3. ValueAt(u, p, o) = u[k].value
      BY <1>1, <2>1, <3>1, <3>2, ValueIs
    <3>4. ValueAt(s, p, o) = s[k].value
      BY <3>1, ValueIs
    <3>5. QED
      BY <1>8, <3>2, <3>3, <3>4 DEF u
  <2>3. CASE ~\E j \in DOMAIN s : InEffect(s, p, o, j)
    <3>1. \A j \in DOMAIN u : ~InEffect(u, p, o, j)
      BY <2>1, <2>3
    <3>2. ValueAt(u, p, o) = -1 /\ ValueAt(s, p, o) = -1
      BY <2>3, <3>1, NoValue
    <3>3. QED
      BY <1>8, <3>2 DEF u
  <2>4. QED
    BY <2>2, <2>3
<1>9. QED
  BY <1>7, <1>8

(* An event at the end gives its own value from its offset on. *)
LEMMA ValueOfOne ==
  ASSUME NEW s \in Seq(Ev), NEW e \in Ev, NEW p, NEW o \in Nat
  PROVE  ValueAt(Append(s, e), p, o) =
           IF e.index = p /\ e.offset <= o THEN e.value ELSE ValueAt(s, p, o)
<1> DEFINE t == <<e>>
<1>1. t \in Seq(Ev) /\ DOMAIN t = {1} /\ t[1] = e /\ Append(s, e) = s \o t
  OBVIOUS
<1> HIDE DEF t
<1>2. InEffect(t, p, o, 1) <=> e.index = p /\ e.offset <= o
  BY <1>1 DEF InEffect
<1>3. ASSUME InEffect(t, p, o, 1) PROVE ValueAt(t, p, o) = e.value
  <2>1. 1 \in DOMAIN t /\ \A j \in DOMAIN t : InEffect(t, p, o, j) => j <= 1
    BY <1>1
  <2>2. QED
    BY <1>1, <1>3, <2>1, ValueIs
<1>4. ValueAt(s \o t, p, o) =
        IF \E j \in DOMAIN t : InEffect(t, p, o, j) THEN ValueAt(t, p, o)
        ELSE ValueAt(s, p, o)
  BY <1>1, ValueOfBoth
<1>5. QED
  BY <1>1, <1>2, <1>3, <1>4

-----------------------------------------------------------------------------
(* The loops of the two readers. *)

(* What satisfies a loop's equation is its course. *)
LEMMA LoopIs ==
  ASSUME NEW n \in Nat, NEW S, NEW base, NEW g, NEW v, Loop(v, n, S, base, g),
         NEW f, f[0] = base, \A k \in 1 .. n : f[k - 1] \in S => f[k] = g[k][f[k - 1]]
  PROVE  f[n] = v[n]
<1> DEFINE D == {m \in Nat : m <= n => f[m] = v[m]}
<1>1. 0 \in D
  BY DEF Loop
<1>2. ASSUME NEW m \in Nat, m \in D PROVE m + 1 \in D
  <2> SUFFICES ASSUME m + 1 <= n PROVE f[m + 1] = v[m + 1]
    OBVIOUS
  <2>1. f[m] = v[m] /\ (m + 1) - 1 = m /\ m + 1 \in 1 .. n /\ m \in 0 .. n
    BY <1>2
  <2>2. v[m] \in S /\ v[m + 1] = g[m + 1][v[m]]
    BY <2>1 DEF Loop
  <2>3. f[m + 1] = g[m + 1][f[m]]
    BY <2>1, <2>2
  <2>4. QED
    BY <2>1, <2>2, <2>3
<1> HIDE DEF D
<1>3. n \in D
  BY <1>1, <1>2, SetInduction
<1>4. QED
  BY <1>3 DEF D

(* A host's event that is read is one of the list's kind. *)
LEMMA PointType ==
  ASSUME EventTypes, NEW e \in HostEvent, e.index \in Known
  PROVE  Point(e) \in Ev
  BY DEF EventTypes, HostEvent, Point, Ev

(* A step of parse() gives a result. *)
LEMMA ClapNextType ==
  ASSUME EventTypes, NEW r \in Results, NEW e \in HostEvent
  PROVE  ClapNext(r, e) \in Results
<1>1. Refused \in Results
  BY DEF Refused, Results
<1>2. ASSUME e.index \in Known PROVE Parsed(Append(r.events, Point(e))) \in Results
  BY <1>2, PointType DEF Parsed, Results
<1>3. QED
  BY <1>1, <1>2 DEF ClapNext, Heeded

(* parse() goes through the events one by one. *)
LEMMA ClapCourse ==
  ASSUME EventTypes, NEW events \in Seq(HostEvent)
  PROVE  \E v : /\ v \in [0 .. Len(events) -> Results]
                /\ v[0] = Parsed(<<>>)
                /\ \A k \in 1 .. Len(events) : v[k] = ClapNext(v[k - 1], events[k])
                /\ ClapParse(events) = v[Len(events)]
<1> DEFINE n == Len(events)
           g == [k \in 1 .. n |-> [r \in Results |-> ClapNext(r, events[k])]]
           Eq(f) == f = [i \in 0 .. n |-> IF i = 0 THEN Parsed(<<>>)
                                          ELSE ClapNext(f[i - 1], events[i])]
           f == CHOOSE f : Eq(f)
<1>1. n \in Nat /\ Parsed(<<>>) \in Results
  BY DEF Parsed, Results
<1>2. g \in [1 .. n -> [Results -> Results]]
  <2>1. \A k \in 1 .. n : events[k] \in HostEvent
    OBVIOUS
  <2>2. QED
    BY <2>1, ClapNextType
<1>3. \A k \in 1 .. n, r \in Results : g[k][r] = ClapNext(r, events[k])
  OBVIOUS
<1>4. ClapParse(events) = f[n]
  BY DEF ClapParse
<1> HIDE DEF g
<1>5. PICK v : Loop(v, n, Results, Parsed(<<>>), g)
  BY <1>1, <1>2, LoopRuns
<1>6. ASSUME NEW k \in 1 .. n PROVE v[k] = ClapNext(v[k - 1], events[k])
  BY <1>3, <1>5 DEF Loop
<1>7. Eq(v)
  <2>1. v \in [0 .. n -> Results] /\ v[0] = Parsed(<<>>)
    BY <1>5 DEF Loop
  <2>2. \A i \in 0 .. n : i # 0 => i \in 1 .. n
    BY <1>1
  <2>3. QED
    BY <1>6, <2>1, <2>2
<1>8. Eq(f)
  BY <1>7, Zenon
<1> HIDE DEF f
<1>9. f[0] = Parsed(<<>>) /\ \A k \in 1 .. n : f[k] = ClapNext(f[k - 1], events[k])
  BY <1>1, <1>8
<1>10. \A k \in 1 .. n : f[k - 1] \in Results => f[k] = g[k][f[k - 1]]
  BY <1>3, <1>9
<1>11. f[n] = v[n]
  BY <1>1, <1>5, <1>9, <1>10, LoopIs
<1>12. QED
  BY <1>4, <1>5, <1>6, <1>11 DEF Loop

(* The events of one parameter, and the points they become. *)
Its(p) == {e \in HostEvent : Changes(e, p)}

(* A queue takes its parameter's events one by one. *)
LEMMA QueueCourse ==
  ASSUME EventTypes, NEW events \in Seq(HostEvent), NEW p
  PROVE  \E v : /\ v \in [0 .. Len(events) -> Seq(Its(p))]
                /\ v[0] = <<>>
                /\ \A k \in 1 .. Len(events) : v[k] = (IF Changes(events[k], p) THEN Append(v[k - 1], events[k]) ELSE v[k - 1])
                /\ QueueOf(events, p) = v[Len(events)]
<1> DEFINE n == Len(events)
           S == Seq(Its(p))
           g == [k \in 1 .. n |-> [r \in S |-> (IF Changes(events[k], p) THEN Append(r, events[k]) ELSE r)]]
           Eq(f) == f = [k \in 0 .. n |-> IF k = 0 THEN <<>>
                                          ELSE (IF Changes(events[k], p) THEN Append(f[k - 1], events[k]) ELSE f[k - 1])]
           f == CHOOSE f : Eq(f)
<1>1. n \in Nat /\ <<>> \in S
  BY DEF Parsed, Results
<1>2. g \in [1 .. n -> [S -> S]]
  <2>1. \A k \in 1 .. n : Changes(events[k], p) => events[k] \in Its(p)
    BY DEF Its
  <2>2. QED
    BY <2>1
<1>3. \A k \in 1 .. n, r \in S : g[k][r] = (IF Changes(events[k], p) THEN Append(r, events[k]) ELSE r)
  OBVIOUS
<1>4. QueueOf(events, p) = f[n]
  BY DEF QueueOf
<1> HIDE DEF g, S
<1>5. PICK v : Loop(v, n, S, <<>>, g)
  BY <1>1, <1>2, LoopRuns
<1>6. ASSUME NEW k \in 1 .. n PROVE v[k] = (IF Changes(events[k], p) THEN Append(v[k - 1], events[k]) ELSE v[k - 1])
  BY <1>3, <1>5 DEF Loop
<1>7. Eq(v)
  <2>1. v \in [0 .. n -> S] /\ v[0] = <<>>
    BY <1>5 DEF Loop
  <2>2. \A i \in 0 .. n : i # 0 => i \in 1 .. n
    BY <1>1
  <2>3. QED
    BY <1>6, <2>1, <2>2
<1>8. Eq(f)
  BY <1>7, Zenon
<1> HIDE DEF f
<1>9. f[0] = <<>> /\ \A k \in 1 .. n : f[k] = (IF Changes(events[k], p) THEN Append(f[k - 1], events[k]) ELSE f[k - 1])
  <2>1. 0 \in 0 .. n /\ \A k \in 1 .. n : k \in 0 .. n /\ k # 0
    BY <1>1
  <2>2. \A k \in 0 .. n : f[k] = IF k = 0 THEN <<>> ELSE (IF Changes(events[k], p) THEN Append(f[k - 1], events[k]) ELSE f[k - 1])
    BY <1>8, Zenon
  <2>3. QED
    BY <2>1, <2>2, Zenon
<1>10. \A k \in 1 .. n : f[k - 1] \in S => f[k] = g[k][f[k - 1]]
  BY <1>3, <1>9
<1>11. f[n] = v[n]
  BY <1>1, <1>5, <1>9, <1>10, LoopIs
<1>12. QED
  BY <1>4, <1>5, <1>6, <1>11 DEF Loop, S

(* The queues come in the order of their first events. *)
LEMMA OrderCourse ==
  ASSUME EventTypes, NEW events \in Seq(HostEvent)
  PROVE  \E v : /\ v \in [0 .. Len(events) -> Seq(Known \cup Foreign)]
                /\ v[0] = <<>>
                /\ \A k \in 1 .. Len(events) : v[k] = (IF First(events, k) THEN Append(v[k - 1], events[k].index) ELSE v[k - 1])
                /\ Order(events) = v[Len(events)]
<1> DEFINE n == Len(events)
           S == Seq(Known \cup Foreign)
           g == [k \in 1 .. n |-> [r \in S |-> (IF First(events, k) THEN Append(r, events[k].index) ELSE r)]]
           Eq(f) == f = [k \in 0 .. n |-> IF k = 0 THEN <<>>
                                          ELSE (IF First(events, k) THEN Append(f[k - 1], events[k].index) ELSE f[k - 1])]
           f == CHOOSE f : Eq(f)
<1>1. n \in Nat /\ <<>> \in S
  BY DEF Parsed, Results
<1>2. g \in [1 .. n -> [S -> S]]
  <2>1. \A k \in 1 .. n : events[k] \in HostEvent
    OBVIOUS
  <2>2. \A e \in HostEvent : e.index \in Known \cup Foreign
    BY DEF HostEvent
  <2>3. \A k \in 1 .. n : events[k].index \in Known \cup Foreign
    BY <2>1, <2>2
  <2>4. QED
    BY <2>3
<1>3. \A k \in 1 .. n, r \in S : g[k][r] = (IF First(events, k) THEN Append(r, events[k].index) ELSE r)
  OBVIOUS
<1>4. Order(events) = f[n]
  BY DEF Order
<1> HIDE DEF g, S
<1>5. PICK v : Loop(v, n, S, <<>>, g)
  BY <1>1, <1>2, LoopRuns
<1>6. ASSUME NEW k \in 1 .. n PROVE v[k] = (IF First(events, k) THEN Append(v[k - 1], events[k].index) ELSE v[k - 1])
  BY <1>3, <1>5 DEF Loop
<1>7. Eq(v)
  <2>1. v \in [0 .. n -> S] /\ v[0] = <<>>
    BY <1>5 DEF Loop
  <2>2. \A i \in 0 .. n : i # 0 => i \in 1 .. n
    BY <1>1
  <2>3. QED
    BY <1>6, <2>1, <2>2
<1>8. Eq(f)
  BY <1>7, Zenon
<1> HIDE DEF f
<1>9. f[0] = <<>> /\ \A k \in 1 .. n : f[k] = (IF First(events, k) THEN Append(f[k - 1], events[k].index) ELSE f[k - 1])
  <2>1. 0 \in 0 .. n /\ \A k \in 1 .. n : k \in 0 .. n /\ k # 0
    BY <1>1
  <2>2. \A k \in 0 .. n : f[k] = IF k = 0 THEN <<>> ELSE (IF First(events, k) THEN Append(f[k - 1], events[k].index) ELSE f[k - 1])
    BY <1>8, Zenon
  <2>3. QED
    BY <2>1, <2>2, Zenon
<1>10. \A k \in 1 .. n : f[k - 1] \in S => f[k] = g[k][f[k - 1]]
  BY <1>3, <1>9
<1>11. f[n] = v[n]
  BY <1>1, <1>5, <1>9, <1>10, LoopIs
<1>12. QED
  BY <1>4, <1>5, <1>6, <1>11 DEF Loop, S

(* A queue's points are the list's events. *)
LEMMA PointsAre ==
  ASSUME EventTypes, NEW p \in Known, NEW q \in Seq(Its(p))
  PROVE  /\ Points(q) \in Seq(Ev) /\ Len(Points(q)) = Len(q)
         /\ \A j \in 1 .. Len(q) : Points(q)[j] = Point(q[j]) /\ Points(q)[j].index = p
<1>1. ASSUME NEW j \in 1 .. Len(q) PROVE Point(q[j]) \in Ev /\ Point(q[j]).index = p
  <2>1. q[j] \in HostEvent /\ q[j].index = p
    BY DEF Its, Changes
  <2>2. QED
    BY <2>1, PointType DEF Point
<1>2. Points(q) = [j \in 1 .. Len(q) |-> Point(q[j])]
  BY DEF Points
<1>3. Len(q) \in Nat
  OBVIOUS
<1>4. QED
  BY <1>1, <1>2, <1>3

(* A queue gathered gives a result. *)
LEMMA GatheredType ==
  ASSUME EventTypes, NEW r \in Results, NEW p, NEW q \in Seq(Its(p))
  PROVE  Gathered(r, q, p) \in Results
<1>1. Refused \in Results
  BY DEF Refused, Results
<1>2. ASSUME p \in Known PROVE Parsed(r.events \o Points(q)) \in Results
  <2>1. r.events \in Seq(Ev) /\ Points(q) \in Seq(Ev)
    BY <1>2, PointsAre DEF Results
  <2>2. r.events \o Points(q) \in Seq(Ev)
    BY <2>1
  <2>3. QED
    BY <2>2 DEF Parsed, Results
<1>3. QED
  BY <1>1, <1>2 DEF Gathered

LEMMA QueueType ==
  ASSUME EventTypes, NEW events \in Seq(HostEvent), NEW p
  PROVE  QueueOf(events, p) \in Seq(Its(p))
<1>1. Len(events) \in Nat
  OBVIOUS
<1>2. QED
  BY <1>1, QueueCourse

(* process() goes through the queues one by one. *)
LEMMA CollectCourse ==
  ASSUME EventTypes, NEW events \in Seq(HostEvent),
         NEW order \in Seq(Known \cup Foreign)
  PROVE  \E v : /\ v \in [0 .. Len(order) -> Results]
                /\ v[0] = Parsed(<<>>)
                /\ \A k \in 1 .. Len(order) : v[k] = Gathered(v[k - 1], QueueOf(events, order[k]), order[k])
                /\ Collect(events, order) = v[Len(order)]
<1> DEFINE n == Len(order)
           S == Results
           g == [k \in 1 .. n |-> [r \in S |-> Gathered(r, QueueOf(events, order[k]), order[k])]]
           Eq(f) == f = [k \in 0 .. n |-> IF k = 0 THEN Parsed(<<>>)
                                          ELSE Gathered(f[k - 1], QueueOf(events, order[k]), order[k])]
           f == CHOOSE f : Eq(f)
<1>1. n \in Nat /\ Parsed(<<>>) \in S
  BY DEF Parsed, Results
<1>2. g \in [1 .. n -> [S -> S]]
  <2>1. \A k \in 1 .. n, r \in S :
          Gathered(r, QueueOf(events, order[k]), order[k]) \in S
    BY QueueType, GatheredType
  <2>2. QED
    BY <2>1
<1>3. \A k \in 1 .. n, r \in S : g[k][r] = Gathered(r, QueueOf(events, order[k]), order[k])
  OBVIOUS
<1>4. Collect(events, order) = f[n]
  BY DEF Collect
<1> HIDE DEF g, S
<1>5. PICK v : Loop(v, n, S, Parsed(<<>>), g)
  BY <1>1, <1>2, LoopRuns
<1>6. ASSUME NEW k \in 1 .. n PROVE v[k] = Gathered(v[k - 1], QueueOf(events, order[k]), order[k])
  BY <1>3, <1>5 DEF Loop
<1>7. Eq(v)
  <2>1. v \in [0 .. n -> S] /\ v[0] = Parsed(<<>>)
    BY <1>5 DEF Loop
  <2>2. \A i \in 0 .. n : i # 0 => i \in 1 .. n
    BY <1>1
  <2>3. QED
    BY <1>6, <2>1, <2>2
<1>8. Eq(f)
  BY <1>7, Zenon
<1> HIDE DEF f
<1>9. f[0] = Parsed(<<>>) /\ \A k \in 1 .. n : f[k] = Gathered(f[k - 1], QueueOf(events, order[k]), order[k])
  <2>1. 0 \in 0 .. n /\ \A k \in 1 .. n : k \in 0 .. n /\ k # 0
    BY <1>1
  <2>2. \A k \in 0 .. n : f[k] = IF k = 0 THEN Parsed(<<>>) ELSE Gathered(f[k - 1], QueueOf(events, order[k]), order[k])
    BY <1>8, Zenon
  <2>3. QED
    BY <2>1, <2>2, Zenon
<1>10. \A k \in 1 .. n : f[k - 1] \in S => f[k] = g[k][f[k - 1]]
  BY <1>3, <1>9
<1>11. f[n] = v[n]
  BY <1>1, <1>5, <1>9, <1>10, LoopIs
<1>12. QED
  BY <1>4, <1>5, <1>6, <1>11 DEF Loop, S

(* Two lists, one after the other. *)
LEMMA Joined ==
  ASSUME NEW T, NEW s \in Seq(T), NEW t \in Seq(T)
  PROVE  /\ s \o t \in Seq(T) /\ Len(s \o t) = Len(s) + Len(t)
         /\ \A j \in 1 .. Len(s) : (s \o t)[j] = s[j]
         /\ \A j \in 1 .. Len(t) : (s \o t)[Len(s) + j] = t[j]
  OBVIOUS

(* The sort puts an event behind all that are not later, if they are in    *)
(* order.                                                                  *)
LEMMA Inserted ==
  ASSUME NEW s \in Seq(Ev), NEW e \in Ev
  PROVE  LET k == Place(s, e)
             u == InsertAt(s, k, e)
         IN  /\ k \in 1 .. Len(s) + 1
             /\ u \in Seq(Ev) /\ Len(u) = Len(s) + 1 /\ u[k] = e
             /\ \A j \in 1 .. k - 1 : u[j] = s[j]
             /\ \A j \in k .. Len(s) : u[j + 1] = s[j] /\ s[j].offset > e.offset
             /\ k # 1 => s[k - 1].offset <= e.offset
<1> DEFINE k == Place(s, e)
           u == InsertAt(s, k, e)
           before == {i \in DOMAIN s : s[i].offset <= e.offset}
<1>1. Len(s) \in Nat /\ before \subseteq 1 .. Len(s) /\ e.offset \in Nat
      /\ \A i \in 1 .. Len(s) : s[i].offset \in Nat
  <2>1. \A x \in Ev : x.offset \in Nat
    BY DEF Ev
  <2>2. \A i \in 1 .. Len(s) : s[i] \in Ev
    OBVIOUS
  <2>3. QED
    BY <2>1, <2>2
<1>2. k = IF before = {} THEN 1 ELSE Max(before) + 1
  BY DEF Place
<1>3. k \in 1 .. Len(s) + 1 /\ (k # 1 => k - 1 \in before)
      /\ \A i \in before : i < k
  <2>1. CASE before = {}
    BY <1>1, <1>2, <2>1
  <2>2. CASE before # {}
    <3>1. PICK m \in before : \A j \in before : j <= m
      BY <1>1, <2>2, LastOf
    <3>2. \E m1 \in before : \A j \in before : m1 >= j
      BY <1>1, <3>1
    <3>3. Max(before) \in before /\ \A j \in before : Max(before) >= j
      BY <3>2, Zenon DEF Max
    <3>4. Max(before) \in 1 .. Len(s) /\ k = Max(before) + 1
      BY <1>1, <1>2, <2>2, <3>3
    <3> DEFINE a == Max(before)
    <3>5. a \in before /\ a \in 1 .. Len(s) /\ k = a + 1 /\ (\A j \in before : a >= j)
          /\ before \subseteq 1 .. Len(s) /\ Len(s) \in Nat
      BY <1>1, <3>3, <3>4
    <3> HIDE DEF before, k, a
    <3>6. k \in 1 .. Len(s) + 1 /\ k - 1 = a /\ \A j \in before : j < k
      BY <3>5
    <3>7. QED
      BY <3>5, <3>6
  <2>3. QED
    BY <2>1, <2>2
<1>4. \A j \in 1 .. Len(s) : j \in before <=> s[j].offset <= e.offset
  BY <1>1
<1>5. u = SubSeq(s, 1, k - 1) \o <<e>> \o SubSeq(s, k, Len(s))
  BY DEF InsertAt
<1> HIDE DEF k, u, before
<1> DEFINE a == SubSeq(s, 1, k - 1)
           b == SubSeq(s, k, Len(s))
<1>6. a \in Seq(Ev) /\ Len(a) = k - 1 /\ \A j \in 1 .. k - 1 : a[j] = s[j]
  BY <1>1, <1>3
<1>7. b \in Seq(Ev) /\ Len(b) = Len(s) - k + 1 /\ \A j \in 1 .. Len(s) - k + 1 : b[j] = s[k + j - 1]
  BY <1>1, <1>3
<1> HIDE DEF a, b
<1> DEFINE c == a \o <<e>>
<1>8. c \in Seq(Ev) /\ Len(c) = k /\ c[k] = e /\ \A j \in 1 .. k - 1 : c[j] = s[j]
  BY <1>1, <1>3, <1>6
<1>9. u = c \o b
  BY <1>5 DEF a, b
<1> HIDE DEF c
<1> DEFINE l == Len(b)
<1>14. l = Len(s) - k + 1 /\ l \in Nat /\ Len(c) + l = Len(s) + 1 /\ k \in 1 .. Len(c)
       /\ \A j \in 1 .. k - 1 : j \in 1 .. Len(c)
  BY <1>1, <1>3, <1>7, <1>8
<1>15. u \in Seq(Ev) /\ Len(u) = Len(c) + l /\ (\A j \in 1 .. Len(c) : u[j] = c[j])
       /\ \A j \in 1 .. l : u[Len(c) + j] = b[j]
  <2>1. c \in Seq(Ev) /\ b \in Seq(Ev)
    BY <1>7, <1>8
  <2>2. /\ c \o b \in Seq(Ev) /\ Len(c \o b) = Len(c) + Len(b)
        /\ \A j \in 1 .. Len(c) : (c \o b)[j] = c[j]
        /\ \A j \in 1 .. Len(b) : (c \o b)[Len(c) + j] = b[j]
    BY <2>1, Joined, SMT
  <2>3. QED
    BY <1>9, <2>2, Zenon
<1>10. u \in Seq(Ev) /\ Len(u) = Len(s) + 1 /\ u[k] = e /\ \A j \in 1 .. k - 1 : u[j] = s[j]
  BY <1>8, <1>14, <1>15
<1>11. ASSUME NEW j \in k .. Len(s) PROVE u[j + 1] = s[j] /\ s[j].offset > e.offset
  <2>1. j + 1 - k \in 1 .. Len(s) - k + 1 /\ j + 1 = Len(c) + (j + 1 - k)
        /\ k + (j + 1 - k) - 1 = j
    BY <1>1, <1>3, <1>8
  <2>2. u[j + 1] = b[j + 1 - k]
    <3>1. j + 1 - k \in 1 .. l
      BY <1>14, <2>1
    <3>2. u[Len(c) + (j + 1 - k)] = b[j + 1 - k]
      BY <1>15, <3>1
    <3>3. QED
      BY <2>1, <3>2, Zenon
  <2>3. b[j + 1 - k] = s[j]
    BY <1>7, <2>1
  <2>4. j \in 1 .. Len(s) /\ j \notin before
    BY <1>1, <1>3
  <2>5. QED
    BY <1>1, <1>4, <2>2, <2>3, <2>4
<1>12. k # 1 => s[k - 1].offset <= e.offset
  BY <1>1, <1>3, <1>4
<1>13. QED
  BY <1>3, <1>10, <1>11, <1>12 DEF k, u

(* The sort takes the events one by one. *)
LEMMA SortedCourse ==
  ASSUME NEW s \in Seq(Ev)
  PROVE  \E v : /\ v \in [0 .. Len(s) -> Seq(Ev)]
                /\ v[0] = <<>>
                /\ \A k \in 1 .. Len(s) : v[k] = InsertAt(v[k - 1], Place(v[k - 1], s[k]), s[k])
                /\ Sorted(s) = v[Len(s)]
<1> DEFINE n == Len(s)
           S == Seq(Ev)
           g == [k \in 1 .. n |-> [r \in S |-> InsertAt(r, Place(r, s[k]), s[k])]]
           Eq(f) == f = [k \in 0 .. n |-> IF k = 0 THEN <<>>
                                          ELSE InsertAt(f[k - 1], Place(f[k - 1], s[k]), s[k])]
           f == CHOOSE f : Eq(f)
<1>1. n \in Nat /\ <<>> \in S
  BY DEF Parsed, Results
<1>2. g \in [1 .. n -> [S -> S]]
  <2>1. \A k \in 1 .. n : s[k] \in Ev
    OBVIOUS
  <2>2. \A k \in 1 .. n, r \in S : InsertAt(r, Place(r, s[k]), s[k]) \in S
    BY <2>1, Inserted
  <2>3. QED
    BY <2>2
<1>3. \A k \in 1 .. n, r \in S : g[k][r] = InsertAt(r, Place(r, s[k]), s[k])
  OBVIOUS
<1>4. Sorted(s) = f[n]
  BY DEF Sorted
<1> HIDE DEF g, S
<1>5. PICK v : Loop(v, n, S, <<>>, g)
  BY <1>1, <1>2, LoopRuns
<1>6. ASSUME NEW k \in 1 .. n PROVE v[k] = InsertAt(v[k - 1], Place(v[k - 1], s[k]), s[k])
  BY <1>3, <1>5 DEF Loop
<1>7. Eq(v)
  <2>1. v \in [0 .. n -> S] /\ v[0] = <<>>
    BY <1>5 DEF Loop
  <2>2. \A i \in 0 .. n : i # 0 => i \in 1 .. n
    BY <1>1
  <2>3. QED
    BY <1>6, <2>1, <2>2
<1>8. Eq(f)
  BY <1>7, Zenon
<1> HIDE DEF f
<1>9. f[0] = <<>> /\ \A k \in 1 .. n : f[k] = InsertAt(f[k - 1], Place(f[k - 1], s[k]), s[k])
  <2>1. 0 \in 0 .. n /\ \A k \in 1 .. n : k \in 0 .. n /\ k # 0
    BY <1>1
  <2>2. \A k \in 0 .. n : f[k] = IF k = 0 THEN <<>> ELSE InsertAt(f[k - 1], Place(f[k - 1], s[k]), s[k])
    BY <1>8, Zenon
  <2>3. QED
    BY <2>1, <2>2, Zenon
<1>10. \A k \in 1 .. n : f[k - 1] \in S => f[k] = g[k][f[k - 1]]
  BY <1>3, <1>9
<1>11. f[n] = v[n]
  BY <1>1, <1>5, <1>9, <1>10, LoopIs
<1>12. QED
  BY <1>4, <1>5, <1>6, <1>11 DEF Loop, S

-----------------------------------------------------------------------------
(* What parse() reads. *)

(* An event it goes on from is skipped or added to the list. *)
LEMMA ClapNextIs ==
  ASSUME NEW r, NEW e, ClapNext(r, e).ok
  PROVE  /\ r.ok
         /\ IF e.kind = "param" /\ e.index \in Known
            THEN /\ ClapNext(r, e).events = Append(r.events, Point(e))
                 /\ InBlock(e.time, Latest(r.events))
            ELSE ClapNext(r, e) = r
  BY DEF ClapNext, Heeded, Refused, Parsed

(* A queue with another event has another point. *)
LEMMA PointsAppend ==
  ASSUME EventTypes, NEW p \in Known, NEW q \in Seq(Its(p)), NEW e \in Its(p)
  PROVE  Points(Append(q, e)) = Append(Points(q), Point(e))
<1>1. Append(q, e) \in Seq(Its(p)) /\ Len(Append(q, e)) = Len(q) + 1 /\ Len(q) \in Nat
      /\ Append(q, e)[Len(q) + 1] = e /\ \A j \in 1 .. Len(q) : Append(q, e)[j] = q[j]
  OBVIOUS
<1> DEFINE a == Append(q, e)
           b == Points(a)
           c == Append(Points(q), Point(e))
<1>2. /\ Points(q) \in Seq(Ev) /\ Len(Points(q)) = Len(q)
      /\ \A j \in 1 .. Len(q) : Points(q)[j] = Point(q[j])
  BY PointsAre
<1>3. /\ b \in Seq(Ev) /\ Len(b) = Len(a)
      /\ \A j \in 1 .. Len(a) : b[j] = Point(a[j])
  BY <1>1, PointsAre
<1>4. Point(e) \in Ev
  BY PointType DEF Its, Changes
<1>5. c \in Seq(Ev) /\ Len(c) = Len(q) + 1 /\ c[Len(q) + 1] = Point(e)
      /\ \A j \in 1 .. Len(q) : c[j] = Point(q[j])
  BY <1>1, <1>2, <1>4
<1>6. \A j \in 1 .. Len(q) + 1 : b[j] = c[j]
  <2> SUFFICES ASSUME NEW j \in 1 .. Len(q) + 1 PROVE b[j] = c[j]
    OBVIOUS
  <2>1. j \in 1 .. Len(q) \/ j = Len(q) + 1
    BY <1>1
  <2> HIDE DEF b, c
  <2>2. QED
    BY <1>1, <1>3, <1>5, <2>1
<1> HIDE DEF b, c
<1>7. b = c
  BY <1>1, <1>3, <1>5, <1>6, SeqEqual
<1>8. QED
  BY <1>7 DEF b, c

(* The list holds of every parameter what its queue would. *)
LEMMA ClapValues ==
  ASSUME EventTypes, NEW events \in Seq(HostEvent), ClapParse(events).ok,
         NEW p \in Known, NEW o \in Nat
  PROVE  ValueAt(ClapParse(events).events, p, o)
           = ValueAt(Points(QueueOf(events, p)), p, o)
<1> DEFINE n == Len(events)
<1>1. PICK v : /\ v \in [0 .. n -> Results]
               /\ v[0] = Parsed(<<>>)
               /\ \A k \in 1 .. n : v[k] = ClapNext(v[k - 1], events[k])
               /\ ClapParse(events) = v[n]
  BY ClapCourse
<1>2. PICK q : /\ q \in [0 .. n -> Seq(Its(p))]
               /\ q[0] = <<>>
               /\ \A k \in 1 .. n : q[k] = (IF Changes(events[k], p)
                                            THEN Append(q[k - 1], events[k])
                                            ELSE q[k - 1])
               /\ QueueOf(events, p) = q[n]
  BY QueueCourse
<1>3. n \in Nat /\ \A k \in 1 .. n : events[k] \in HostEvent
  OBVIOUS
<1> HIDE DEF n
<1> DEFINE D == {m \in Nat : m <= n /\ v[m].ok =>
                               ValueAt(v[m].events, p, o) = ValueAt(Points(q[m]), p, o)}
<1>4. 0 \in D
  <2>1. v[0].events = <<>> /\ Points(q[0]) = <<>>
    BY <1>1, <1>2 DEF Parsed, Points
  <2>2. QED
    BY <2>1
<1>5. ASSUME NEW m \in Nat, m \in D PROVE m + 1 \in D
  <2> SUFFICES ASSUME m + 1 <= n, v[m + 1].ok
               PROVE  ValueAt(v[m + 1].events, p, o) = ValueAt(Points(q[m + 1]), p, o)
    OBVIOUS
  <2> DEFINE e == events[m + 1]
             r == v[m]
             w == q[m]
  <2>1. m + 1 \in 1 .. n /\ (m + 1) - 1 = m /\ m \in 0 .. n /\ m <= n
    BY <1>3
  <2>2. v[m + 1] = ClapNext(r, e)
    BY <1>1, <2>1
  <2>3. q[m + 1] = IF Changes(e, p) THEN Append(w, e) ELSE w
    BY <1>2, <2>1
  <2>4. e \in HostEvent /\ r \in Results /\ r.events \in Seq(Ev) /\ w \in Seq(Its(p))
    BY <1>1, <1>2, <1>3, <2>1 DEF Results
  <2>5. /\ r.ok
        /\ IF e.kind = "param" /\ e.index \in Known
           THEN v[m + 1].events = Append(r.events, Point(e))
           ELSE v[m + 1] = r
    BY <2>2, ClapNextIs
  <2>6. ValueAt(r.events, p, o) = ValueAt(Points(w), p, o)
    BY <1>5, <2>1, <2>5
  <2> HIDE DEF e, r, w
  <2>7. CASE e.kind = "param" /\ e.index \in Known
    <3>1. Point(e) \in Ev /\ Point(e).index = e.index
      BY <2>4, <2>7, PointType DEF Point
    <3>2. ValueAt(v[m + 1].events, p, o) =
            IF Point(e).index = p /\ Point(e).offset <= o THEN Point(e).value
            ELSE ValueAt(r.events, p, o)
      <4>1. ValueAt(Append(r.events, Point(e)), p, o) =
            IF Point(e).index = p /\ Point(e).offset <= o THEN Point(e).value
            ELSE ValueAt(r.events, p, o)
        BY <2>4, <3>1, ValueOfOne
      <4>2. QED
        BY <2>5, <2>7, <4>1
    <3>3. CASE e.index = p
      <4>1. Changes(e, p) /\ e \in Its(p)
        BY <2>4, <2>7, <3>3 DEF Changes, Its
      <4>2. Points(q[m + 1]) = Append(Points(w), Point(e))
        BY <2>3, <2>4, <4>1, PointsAppend
      <4>3. Points(w) \in Seq(Ev)
        BY <2>4, PointsAre
      <4>4. ValueAt(Append(Points(w), Point(e)), p, o) =
            IF Point(e).index = p /\ Point(e).offset <= o THEN Point(e).value
            ELSE ValueAt(Points(w), p, o)
        BY <3>1, <4>3, ValueOfOne
      <4>5. QED
        BY <2>6, <3>2, <4>2, <4>4
    <3>4. CASE e.index # p
      <4>1. q[m + 1] = w
        BY <2>3, <3>4 DEF Changes
      <4>2. QED
        BY <2>6, <3>1, <3>2, <3>4, <4>1
    <3>5. QED
      BY <3>3, <3>4
  <2>8. CASE ~(e.kind = "param" /\ e.index \in Known)
    <3>1. q[m + 1] = w
      BY <2>3, <2>8 DEF Changes
    <3>2. v[m + 1] = r
      BY <2>5, <2>8
    <3>3. QED
      BY <2>6, <3>1, <3>2
  <2>9. QED
    BY <2>7, <2>8
<1> HIDE DEF D
<1>6. n \in D
  BY <1>3, <1>4, <1>5, SetInduction
<1>7. QED
  BY <1>1, <1>2, <1>3, <1>6 DEF D

(* The list is in order and in the block. *)
LEMMA OrderedAppend ==
  ASSUME NEW s \in Seq(Ev), Ordered(s), NEW e \in Ev, InBlock(e.offset, Latest(s))
  PROVE  Ordered(Append(s, e))
<1> DEFINE u == Append(s, e)
           n == Len(s)
<1>1. n \in Nat /\ DOMAIN u = 1 .. n + 1 /\ u[n + 1] = e /\ DOMAIN s = 1 .. n
      /\ \A j \in 1 .. n : u[j] = s[j]
  OBVIOUS
<1>2. Latest(s) = IF n = 0 THEN 0 ELSE s[n].offset
  BY DEF Latest
<1> HIDE DEF u, n
<1> SUFFICES ASSUME NEW k \in 1 .. n + 1
             PROVE  InBlock(u[k].offset, IF k = 1 THEN 0 ELSE u[k - 1].offset)
  BY <1>1 DEF Ordered, u
<1>3. CASE k = n + 1
  <2>1. u[k] = e /\ (k # 1 => u[k - 1] = s[n]) /\ (k = 1 <=> n = 0)
    BY <1>1, <1>3
  <2>2. (IF k = 1 THEN 0 ELSE u[k - 1].offset) = Latest(s)
    BY <1>2, <2>1
  <2>3. QED
    BY <2>1, <2>2, Zenon
<1>4. CASE k \in 1 .. n
  <2>1. u[k] = s[k] /\ (k # 1 => u[k - 1] = s[k - 1])
    BY <1>1, <1>4
  <2>2. (IF k = 1 THEN 0 ELSE u[k - 1].offset) = (IF k = 1 THEN 0 ELSE s[k - 1].offset)
    BY <2>1
  <2>3. InBlock(s[k].offset, IF k = 1 THEN 0 ELSE s[k - 1].offset)
    BY <1>1, <1>4 DEF Ordered
  <2>4. QED
    BY <2>1, <2>2, <2>3, Zenon
<1>5. QED
  BY <1>1, <1>3, <1>4

LEMMA ClapOrdered ==
  ASSUME EventTypes, NEW events \in Seq(HostEvent)
  PROVE  ClapParse(events) \in Results /\ Ordered(ClapParse(events).events)
<1> DEFINE n == Len(events)
<1>1. PICK v : /\ v \in [0 .. n -> Results]
               /\ v[0] = Parsed(<<>>)
               /\ \A k \in 1 .. n : v[k] = ClapNext(v[k - 1], events[k])
               /\ ClapParse(events) = v[n]
  BY ClapCourse
<1>2. n \in Nat /\ \A k \in 1 .. n : events[k] \in HostEvent
  OBVIOUS
<1> HIDE DEF n
<1> DEFINE D == {m \in Nat : m <= n => Ordered(v[m].events)}
<1>3. 0 \in D
  <2>1. v[0].events = <<>>
    BY <1>1 DEF Parsed
  <2>2. QED
    BY <2>1 DEF Ordered
<1>4. ASSUME NEW m \in Nat, m \in D PROVE m + 1 \in D
  <2> SUFFICES ASSUME m + 1 <= n PROVE Ordered(v[m + 1].events)
    OBVIOUS
  <2> DEFINE e == events[m + 1]
             r == v[m]
  <2>1. m + 1 \in 1 .. n /\ (m + 1) - 1 = m /\ m \in 0 .. n /\ m <= n
    BY <1>2
  <2>2. v[m + 1] = ClapNext(r, e) /\ v[m + 1] \in Results
    BY <1>1, <2>1
  <2>3. e \in HostEvent /\ r \in Results /\ r.events \in Seq(Ev) /\ Ordered(r.events)
    BY <1>1, <1>2, <1>4, <2>1 DEF Results
  <2> HIDE DEF e, r
  <2>4. CASE v[m + 1].ok
    <3>1. IF e.kind = "param" /\ e.index \in Known
          THEN /\ v[m + 1].events = Append(r.events, Point(e))
               /\ InBlock(e.time, Latest(r.events))
          ELSE v[m + 1] = r
      BY <2>2, <2>4, ClapNextIs
    <3>2. CASE e.kind = "param" /\ e.index \in Known
      <4>1. Point(e) \in Ev /\ Point(e).offset = e.time
        BY <2>3, <3>2, PointType DEF Point
      <4>2. QED
        BY <2>3, <3>1, <3>2, <4>1, OrderedAppend
    <3>3. QED
      BY <2>3, <3>1, <3>2
  <2>5. CASE ~v[m + 1].ok
    <3>1. v[m + 1] = Refused \/ v[m + 1] = r
      BY <2>2, <2>5 DEF ClapNext, Heeded, Parsed
    <3>2. Ordered(Refused.events)
      BY DEF Refused, Ordered
    <3>3. QED
      BY <2>3, <3>1, <3>2
  <2>6. QED
    BY <2>4, <2>5
<1> HIDE DEF D
<1>5. n \in D
  BY <1>2, <1>3, <1>4, SetInduction
<1>6. QED
  BY <1>1, <1>2, <1>5 DEF D

-----------------------------------------------------------------------------
(* What the queues hold. *)

(* A queue holds every event of its parameter. *)
LEMMA QueueHolds ==
  ASSUME EventTypes, NEW events \in Seq(HostEvent), NEW p
  PROVE  \A i \in 1 .. Len(events) : Changes(events[i], p) =>
           \E j \in 1 .. Len(QueueOf(events, p)) : QueueOf(events, p)[j] = events[i]
<1> DEFINE n == Len(events)
           Has(s, x) == \E j \in 1 .. Len(s) : s[j] = x
<1>1. PICK q : /\ q \in [0 .. n -> Seq(Its(p))]
               /\ q[0] = <<>>
               /\ \A k \in 1 .. n : q[k] = (IF Changes(events[k], p)
                                            THEN Append(q[k - 1], events[k])
                                            ELSE q[k - 1])
               /\ QueueOf(events, p) = q[n]
  BY QueueCourse
<1>2. n \in Nat /\ \A k \in 1 .. n : events[k] \in HostEvent
  OBVIOUS
<1>3. ASSUME NEW s \in Seq(Its(p)), NEW e \in Its(p), NEW x
      PROVE  Has(Append(s, e), x) <=> Has(s, x) \/ x = e
  <2>1. Len(Append(s, e)) = Len(s) + 1 /\ Len(s) \in Nat
        /\ Append(s, e)[Len(s) + 1] = e /\ \A j \in 1 .. Len(s) : Append(s, e)[j] = s[j]
    OBVIOUS
  <2>2. \A j \in 1 .. Len(s) + 1 : j \in 1 .. Len(s) \/ j = Len(s) + 1
    BY <2>1
  <2>3. 1 .. Len(s) \subseteq 1 .. Len(s) + 1 /\ Len(s) + 1 \in 1 .. Len(s) + 1
    BY <2>1
  <2>4. QED
    BY <2>1, <2>2, <2>3, Zenon
<1> HIDE DEF n, Has
<1> DEFINE D == {m \in Nat : m <= n => \A i \in 1 .. m : Changes(events[i], p) =>
                                                         Has(q[m], events[i])}
<1>4. 0 \in D
  OBVIOUS
<1>5. ASSUME NEW m \in Nat, m \in D PROVE m + 1 \in D
  <2> SUFFICES ASSUME m + 1 <= n, NEW i \in 1 .. m + 1, Changes(events[i], p)
               PROVE  Has(q[m + 1], events[i])
    OBVIOUS
  <2> DEFINE e == events[m + 1]
             w == q[m]
  <2>1. m + 1 \in 1 .. n /\ (m + 1) - 1 = m /\ m \in 0 .. n /\ m <= n
        /\ (i \in 1 .. m \/ i = m + 1) /\ i \in 1 .. n
    BY <1>2
  <2>2. q[m + 1] = (IF Changes(e, p) THEN Append(w, e) ELSE w) /\ w \in Seq(Its(p))
        /\ e \in HostEvent
    BY <1>1, <1>2, <2>1
  <2>3. i \in 1 .. m => Has(w, events[i])
    BY <1>5, <2>1
  <2>4. i = m + 1 => events[i] = e
    OBVIOUS
  <2> HIDE DEF e, w
  <2>5. CASE Changes(e, p)
    <3>1. e \in Its(p)
      BY <2>2, <2>5 DEF Its
    <3>2. Has(Append(w, e), events[i]) <=> Has(w, events[i]) \/ events[i] = e
      BY <1>3, <2>2, <3>1
    <3>3. QED
      BY <2>1, <2>2, <2>3, <2>4, <2>5, <3>2
  <2>6. CASE ~Changes(e, p)
    <3>1. i # m + 1
      BY <2>4, <2>6
    <3>2. QED
      BY <2>1, <2>2, <2>3, <2>6, <3>1
  <2>7. QED
    BY <2>5, <2>6
<1> HIDE DEF D
<1>6. n \in D
  BY <1>2, <1>4, <1>5, SetInduction
<1>7. \A i \in 1 .. n : Changes(events[i], p) => Has(QueueOf(events, p), events[i])
  <2>1. n <= n => \A i \in 1 .. n : Changes(events[i], p) => Has(q[n], events[i])
    BY <1>6, Zenon DEF D
  <2>2. n <= n /\ q[n] = QueueOf(events, p)
    BY <1>1, <1>2
  <2>3. QED
    BY <2>1, <2>2, Zenon
<1>8. QED
  BY <1>7 DEF n, Has

(* The positions of a parameter's events, and of those of some parameters. *)
Positions(events, m, P) ==
  {i \in 1 .. m : events[i].kind = "param" /\ events[i].index \in P}

LEMMA PositionsFinite ==
  ASSUME NEW events, NEW m \in Nat, NEW P
  PROVE  IsFiniteSet(Positions(events, m, P)) /\ Cardinality(Positions(events, m, P)) \in Nat
<1>1. IsFiniteSet(1 .. m)
  BY FS_Interval
<1>2. Positions(events, m, P) \subseteq 1 .. m
  BY DEF Positions
<1>3. IsFiniteSet(Positions(events, m, P))
  BY <1>1, <1>2, FS_Subset
<1>4. QED
  BY <1>3, FS_CardinalityType

(* One more event is one more position, or none. *)
LEMMA PositionsGrow ==
  ASSUME NEW events, NEW m \in Nat, NEW P
  PROVE  Cardinality(Positions(events, m + 1, P)) =
           IF events[m + 1].kind = "param" /\ events[m + 1].index \in P
           THEN Cardinality(Positions(events, m, P)) + 1
           ELSE Cardinality(Positions(events, m, P))
<1> DEFINE A == Positions(events, m, P)
           B == Positions(events, m + 1, P)
<1>1. IsFiniteSet(A)
  BY PositionsFinite
<1>2. m + 1 \notin A
  BY DEF Positions
<1>3. CASE events[m + 1].kind = "param" /\ events[m + 1].index \in P
  <2>1. B = A \cup {m + 1}
    BY <1>3 DEF Positions
  <2>2. Cardinality(A \cup {m + 1}) = Cardinality(A) + 1
    BY <1>1, <1>2, FS_AddElement
  <2>3. QED
    BY <1>3, <2>1, <2>2
<1>4. CASE ~(events[m + 1].kind = "param" /\ events[m + 1].index \in P)
  <2>1. B = A
    BY <1>4 DEF Positions
  <2>2. QED
    BY <1>4, <2>1
<1>5. QED
  BY <1>3, <1>4

(* A queue is as long as there are events of its parameter. *)
LEMMA QueueLength ==
  ASSUME EventTypes, NEW events \in Seq(HostEvent), NEW p
  PROVE  Len(QueueOf(events, p)) = Cardinality(Positions(events, Len(events), {p}))
<1> DEFINE n == Len(events)
<1>1. PICK q : /\ q \in [0 .. n -> Seq(Its(p))]
               /\ q[0] = <<>>
               /\ \A k \in 1 .. n : q[k] = (IF Changes(events[k], p)
                                            THEN Append(q[k - 1], events[k])
                                            ELSE q[k - 1])
               /\ QueueOf(events, p) = q[n]
  BY QueueCourse
<1>2. n \in Nat
  OBVIOUS
<1> HIDE DEF n
<1> DEFINE D == {m \in Nat : m <= n => Len(q[m]) = Cardinality(Positions(events, m, {p}))}
<1>3. 0 \in D
  <2>1. Positions(events, 0, {p}) = {}
    BY DEF Positions
  <2>2. Cardinality({}) = 0
    BY FS_EmptySet
  <2>3. Len(q[0]) = 0
    BY <1>1
  <2>4. QED
    BY <2>1, <2>2, <2>3
<1>4. ASSUME NEW m \in Nat, m \in D PROVE m + 1 \in D
  <2> SUFFICES ASSUME m + 1 <= n
               PROVE  Len(q[m + 1]) = Cardinality(Positions(events, m + 1, {p}))
    OBVIOUS
  <2> DEFINE e == events[m + 1]
             w == q[m]
  <2>1. m + 1 \in 1 .. n /\ (m + 1) - 1 = m /\ m \in 0 .. n /\ m <= n
    BY <1>2
  <2>2. q[m + 1] = (IF Changes(e, p) THEN Append(w, e) ELSE w) /\ w \in Seq(Its(p))
    BY <1>1, <2>1
  <2>3. Len(w) = Cardinality(Positions(events, m, {p}))
    BY <1>4, <2>1
  <2>4. Cardinality(Positions(events, m + 1, {p})) =
          IF Changes(e, p) THEN Cardinality(Positions(events, m, {p})) + 1
          ELSE Cardinality(Positions(events, m, {p}))
    BY PositionsGrow DEF Changes
  <2> HIDE DEF e, w
  <2>5. Len(Append(w, e)) = Len(w) + 1
    BY <2>2
  <2>6. QED
    BY <2>2, <2>3, <2>4, <2>5
<1> HIDE DEF D
<1>5. n \in D
  BY <1>2, <1>3, <1>4, SetInduction
<1>6. QED
  BY <1>1, <1>2, <1>5 DEF D, n

(* Every parameter that changes has one place in the order of the queues. *)
LEMMA OrderHolds ==
  ASSUME EventTypes, NEW events \in Seq(HostEvent)
  PROVE  LET d == Order(events) IN
         /\ d \in Seq(Known \cup Foreign)
         /\ \A i, j \in 1 .. Len(d) : d[i] = d[j] => i = j
         /\ \A i \in 1 .. Len(events) : events[i].kind = "param" =>
              \E j \in 1 .. Len(d) : d[j] = events[i].index
<1> DEFINE n == Len(events)
           Has(s, x) == \E j \in 1 .. Len(s) : s[j] = x
           Distinct(s) == \A i, j \in 1 .. Len(s) : s[i] = s[j] => i = j
           T == Known \cup Foreign
<1>1. PICK q : /\ q \in [0 .. n -> Seq(T)]
               /\ q[0] = <<>>
               /\ \A k \in 1 .. n : q[k] = (IF First(events, k)
                                            THEN Append(q[k - 1], events[k].index)
                                            ELSE q[k - 1])
               /\ Order(events) = q[n]
  BY OrderCourse
<1>2. n \in Nat /\ \A k \in 1 .. n : events[k].index \in T
  <2>1. \A e \in HostEvent : e.index \in T
    BY DEF HostEvent
  <2>2. \A k \in 1 .. n : events[k] \in HostEvent
    OBVIOUS
  <2>3. QED
    BY <2>1, <2>2
<1>3. ASSUME NEW s \in Seq(T), NEW e \in T
      PROVE  /\ \A x : Has(Append(s, e), x) <=> Has(s, x) \/ x = e
             /\ Distinct(s) /\ ~Has(s, e) => Distinct(Append(s, e))
  <2>1. Len(Append(s, e)) = Len(s) + 1 /\ Len(s) \in Nat
        /\ Append(s, e)[Len(s) + 1] = e /\ \A j \in 1 .. Len(s) : Append(s, e)[j] = s[j]
    OBVIOUS
  <2>2. \A j \in 1 .. Len(s) + 1 : j \in 1 .. Len(s) \/ j = Len(s) + 1
    BY <2>1
  <2>3. 1 .. Len(s) \subseteq 1 .. Len(s) + 1 /\ Len(s) + 1 \in 1 .. Len(s) + 1
    BY <2>1
  <2>4. \A x : Has(Append(s, e), x) <=> Has(s, x) \/ x = e
    BY <2>1, <2>2, <2>3, Zenon
  <2>5. ASSUME Distinct(s), ~Has(s, e) PROVE Distinct(Append(s, e))
    BY <2>1, <2>2, <2>5
  <2>6. QED
    BY <2>4, <2>5
<1> HIDE DEF n, Has, Distinct, T
<1> DEFINE Fits(m) == /\ Distinct(q[m])
                      /\ \A x : Has(q[m], x) <=> \E i \in 1 .. m : Changes(events[i], x)
           D == {m \in Nat : m <= n => Fits(m)}
<1>4. 0 \in D
  <2>1. q[0] = <<>> /\ 1 .. 0 = {} /\ Len(<<>>) = 0
    BY <1>1
  <2>2. QED
    BY <2>1 DEF Has, Distinct
<1>5. ASSUME NEW m \in Nat, m \in D PROVE m + 1 \in D
  <2> SUFFICES ASSUME m + 1 <= n PROVE Fits(m + 1)
    OBVIOUS
  <2> DEFINE e == events[m + 1]
             w == q[m]
  <2>1. m + 1 \in 1 .. n /\ (m + 1) - 1 = m /\ m \in 0 .. n /\ m <= n
        /\ \A i \in 1 .. m + 1 : i \in 1 .. m \/ i = m + 1
    BY <1>2
  <2>2. q[m + 1] = (IF First(events, m + 1) THEN Append(w, e.index) ELSE w)
        /\ w \in Seq(T) /\ e.index \in T
    BY <1>1, <1>2, <2>1
  <2>3. Distinct(w) /\ \A x : Has(w, x) <=> \E i \in 1 .. m : Changes(events[i], x)
    BY <1>5, <2>1
  <2>4. First(events, m + 1) <=>
          e.kind = "param" /\ ~\E i \in 1 .. m : Changes(events[i], e.index)
    BY <2>1 DEF First
  <2>5. \A x : (\E i \in 1 .. m + 1 : Changes(events[i], x)) <=>
                 (\E i \in 1 .. m : Changes(events[i], x)) \/ Changes(e, x)
    <3>1. m + 1 \in 1 .. m + 1 /\ 1 .. m \subseteq 1 .. m + 1
      OBVIOUS
    <3>2. QED
      BY <2>1, <3>1, Zenon
  <2>6. \A x : Changes(e, x) <=> e.kind = "param" /\ x = e.index
    BY DEF Changes
  <2> HIDE DEF e, w
  <2>7. CASE First(events, m + 1)
    <3>1. q[m + 1] = Append(w, e.index) /\ ~Has(w, e.index) /\ e.kind = "param"
      BY <2>2, <2>3, <2>4, <2>7
    <3>2. /\ \A x : Has(Append(w, e.index), x) <=> Has(w, x) \/ x = e.index
          /\ Distinct(w) /\ ~Has(w, e.index) => Distinct(Append(w, e.index))
      BY <1>3, <2>2
    <3>3. Distinct(q[m + 1])
      BY <2>3, <3>1, <3>2, Zenon
    <3>4. \A x : Has(q[m + 1], x) <=> \E i \in 1 .. m + 1 : Changes(events[i], x)
      BY <2>3, <2>5, <2>6, <3>1, <3>2, Zenon
    <3>5. QED
      BY <3>3, <3>4
  <2>8. CASE ~First(events, m + 1)
    <3>1. q[m + 1] = w
      BY <2>2, <2>8
    <3>2. \A x : Changes(e, x) => \E i \in 1 .. m : Changes(events[i], x)
      BY <2>4, <2>6, <2>8, Zenon
    <3>3. QED
      BY <2>3, <2>5, <3>1, <3>2, Zenon
  <2>9. QED
    BY <2>7, <2>8
<1> HIDE DEF D
<1>6. n \in D
  BY <1>2, <1>4, <1>5, SetInduction
<1>7. Fits(n)
  BY <1>2, <1>6 DEF D
<1>8. q[n] \in Seq(T)
  BY <1>1, <1>2
<1>9. \A i \in 1 .. n : events[i].kind = "param" => Has(q[n], events[i].index)
  <2>1. \A i \in 1 .. n : events[i].kind = "param" => Changes(events[i], events[i].index)
    BY DEF Changes
  <2>2. QED
    BY <1>7, <2>1, Zenon
<1>10. QED
  BY <1>1, <1>7, <1>8, <1>9 DEF n, Has, Distinct, T

-----------------------------------------------------------------------------
(* What process() collects from the queues. *)

(* The points of a usable queue are in order, valid and in the block. *)
LEMMA UsableRises ==
  ASSUME EventTypes, NEW p, NEW q \in Seq(Its(p)), NEW c, Usable(q, p, c)
  PROVE  /\ \A j \in 1 .. Len(q) : q[j].valid /\ InBlock(q[j].time, 0)
         /\ \A i, j \in 1 .. Len(q) : i <= j => q[i].time <= q[j].time
<1> DEFINE n == Len(q)
<1>1. n \in Nat /\ DOMAIN q = 1 .. n /\ \A j \in 1 .. n : q[j].time \in Nat
  <2>1. \A e \in Its(p) : e.time \in Nat
    BY DEF Its, HostEvent
  <2>2. \A j \in 1 .. n : q[j] \in Its(p)
    OBVIOUS
  <2>3. QED
    BY <2>1, <2>2
<1>2. \A j \in 1 .. n : q[j].valid /\ InBlock(q[j].time, IF j = 1 THEN 0 ELSE q[j - 1].time)
  BY <1>1 DEF Usable
<1> HIDE DEF n
<1>3. ASSUME NEW j \in 1 .. n PROVE InBlock(q[j].time, 0)
  <2>1. q[j].time >= 0
    BY <1>1
  <2>2. QED
    BY <1>2, <2>1 DEF InBlock
<1>4. ASSUME NEW j \in 1 .. n, j # 1 PROVE q[j - 1].time <= q[j].time
  <2>1. j - 1 \in 1 .. n
    BY <1>1, <1>4
  <2>2. q[j].time >= q[j - 1].time
    BY <1>2, <1>4 DEF InBlock
  <2>3. QED
    BY <1>1, <2>1, <2>2
<1> DEFINE D == {m \in Nat : m <= n => \A i, j \in 1 .. m : i <= j => q[i].time <= q[j].time}
<1>5. 0 \in D
  OBVIOUS
<1>6. ASSUME NEW m \in Nat, m \in D PROVE m + 1 \in D
  <2> SUFFICES ASSUME m + 1 <= n, NEW i \in 1 .. m + 1, NEW j \in 1 .. m + 1, i <= j
               PROVE  q[i].time <= q[j].time
    OBVIOUS
  <2>1. \A a, b \in 1 .. m : a <= b => q[a].time <= q[b].time
    BY <1>1, <1>6
  <2>2. i \in 1 .. n /\ j \in 1 .. n
    BY <1>1
  <2>3. CASE j \in 1 .. m
    <3>1. i \in 1 .. m
      BY <2>3
    <3>2. QED
      BY <2>1, <2>3, <3>1
  <2>4. CASE j = m + 1 /\ i = m + 1
    BY <1>1, <2>2, <2>4
  <2>5. CASE j = m + 1 /\ i # m + 1
    <3>1. j # 1 /\ j - 1 \in 1 .. m /\ i \in 1 .. m /\ i <= j - 1 /\ j - 1 \in 1 .. n
      BY <1>1, <2>2, <2>5
    <3>2. q[i].time <= q[j - 1].time
      BY <2>1, <3>1
    <3>3. q[j - 1].time <= q[j].time
      BY <1>4, <2>2, <3>1
    <3>4. q[i].time \in Nat /\ q[j].time \in Nat /\ q[j - 1].time \in Nat
      BY <1>1, <2>2, <3>1
    <3>5. QED
      BY <3>2, <3>3, <3>4
  <2>6. QED
    BY <2>3, <2>4, <2>5
<1> HIDE DEF D
<1>7. n \in D
  BY <1>1, <1>5, <1>6, SetInduction
<1>8. QED
  BY <1>1, <1>2, <1>3, <1>7 DEF D, n

(* A queue it goes on from is skipped or read into the list. *)
LEMMA GatheredIs ==
  ASSUME NEW r, NEW p, NEW q, Gathered(r, q, p).ok
  PROVE  /\ r.ok
         /\ IF p \in Known
            THEN Usable(q, p, Len(r.events)) /\ Gathered(r, q, p).events = r.events \o Points(q)
            ELSE Gathered(r, q, p) = r
  BY DEF Gathered, Refused, Parsed

(* A list read queue by queue. *)
Course(v, events, d) ==
  /\ v \in [0 .. Len(d) -> Results]
  /\ v[0] = Parsed(<<>>)
  /\ \A k \in 1 .. Len(d) : v[k] = Gathered(v[k - 1], QueueOf(events, d[k]), d[k])

(* One step of it. *)
Reads(v, events, d, m) ==
  LET p == d[m + 1]
      q == QueueOf(events, p)
  IN  /\ v[m].ok /\ v[m].events \in Seq(Ev) /\ m <= Len(d) /\ q \in Seq(Its(p))
      /\ p \in Known => /\ Usable(q, p, Len(v[m].events))
                        /\ Points(q) \in Seq(Ev) /\ Len(Points(q)) = Len(q)
                        /\ \A j \in 1 .. Len(q) : /\ Points(q)[j].index = p
                                                  /\ Points(q)[j].offset = q[j].time
                        /\ v[m + 1].events = v[m].events \o Points(q)
      /\ p \notin Known => v[m + 1].events = v[m].events

LEMMA CourseStep ==
  ASSUME EventTypes, NEW events \in Seq(HostEvent), NEW d \in Seq(Known \cup Foreign),
         NEW v, Course(v, events, d), NEW m \in Nat, m + 1 <= Len(d), v[m + 1].ok
  PROVE  Reads(v, events, d, m)
<1> DEFINE p == d[m + 1]
           q == QueueOf(events, p)
<1>1. Len(d) \in Nat /\ m + 1 \in 1 .. Len(d) /\ (m + 1) - 1 = m /\ m \in 0 .. Len(d)
  OBVIOUS
<1>2. v[m + 1] = Gathered(v[m], q, p) /\ v[m] \in Results
  BY <1>1 DEF Course
<1>3. q \in Seq(Its(p))
  BY QueueType
<1>4. v[m].events \in Seq(Ev)
  BY <1>2 DEF Results
<1>5. p \in Known => /\ Points(q) \in Seq(Ev) /\ Len(Points(q)) = Len(q)
                     /\ \A j \in 1 .. Len(q) : Points(q)[j] = Point(q[j])
                                               /\ Points(q)[j].index = p
  BY <1>3, PointsAre
<1> HIDE DEF p, q
<1>6. /\ v[m].ok
      /\ IF p \in Known
         THEN Usable(q, p, Len(v[m].events)) /\ v[m + 1].events = v[m].events \o Points(q)
         ELSE v[m + 1] = v[m]
  <2>1. Gathered(v[m], q, p).ok
    BY <1>2, Zenon
  <2>2. /\ v[m].ok
        /\ IF p \in Known
           THEN /\ Usable(q, p, Len(v[m].events))
                /\ Gathered(v[m], q, p).events = v[m].events \o Points(q)
           ELSE Gathered(v[m], q, p) = v[m]
    BY <2>1, GatheredIs
  <2>3. QED
    BY <1>2, <2>2, Zenon
<1>7. \A x : Point(x).offset = x.time
  BY DEF Point
<1>8. /\ v[m].ok /\ v[m].events \in Seq(Ev) /\ m <= Len(d) /\ q \in Seq(Its(p))
      /\ p \in Known => /\ Usable(q, p, Len(v[m].events))
                        /\ Points(q) \in Seq(Ev) /\ Len(Points(q)) = Len(q)
                        /\ \A j \in 1 .. Len(q) : /\ Points(q)[j].index = p
                                                  /\ Points(q)[j].offset = q[j].time
                        /\ v[m + 1].events = v[m].events \o Points(q)
      /\ p \notin Known => v[m + 1].events = v[m].events
  BY <1>1, <1>3, <1>4, <1>5, <1>6, <1>7
<1>9. QED
  BY <1>8 DEF p, q, Reads

(* No two queues are of the same parameter. *)
Distinct(d) == \A i, j \in 1 .. Len(d) : d[i] = d[j] => i = j

(* The parameters of the first queues. *)
FirstOf(d, m) == {d[i] : i \in 1 .. m}

LEMMA FirstOfNext ==
  ASSUME NEW d, Distinct(d), NEW m \in Nat, m + 1 <= Len(d), Len(d) \in Nat
  PROVE  FirstOf(d, m + 1) = FirstOf(d, m) \cup {d[m + 1]} /\ d[m + 1] \notin FirstOf(d, m)
<1>1. \A i \in 1 .. m + 1 : i \in 1 .. m \/ i = m + 1
  OBVIOUS
<1>2. m + 1 \in 1 .. m + 1 /\ 1 .. m \subseteq 1 .. m + 1
  OBVIOUS
<1>3. FirstOf(d, m + 1) = FirstOf(d, m) \cup {d[m + 1]}
  BY <1>1, <1>2 DEF FirstOf
<1>4. \A i \in 1 .. m : i \in 1 .. Len(d) /\ m + 1 \in 1 .. Len(d) /\ i # m + 1
  OBVIOUS
<1>5. QED
  BY <1>3, <1>4 DEF FirstOf, Distinct

(* Events of one parameter stay in order, and all are in the block. *)
Stable(s) ==
  /\ \A k \in 1 .. Len(s) : InBlock(s[k].offset, 0)
  /\ \A j, k \in 1 .. Len(s) : j <= k /\ s[j].index = s[k].index => s[j].offset <= s[k].offset

LEMMA CollectedStable ==
  ASSUME EventTypes, NEW events \in Seq(HostEvent), NEW d \in Seq(Known \cup Foreign),
         Distinct(d), NEW v, Course(v, events, d), v[Len(d)].ok
  PROVE  Stable(v[Len(d)].events)
<1> DEFINE n == Len(d)
           Of(s, P) == \A k \in 1 .. Len(s) : s[k].index \in P
           D == {m \in Nat : m <= n /\ v[m].ok =>
                               Stable(v[m].events) /\ Of(v[m].events, FirstOf(d, m))}
<1>1. n \in Nat
  OBVIOUS
<1>2. 0 \in D
  <2>1. Len(v[0].events) = 0 /\ 1 .. 0 = {}
    BY DEF Course, Parsed
  <2>2. QED
    BY <2>1 DEF Stable
<1>3. ASSUME NEW m \in Nat, m \in D PROVE m + 1 \in D
  <2> SUFFICES ASSUME m + 1 <= n, v[m + 1].ok
               PROVE  Stable(v[m + 1].events) /\ Of(v[m + 1].events, FirstOf(d, m + 1))
    OBVIOUS
  <2> DEFINE p == d[m + 1]
             q == QueueOf(events, p)
             s == v[m].events
             t == Points(q)
             u == v[m + 1].events
  <2>1. /\ v[m].ok /\ s \in Seq(Ev) /\ m <= n /\ q \in Seq(Its(p))
        /\ p \in Known => /\ Usable(q, p, Len(s)) /\ t \in Seq(Ev) /\ Len(t) = Len(q)
                          /\ \A j \in 1 .. Len(q) : t[j].index = p /\ t[j].offset = q[j].time
                          /\ u = s \o t
        /\ p \notin Known => u = s
    <3>1. Reads(v, events, d, m)
      BY CourseStep
    <3>2. QED
      BY <3>1, Zenon DEF Reads
  <2>2. Stable(s) /\ Of(s, FirstOf(d, m))
    BY <1>3, <2>1
  <2>3. FirstOf(d, m + 1) = FirstOf(d, m) \cup {p} /\ p \notin FirstOf(d, m)
    BY <1>1, FirstOfNext
  <2> HIDE DEF p, q, s, t, u
  <2>4. CASE p \in Known
    <3> DEFINE l == Len(s)
               a == Len(t)
    <3>1. /\ \A j \in 1 .. Len(q) : q[j].valid /\ InBlock(q[j].time, 0)
          /\ \A i, j \in 1 .. Len(q) : i <= j => q[i].time <= q[j].time
      BY <2>1, <2>4, UsableRises
    <3>2. /\ \A j \in 1 .. a : InBlock(t[j].offset, 0) /\ t[j].index = p
          /\ \A i, j \in 1 .. a : i <= j => t[i].offset <= t[j].offset
      BY <2>1, <2>4, <3>1
    <3>3. /\ l \in Nat /\ a \in Nat /\ Len(u) = l + a
          /\ \A j \in 1 .. l : u[j] = s[j]
          /\ \A j \in 1 .. a : u[l + j] = t[j]
      <4>1. s \in Seq(Ev) /\ t \in Seq(Ev) /\ u = s \o t
        BY <2>1, <2>4
      <4>2. QED
        BY <4>1, Joined
    <3> HIDE DEF l, a
    <3>4. \A k \in 1 .. l + a : k \in 1 .. l \/ (k - l \in 1 .. a /\ l + (k - l) = k)
      BY <3>3
    <3>5. \A k \in 1 .. l : /\ InBlock(u[k].offset, 0) /\ u[k].index \in FirstOf(d, m)
      BY <2>2, <3>3 DEF Stable, l
    <3>6. \A k \in 1 .. l + a : k - l \in 1 .. a => u[k] = t[k - l]
      BY <3>3, <3>4
    <3>7. \A k \in 1 .. l + a : k - l \in 1 .. a => InBlock(u[k].offset, 0) /\ u[k].index = p
      BY <3>2, <3>6
    <3>8. Of(u, FirstOf(d, m + 1)) /\ \A k \in 1 .. Len(u) : InBlock(u[k].offset, 0)
      BY <2>3, <3>3, <3>4, <3>5, <3>7
    <3>9. ASSUME NEW j \in 1 .. Len(u), NEW k \in 1 .. Len(u), j <= k,
                 u[j].index = u[k].index
          PROVE  u[j].offset <= u[k].offset
      <4>1. CASE j \in 1 .. l /\ k \in 1 .. l
        <5>1. s[j].index = s[k].index
          BY <3>3, <3>9, <4>1
        <5>2. s[j].offset <= s[k].offset
          BY <2>2, <3>9, <4>1, <5>1 DEF Stable, l
        <5>3. QED
          BY <3>3, <4>1, <5>2
      <4>2. CASE j - l \in 1 .. a /\ k - l \in 1 .. a
        <5>1. j - l <= k - l
          BY <3>3, <3>9, <4>2
        <5>2. t[j - l].offset <= t[k - l].offset
          BY <3>2, <4>2, <5>1
        <5>3. QED
          BY <3>3, <3>6, <4>2, <5>2
      <4>3. CASE j \in 1 .. l /\ k - l \in 1 .. a
        <5>1. u[j].index # p /\ u[k].index = p
          BY <2>3, <3>3, <3>5, <3>7, <4>3
        <5>2. QED
          BY <3>9, <5>1
      <4>4. CASE j - l \in 1 .. a /\ k \in 1 .. l
        BY <3>3, <3>9, <4>4
      <4>5. QED
        BY <3>3, <3>4, <4>1, <4>2, <4>3, <4>4
    <3>10. QED
      BY <3>8, <3>9 DEF Stable, u
  <2>5. CASE p \notin Known
    BY <2>1, <2>2, <2>3, <2>5 DEF u
  <2>6. QED
    BY <2>4, <2>5
<1> HIDE DEF D
<1>4. n \in D
  BY <1>1, <1>2, <1>3, SetInduction
<1>5. QED
  BY <1>1, <1>4 DEF D

(* The list holds of a parameter what its queue does, when that is read.   *)
LEMMA CollectedValues ==
  ASSUME EventTypes, NEW events \in Seq(HostEvent), NEW d \in Seq(Known \cup Foreign),
         Distinct(d), NEW v, Course(v, events, d), v[Len(d)].ok,
         NEW p \in Known, NEW o \in Nat
  PROVE  ValueAt(v[Len(d)].events, p, o) =
           IF p \in FirstOf(d, Len(d)) THEN ValueAt(Points(QueueOf(events, p)), p, o) ELSE -1
<1> DEFINE n == Len(d)
           w == Points(QueueOf(events, p))
           Fits(m) == IF p \in FirstOf(d, m) THEN ValueAt(v[m].events, p, o) = ValueAt(w, p, o)
                      ELSE \A k \in DOMAIN v[m].events : ~InEffect(v[m].events, p, o, k)
           D == {m \in Nat : m <= n /\ v[m].ok => Fits(m)}
<1>1. n \in Nat
  OBVIOUS
<1>2. 0 \in D
  <2>1. v[0].events = <<>> /\ FirstOf(d, 0) = {} /\ DOMAIN <<>> = {}
    BY DEF Course, Parsed, FirstOf
  <2>2. Fits(0)
    BY <2>1
  <2>3. QED
    BY <2>2
<1>3. ASSUME NEW m \in Nat, m \in D PROVE m + 1 \in D
  <2> SUFFICES ASSUME m + 1 <= n, v[m + 1].ok PROVE Fits(m + 1)
    OBVIOUS
  <2> DEFINE r == d[m + 1]
             q == QueueOf(events, r)
             s == v[m].events
             t == Points(q)
             u == v[m + 1].events
  <2>1. /\ v[m].ok /\ s \in Seq(Ev) /\ m <= n /\ q \in Seq(Its(r))
        /\ r \in Known => /\ Usable(q, r, Len(s)) /\ t \in Seq(Ev) /\ Len(t) = Len(q)
                          /\ \A j \in 1 .. Len(q) : t[j].index = r /\ t[j].offset = q[j].time
                          /\ u = s \o t
        /\ r \notin Known => u = s
    <3>1. Reads(v, events, d, m)
      BY CourseStep
    <3>2. QED
      BY <3>1, Zenon DEF Reads
  <2>2. Fits(m)
    BY <1>3, <2>1
  <2>3. FirstOf(d, m + 1) = FirstOf(d, m) \cup {r} /\ r \notin FirstOf(d, m)
    BY <1>1, FirstOfNext
  <2>4. r = p => t = w
    OBVIOUS
  <2> HIDE DEF r, q, s, t, w
  <2>5. CASE r = p
    <3>1. s \in Seq(Ev) /\ t \in Seq(Ev) /\ u = s \o t
      BY <2>1, <2>5
    <3>2. ValueAt(s \o t, p, o) =
            IF \E j \in DOMAIN t : InEffect(t, p, o, j) THEN ValueAt(t, p, o)
            ELSE ValueAt(s, p, o)
      BY <3>1, ValueOfBoth
    <3>3. p \notin FirstOf(d, m) /\ p \in FirstOf(d, m + 1)
      BY <2>3, <2>5
    <3>4. \A k \in DOMAIN s : ~InEffect(s, p, o, k)
      BY <2>2, <3>3 DEF s
    <3>5. ValueAt(s, p, o) = -1
      BY <3>4, NoValue
    <3>6. (~\E j \in DOMAIN t : InEffect(t, p, o, j)) => ValueAt(t, p, o) = -1
      BY NoValue
    <3>7. ValueAt(u, p, o) = ValueAt(t, p, o)
      BY <3>1, <3>2, <3>5, <3>6
    <3>8. QED
      BY <2>4, <2>5, <3>3, <3>7
  <2>6. CASE r # p /\ r \in Known
    <3>1. s \in Seq(Ev) /\ t \in Seq(Ev) /\ u = s \o t
      BY <2>1, <2>6
    <3>2. \A j \in DOMAIN t : ~InEffect(t, p, o, j)
      <4>1. DOMAIN t = 1 .. Len(q)
        BY <2>1, <2>6, <3>1
      <4>2. QED
        BY <2>1, <2>6, <4>1 DEF InEffect
    <3>3. ValueAt(u, p, o) = ValueAt(s, p, o)
      <4>1. ValueAt(s \o t, p, o) =
              IF \E j \in DOMAIN t : InEffect(t, p, o, j) THEN ValueAt(t, p, o)
              ELSE ValueAt(s, p, o)
        BY <3>1, ValueOfBoth
      <4>2. QED
        BY <3>1, <3>2, <4>1
    <3>4. p \in FirstOf(d, m + 1) <=> p \in FirstOf(d, m)
      BY <2>3, <2>6
    <3>5. CASE p \in FirstOf(d, m)
      <4>1. ValueAt(s, p, o) = ValueAt(w, p, o)
        BY <2>2, <3>5 DEF s
      <4>2. QED
        BY <3>3, <3>4, <3>5, <4>1
    <3>6. CASE p \notin FirstOf(d, m)
      <4>1. \A k \in DOMAIN s : ~InEffect(s, p, o, k)
        BY <2>2, <3>6 DEF s
      <4>2. ASSUME NEW k \in DOMAIN u PROVE ~InEffect(u, p, o, k)
        <5>1. /\ Len(u) = Len(s) + Len(t)
              /\ \A j \in 1 .. Len(s) : u[j] = s[j]
              /\ \A j \in 1 .. Len(t) : u[Len(s) + j] = t[j]
          BY <3>1, Joined
        <5>2. DOMAIN s = 1 .. Len(s) /\ DOMAIN t = 1 .. Len(t) /\ DOMAIN u = 1 .. Len(u)
              /\ Len(s) \in Nat /\ Len(t) \in Nat
          BY <3>1
        <5>3. k \in 1 .. Len(s) \/ (k - Len(s) \in 1 .. Len(t) /\ Len(s) + (k - Len(s)) = k)
          BY <5>1, <5>2
        <5>4. CASE k \in 1 .. Len(s)
          <6>1. u[k] = s[k] /\ ~InEffect(s, p, o, k)
            BY <4>1, <5>1, <5>2, <5>4
          <6>2. QED
            BY <6>1 DEF InEffect
        <5>5. CASE k - Len(s) \in 1 .. Len(t) /\ Len(s) + (k - Len(s)) = k
          <6>1. u[k] = t[k - Len(s)] /\ ~InEffect(t, p, o, k - Len(s))
            BY <3>2, <5>1, <5>2, <5>5
          <6>2. QED
            BY <6>1 DEF InEffect
        <5>6. QED
          BY <5>3, <5>4, <5>5
      <4>3. QED
        BY <3>4, <3>6, <4>2
    <3>7. QED
      BY <3>5, <3>6
  <2>7. CASE r # p /\ r \notin Known
    <3>1. u = s
      BY <2>1, <2>7
    <3>2. p \in FirstOf(d, m + 1) <=> p \in FirstOf(d, m)
      BY <2>3, <2>7
    <3>3. QED
      BY <2>2, <3>1, <3>2, Zenon DEF s
  <2>8. QED
    BY <2>5, <2>6, <2>7
<1> HIDE DEF D
<1>4. n \in D
  BY <1>1, <1>2, <1>3, SetInduction
<1>5. Fits(n)
  BY <1>1, <1>4 DEF D
<1>6. p \notin FirstOf(d, n) => ValueAt(v[n].events, p, o) = -1
  BY <1>5, NoValue
<1>7. QED
  BY <1>5, <1>6

(* A list that is not refused holds every event there is of the plugin's   *)
(* own parameters, each valid and in the block, and has room for them.     *)
LEMMA CollectedAll ==
  ASSUME EventTypes, NEW events \in Seq(HostEvent), NEW d \in Seq(Known \cup Foreign),
         Distinct(d), NEW v, Course(v, events, d), v[Len(d)].ok
  PROVE  /\ Cardinality(Positions(events, Len(events), FirstOf(d, Len(d)) \cap Known)) <= Cap
         /\ \A p \in FirstOf(d, Len(d)) \cap Known : \E c : Usable(QueueOf(events, p), p, c)
<1> DEFINE n == Len(d)
           Pos(P) == Positions(events, Len(events), P)
           Fits(m) == /\ Len(v[m].events) = Cardinality(Pos(FirstOf(d, m) \cap Known))
                      /\ Len(v[m].events) <= Cap
                      /\ \A p \in FirstOf(d, m) \cap Known : \E c : Usable(QueueOf(events, p), p, c)
           D == {m \in Nat : m <= n /\ v[m].ok => Fits(m)}
<1>1. n \in Nat /\ Len(events) \in Nat /\ Cap \in Nat
  BY DEF EventTypes
<1>2. 0 \in D
  <2>1. Len(v[0].events) = 0 /\ FirstOf(d, 0) = {}
    BY DEF Course, Parsed, FirstOf
  <2>2. Pos(FirstOf(d, 0) \cap Known) = {}
    BY <2>1 DEF Positions
  <2>3. Cardinality({}) = 0
    BY FS_EmptySet
  <2>4. Cardinality(Pos(FirstOf(d, 0) \cap Known)) = 0
    BY <2>2, <2>3, Zenon
  <2>5. \A p : p \notin FirstOf(d, 0) \cap Known
    BY <2>1
  <2> HIDE DEF Pos
  <2>6. Fits(0)
    BY <1>1, <2>1, <2>4, <2>5
  <2>7. QED
    BY <2>6
<1>3. ASSUME NEW m \in Nat, m \in D PROVE m + 1 \in D
  <2> SUFFICES ASSUME m + 1 <= n, v[m + 1].ok PROVE Fits(m + 1)
    OBVIOUS
  <2> DEFINE r == d[m + 1]
             q == QueueOf(events, r)
             s == v[m].events
             t == Points(q)
             u == v[m + 1].events
             A == FirstOf(d, m) \cap Known
             B == FirstOf(d, m + 1) \cap Known
  <2>1. /\ v[m].ok /\ s \in Seq(Ev) /\ m <= n /\ q \in Seq(Its(r))
        /\ r \in Known => /\ Usable(q, r, Len(s)) /\ t \in Seq(Ev) /\ Len(t) = Len(q)
                          /\ \A j \in 1 .. Len(q) : t[j].index = r /\ t[j].offset = q[j].time
                          /\ u = s \o t
        /\ r \notin Known => u = s
    <3>1. Reads(v, events, d, m)
      BY CourseStep
    <3>2. QED
      BY <3>1, Zenon DEF Reads
  <2>2. Fits(m)
    BY <1>3, <2>1
  <2>3. FirstOf(d, m + 1) = FirstOf(d, m) \cup {r} /\ r \notin FirstOf(d, m)
    BY <1>1, FirstOfNext
  <2>4. Len(q) = Cardinality(Pos({r}))
    BY QueueLength
  <2>5. CASE r \in Known
    <3>1. Pos(B) = Pos(A) \cup Pos({r}) /\ Pos(A) \cap Pos({r}) = {}
      <4> HIDE DEF r
      <4>1. B = A \cup {r} /\ r \notin A
        BY <2>3, <2>5
      <4> HIDE DEF A, B
      <4>2. QED
        BY <4>1 DEF Positions
    <3>2. /\ IsFiniteSet(Pos(A)) /\ Cardinality(Pos(A)) \in Nat
          /\ IsFiniteSet(Pos({r})) /\ Cardinality(Pos({r})) \in Nat
      BY <1>1, PositionsFinite
    <3>3. Cardinality(Pos(B)) = Cardinality(Pos(A)) + Cardinality(Pos({r}))
      <4> HIDE DEF Pos, A, B, r
      <4>1. Cardinality(Pos(A) \cup Pos({r})) =
              Cardinality(Pos(A)) + Cardinality(Pos({r})) - Cardinality(Pos(A) \cap Pos({r}))
        BY <3>2, FS_Union
      <4>2. Cardinality({}) = 0
        BY FS_EmptySet
      <4>3. Cardinality(Pos(B)) = Cardinality(Pos(A)) + Cardinality(Pos({r})) - 0
        BY <3>1, <4>1, <4>2, Zenon
      <4> DEFINE x == Cardinality(Pos(A))
                 y == Cardinality(Pos({r}))
      <4>4. x \in Nat /\ y \in Nat /\ Cardinality(Pos(B)) = x + y - 0
        BY <3>2, <4>3
      <4> HIDE DEF x, y
      <4>5. Cardinality(Pos(B)) = x + y
        BY <4>4
      <4>6. QED
        BY <4>5 DEF x, y
    <3>4. Len(u) = Len(s) + Len(q) /\ Len(q) <= Cap - Len(s)
      <4>1. s \in Seq(Ev) /\ t \in Seq(Ev) /\ u = s \o t /\ Len(t) = Len(q)
        BY <2>1, <2>5
      <4>2. Len(u) = Len(s) + Len(t)
        <5> HIDE DEF s, t, u
        <5>1. QED
          BY <4>1, Joined
      <4>3. Usable(q, r, Len(s))
        BY <2>1, <2>5
      <4>4. QED
        BY <4>1, <4>2, <4>3 DEF Usable
    <3>5. Len(s) \in Nat /\ Len(q) \in Nat
      BY <2>1
    <3>6. \A p \in B : \E c : Usable(QueueOf(events, p), p, c)
      <4>1. Usable(QueueOf(events, r), r, Len(s))
        BY <2>1, <2>5
      <4>2. \A p \in B : p \in A \/ p = r
        BY <2>3
      <4>3. \A p \in A : \E c : Usable(QueueOf(events, p), p, c)
        BY <2>2
      <4> HIDE DEF A, B, r, s
      <4>4. QED
        BY <4>1, <4>2, <4>3, Zenon
    <3>7. Len(s) = Cardinality(Pos(A)) /\ Len(s) <= Cap
      BY <2>2
    <3>8. Len(u) = Cardinality(Pos(B)) /\ Len(u) <= Cap
      <4> HIDE DEF Pos, A, B, r, q, s, t, u
      <4>1. QED
        BY <1>1, <2>4, <3>2, <3>3, <3>4, <3>5, <3>7
    <3>9. QED
      BY <3>6, <3>8
  <2>6. CASE r \notin Known
    <3>1. A = B /\ u = s
      BY <2>1, <2>3, <2>6
    <3>2. QED
      BY <2>2, <3>1, Zenon
  <2>7. QED
    BY <2>5, <2>6
<1> HIDE DEF D
<1>4. n \in D
  BY <1>1, <1>2, <1>3, SetInduction
<1>5. Fits(n)
  BY <1>1, <1>4 DEF D
<1>6. QED
  BY <1>5

-----------------------------------------------------------------------------
(* What the sort makes of it. *)

Rising(s) == \A i, j \in 1 .. Len(s) : i <= j => s[i].offset <= s[j].offset

Among(s, x) == \E j \in 1 .. Len(s) : s[j] = x

(* An event placed in a sorted list that holds no later one of its own     *)
(* parameter counts as the last.                                           *)
PlacedWell(s, e) ==
  LET u == InsertAt(s, Place(s, e), e)
  IN  /\ u \in Seq(Ev) /\ Rising(u)
      /\ \A k \in 1 .. Len(u) : u[k] = e \/ Among(s, u[k])
      /\ \A p : \A o \in Nat :
           ValueAt(u, p, o) = IF e.index = p /\ e.offset <= o THEN e.value
                              ELSE ValueAt(s, p, o)

LEMMA InsertKeeps ==
  ASSUME NEW s \in Seq(Ev), Rising(s), NEW e \in Ev,
         \A j \in 1 .. Len(s) : s[j].index = e.index => s[j].offset <= e.offset
  PROVE  PlacedWell(s, e)
<1> DEFINE k == Place(s, e)
           u == InsertAt(s, k, e)
           n == Len(s)
<1>1. /\ k \in 1 .. n + 1
      /\ u \in Seq(Ev) /\ Len(u) = n + 1 /\ u[k] = e
      /\ \A j \in 1 .. k - 1 : u[j] = s[j]
      /\ \A j \in k .. n : u[j + 1] = s[j] /\ s[j].offset > e.offset
      /\ k # 1 => s[k - 1].offset <= e.offset
  BY Inserted
<1>2. n \in Nat /\ e.offset \in Nat /\ DOMAIN s = 1 .. n
      /\ \A j \in 1 .. n : s[j] \in Ev /\ s[j].offset \in Nat
  <2>1. \A x \in Ev : x.offset \in Nat
    BY DEF Ev
  <2>2. \A j \in 1 .. n : s[j] \in Ev
    OBVIOUS
  <2>3. QED
    BY <2>1, <2>2
<1>3. PlacedWell(s, e) <=> /\ u \in Seq(Ev) /\ Rising(u)
                           /\ \A i \in 1 .. Len(u) : u[i] = e \/ Among(s, u[i])
                           /\ \A p : \A o \in Nat :
                                ValueAt(u, p, o) = IF e.index = p /\ e.offset <= o THEN e.value
                                                   ELSE ValueAt(s, p, o)
  BY Zenon DEF PlacedWell
<1> HIDE DEF k, u
<1>4. DOMAIN u = 1 .. n + 1
  BY <1>1, <1>2
<1>5. \A j \in 1 .. n + 1 : \/ j = k
                            \/ j \in 1 .. k - 1 /\ j \in 1 .. n
                            \/ j - 1 \in k .. n /\ (j - 1) + 1 = j /\ j - 1 \in 1 .. n
  BY <1>1, <1>2
<1> HIDE DEF n
<1>6. \A i, j \in 1 .. n : i <= j => s[i].offset <= s[j].offset
  BY DEF Rising, n
<1>7. \A j \in 1 .. k - 1 : u[j] = s[j] /\ j \in 1 .. n /\ s[j].offset <= e.offset
  <2> SUFFICES ASSUME NEW j \in 1 .. k - 1
               PROVE  u[j] = s[j] /\ j \in 1 .. n /\ s[j].offset <= e.offset
    OBVIOUS
  <2>1. j \in 1 .. n /\ k - 1 \in 1 .. n /\ k # 1 /\ j <= k - 1
    BY <1>1, <1>2
  <2>2. s[j].offset <= s[k - 1].offset /\ s[k - 1].offset <= e.offset
    BY <1>1, <1>6, <2>1
  <2>3. QED
    BY <1>1, <1>2, <2>1, <2>2
<1>8. Rising(u)
  <2> SUFFICES ASSUME NEW i \in 1 .. n + 1, NEW j \in 1 .. n + 1, i <= j
               PROVE  u[i].offset <= u[j].offset
    BY <1>1 DEF Rising
  <2>1. CASE i \in 1 .. k - 1
    <3>1. u[i] = s[i] /\ s[i].offset <= e.offset /\ i \in 1 .. n
      BY <1>7, <2>1
    <3>2. CASE j = k
      BY <1>1, <3>1, <3>2
    <3>3. CASE j \in 1 .. k - 1
      <4>1. u[j] = s[j] /\ j \in 1 .. n
        BY <1>7, <3>3
      <4>2. QED
        BY <1>6, <3>1, <4>1
    <3>4. CASE j - 1 \in k .. n /\ (j - 1) + 1 = j /\ j - 1 \in 1 .. n
      <4>1. u[j] = s[j - 1] /\ s[j - 1].offset > e.offset
        BY <1>1, <3>4, Zenon
      <4>2. s[i].offset \in Nat /\ s[j - 1].offset \in Nat /\ e.offset \in Nat
        BY <1>2, <3>1, <3>4
      <4>3. QED
        BY <3>1, <4>1, <4>2
    <3>5. QED
      BY <1>5, <3>2, <3>3, <3>4
  <2>2. CASE i = k
    <3>1. CASE j = k
      BY <1>1, <1>2, <2>2, <3>1
    <3>2. CASE j - 1 \in k .. n /\ (j - 1) + 1 = j /\ j - 1 \in 1 .. n
      <4>1. u[j] = s[j - 1] /\ s[j - 1].offset > e.offset
        BY <1>1, <3>2, Zenon
      <4>2. s[j - 1].offset \in Nat /\ e.offset \in Nat
        BY <1>2, <3>2
      <4>3. QED
        BY <1>1, <2>2, <4>1, <4>2
    <3>3. CASE j \in 1 .. k - 1
      BY <1>1, <1>2, <2>2, <3>3
    <3>4. QED
      BY <1>5, <3>1, <3>2, <3>3
  <2>3. CASE i - 1 \in k .. n /\ (i - 1) + 1 = i /\ i - 1 \in 1 .. n
    <3>1. j - 1 \in k .. n /\ (j - 1) + 1 = j /\ j - 1 \in 1 .. n /\ i - 1 <= j - 1
      BY <1>1, <1>2, <2>3
    <3>2. u[i] = s[i - 1] /\ u[j] = s[j - 1]
      BY <1>1, <2>3, <3>1, Zenon
    <3>3. s[i - 1].offset <= s[j - 1].offset
      BY <1>6, <2>3, <3>1
    <3>4. QED
      BY <3>2, <3>3
  <2>4. QED
    BY <1>5, <2>1, <2>2, <2>3
<1>9. \A i \in 1 .. n + 1 : u[i] = e \/ Among(s, u[i])
  <2> SUFFICES ASSUME NEW i \in 1 .. n + 1, i # k PROVE Among(s, u[i])
    BY <1>1
  <2>1. CASE i \in 1 .. k - 1
    BY <1>7, <2>1 DEF Among, n
  <2>2. CASE i - 1 \in k .. n /\ (i - 1) + 1 = i /\ i - 1 \in 1 .. n
    <3>1. u[i] = s[i - 1]
      BY <1>1, <2>2, Zenon
    <3>2. QED
      BY <2>2, <3>1 DEF Among, n
  <2>3. QED
    BY <1>5, <2>1, <2>2
<1>10. ASSUME NEW p, NEW o \in Nat
       PROVE  ValueAt(u, p, o) = IF e.index = p /\ e.offset <= o THEN e.value
                                 ELSE ValueAt(s, p, o)
  <2>1. \A i \in 1 .. k - 1 : InEffect(u, p, o, i) <=> InEffect(s, p, o, i)
    BY <1>1 DEF InEffect
  <2>2. \A i \in k .. n : InEffect(u, p, o, i + 1) <=> InEffect(s, p, o, i)
    BY <1>1 DEF InEffect
  <2>3. InEffect(u, p, o, k) <=> e.index = p /\ e.offset <= o
    BY <1>1 DEF InEffect
  <2>4. CASE e.index = p /\ e.offset <= o
    <3>1. ASSUME NEW j \in DOMAIN u, InEffect(u, p, o, j) PROVE j <= k
      <4>1. CASE j - 1 \in k .. n /\ (j - 1) + 1 = j /\ j - 1 \in 1 .. n
        <5>1. InEffect(s, p, o, j - 1)
          BY <2>2, <3>1, <4>1, Zenon
        <5>2. s[j - 1].index = e.index
          BY <2>4, <5>1 DEF InEffect
        <5>3. s[j - 1].offset <= e.offset
          BY <4>1, <5>2 DEF n
        <5>4. s[j - 1].offset > e.offset
          BY <1>1, <4>1
        <5>5. QED
          BY <1>2, <4>1, <5>3, <5>4
      <4>2. QED
        BY <1>1, <1>2, <1>4, <1>5, <4>1
    <3>2. k \in DOMAIN u
      BY <1>1, <1>4
    <3>3. ValueAt(u, p, o) = u[k].value
      BY <1>1, <2>3, <2>4, <3>1, <3>2, ValueIs
    <3>4. QED
      BY <1>1, <2>4, <3>3
  <2>5. CASE ~(e.index = p /\ e.offset <= o)
    <3>1. CASE \E j \in DOMAIN s : InEffect(s, p, o, j)
      <4>1. PICK j \in DOMAIN s : InEffect(s, p, o, j)
                                  /\ \A i \in DOMAIN s : InEffect(s, p, o, i) => i <= j
        BY <3>1, LastInEffect
      <4> DEFINE l == IF j < k THEN j ELSE j + 1
      <4>2. l \in DOMAIN u /\ InEffect(u, p, o, l) /\ u[l] = s[j]
        <5>1. CASE j < k
          <6>1. j \in 1 .. k - 1 /\ l = j /\ l \in 1 .. n + 1
            BY <1>1, <1>2, <4>1, <5>1
          <6>2. QED
            BY <1>4, <1>7, <2>1, <4>1, <6>1
        <5>2. CASE ~(j < k)
          <6>1. j \in k .. n /\ l = j + 1 /\ l \in 1 .. n + 1
            BY <1>1, <1>2, <4>1, <5>2
          <6>2. QED
            BY <1>1, <1>4, <2>2, <4>1, <6>1
        <5>3. QED
          BY <5>1, <5>2
      <4>3. ASSUME NEW i \in DOMAIN u, InEffect(u, p, o, i) PROVE i <= l
        <5>1. i # k
          BY <2>3, <2>5, <4>3
        <5>2. CASE i \in 1 .. k - 1
          <6>1. InEffect(s, p, o, i) /\ i \in DOMAIN s
            BY <1>2, <1>7, <2>1, <4>3, <5>2
          <6>2. i <= j
            BY <4>1, <6>1
          <6>3. QED
            BY <1>2, <4>1, <6>1, <6>2
        <5>3. CASE i - 1 \in k .. n /\ (i - 1) + 1 = i /\ i - 1 \in 1 .. n
          <6>1. InEffect(s, p, o, i - 1) /\ i - 1 \in DOMAIN s
            BY <1>2, <2>2, <4>3, <5>3, Zenon
          <6>2. i - 1 <= j
            BY <4>1, <6>1
          <6>3. QED
            BY <1>1, <1>2, <4>1, <5>3, <6>2
        <5>4. QED
          BY <1>4, <1>5, <5>1, <5>2, <5>3
      <4> HIDE DEF l
      <4>4. ValueAt(u, p, o) = u[l].value
        BY <1>1, <4>2, <4>3, ValueIs
      <4>5. ValueAt(s, p, o) = s[j].value
        BY <4>1, ValueIs
      <4>6. QED
        BY <2>5, <4>2, <4>4, <4>5
    <3>2. CASE ~\E j \in DOMAIN s : InEffect(s, p, o, j)
      <4>1. ASSUME NEW i \in DOMAIN u PROVE ~InEffect(u, p, o, i)
        <5>1. CASE i = k
          BY <2>3, <2>5, <5>1
        <5>2. CASE i \in 1 .. k - 1
          BY <1>2, <1>7, <2>1, <3>2, <5>2
        <5>3. CASE i - 1 \in k .. n /\ (i - 1) + 1 = i /\ i - 1 \in 1 .. n
          <6>1. ~InEffect(s, p, o, i - 1)
            BY <1>2, <3>2, <5>3
          <6>2. QED
            BY <2>2, <5>3, <6>1, Zenon
        <5>4. QED
          BY <1>4, <1>5, <5>1, <5>2, <5>3
      <4>2. ValueAt(u, p, o) = -1
        BY <4>1, NoValue
      <4>3. ValueAt(s, p, o) = -1
        BY <3>2, NoValue
      <4>4. QED
        BY <2>5, <4>2, <4>3
    <3>3. QED
      BY <3>1, <3>2
  <2>6. QED
    BY <2>4, <2>5
<1>11. QED
  BY <1>1, <1>3, <1>8, <1>9, <1>10

(* Sorting keeps every value, when the events of each parameter are in     *)
(* order.                                                                  *)
LEMMA SortedKeeps ==
  ASSUME NEW s \in Seq(Ev), Stable(s)
  PROVE  /\ Sorted(s) \in Seq(Ev) /\ Rising(Sorted(s))
         /\ \A k \in 1 .. Len(Sorted(s)) : Among(s, Sorted(s)[k])
         /\ \A p : \A o \in Nat : ValueAt(Sorted(s), p, o) = ValueAt(s, p, o)
<1> DEFINE n == Len(s)
           f(m) == [j \in 1 .. m |-> s[j]]
<1>1. PICK v : /\ v \in [0 .. n -> Seq(Ev)]
               /\ v[0] = <<>>
               /\ \A k \in 1 .. n : v[k] = InsertAt(v[k - 1], Place(v[k - 1], s[k]), s[k])
               /\ Sorted(s) = v[n]
  BY SortedCourse
<1>2. n \in Nat /\ \A k \in 1 .. n : s[k] \in Ev
  OBVIOUS
<1>3. \A i, j \in 1 .. n : i <= j /\ s[i].index = s[j].index => s[i].offset <= s[j].offset
  BY DEF Stable
<1>4. f(n) = s
  OBVIOUS
<1>5. ASSUME NEW m \in Nat, m <= n PROVE f(m) \in Seq(Ev) /\ Len(f(m)) = m
  <2>1. \A j \in 1 .. m : s[j] \in Ev
    BY <1>2, <1>5
  <2>2. QED
    BY <2>1
<1>6. ASSUME NEW m \in Nat, m + 1 <= n PROVE f(m + 1) = Append(f(m), s[m + 1])
  <2>1. f(m) \in Seq(Ev) /\ Len(f(m)) = m /\ f(m + 1) \in Seq(Ev) /\ Len(f(m + 1)) = m + 1
    <3>1. m <= n
      BY <1>2, <1>6
    <3>2. QED
      BY <1>5, <1>6, <3>1
  <2>2. s[m + 1] \in Ev
    BY <1>2, <1>6
  <2> DEFINE a == f(m)
             b == f(m + 1)
             c == Append(a, s[m + 1])
  <2>3. (\A j \in 1 .. m : a[j] = s[j]) /\ \A j \in 1 .. m + 1 : b[j] = s[j]
    OBVIOUS
  <2> HIDE DEF a, b
  <2>4. a \in Seq(Ev) /\ Len(a) = m /\ b \in Seq(Ev) /\ Len(b) = m + 1
    BY <2>1 DEF a, b
  <2>5. c \in Seq(Ev) /\ Len(c) = m + 1 /\ c[m + 1] = s[m + 1] /\ \A j \in 1 .. m : c[j] = a[j]
    BY <2>2, <2>4
  <2> HIDE DEF c
  <2>6. \A j \in 1 .. m + 1 : j \in 1 .. m \/ j = m + 1
    OBVIOUS
  <2>7. \A j \in 1 .. m + 1 : b[j] = c[j]
    BY <2>3, <2>5, <2>6
  <2>8. b = c
    BY <2>4, <2>5, <2>7, SeqEqual
  <2>9. QED
    BY <2>8 DEF a, b, c
<1> HIDE DEF n
<1> DEFINE Fits(m) == /\ Rising(v[m])
                      /\ \A k \in 1 .. Len(v[m]) : \E j \in 1 .. m : v[m][k] = s[j]
                      /\ \A p : \A o \in Nat : ValueAt(v[m], p, o) = ValueAt(f(m), p, o)
           D == {m \in Nat : m <= n => Fits(m)}
<1>7. 0 \in D
  <2>1. v[0] = <<>> /\ f(0) = <<>> /\ Len(<<>>) = 0 /\ 1 .. 0 = {}
    BY <1>1
  <2>2. Fits(0)
    BY <2>1 DEF Rising
  <2>3. QED
    BY <2>2
<1>8. ASSUME NEW m \in Nat, m \in D PROVE m + 1 \in D
  <2> SUFFICES ASSUME m + 1 <= n PROVE Fits(m + 1)
    OBVIOUS
  <2> DEFINE e == s[m + 1]
             w == v[m]
             u == v[m + 1]
             a == f(m)
             b == f(m + 1)
  <2>1. m + 1 \in 1 .. n /\ (m + 1) - 1 = m /\ m \in 0 .. n /\ m <= n
    BY <1>2
  <2>2. w \in Seq(Ev) /\ e \in Ev /\ u = InsertAt(w, Place(w, e), e)
    BY <1>1, <1>2, <2>1
  <2>3. /\ Rising(w) /\ (\A k \in 1 .. Len(w) : \E j \in 1 .. m : w[k] = s[j])
        /\ \A p : \A o \in Nat : ValueAt(w, p, o) = ValueAt(a, p, o)
    BY <1>8, <2>1
  <2>4. ASSUME NEW k \in 1 .. Len(w), w[k].index = e.index PROVE w[k].offset <= e.offset
    <3>1. PICK j \in 1 .. m : w[k] = s[j]
      BY <2>3
    <3>2. j \in 1 .. n /\ m + 1 \in 1 .. n /\ j <= m + 1
      BY <1>2, <2>1
    <3>3. s[j].index = s[m + 1].index
      BY <2>4, <3>1
    <3>4. s[j].offset <= s[m + 1].offset
      BY <1>3, <3>2, <3>3
    <3>5. QED
      BY <3>1, <3>4
  <2>5. a \in Seq(Ev) /\ b = Append(a, e)
    BY <1>5, <1>6, <2>1
  <2>6. e = s[m + 1]
    OBVIOUS
  <2> HIDE DEF e, w, u, a, b
  <2>7. PlacedWell(w, e)
    BY <2>2, <2>3, <2>4, InsertKeeps
  <2>8. /\ u \in Seq(Ev) /\ Rising(u)
        /\ \A k \in 1 .. Len(u) : u[k] = e \/ Among(w, u[k])
        /\ \A p : \A o \in Nat :
             ValueAt(u, p, o) = IF e.index = p /\ e.offset <= o THEN e.value
                                ELSE ValueAt(w, p, o)
    BY <2>2, <2>7, Zenon DEF PlacedWell
  <2>9. ASSUME NEW k \in 1 .. Len(u) PROVE \E j \in 1 .. m + 1 : u[k] = s[j]
    <3>1. CASE u[k] = e
      BY <2>6, <3>1
    <3>2. CASE Among(w, u[k])
      <4>1. PICK i \in 1 .. Len(w) : w[i] = u[k]
        BY <3>2 DEF Among
      <4>2. PICK j \in 1 .. m : w[i] = s[j]
        BY <2>3
      <4>3. j \in 1 .. m + 1
        OBVIOUS
      <4>4. QED
        BY <4>1, <4>2, <4>3
    <3>3. QED
      BY <2>8, <3>1, <3>2
  <2>10. ASSUME NEW p, NEW o \in Nat PROVE ValueAt(u, p, o) = ValueAt(b, p, o)
    <3>1. ValueAt(Append(a, e), p, o) =
            IF e.index = p /\ e.offset <= o THEN e.value ELSE ValueAt(a, p, o)
      BY <2>2, <2>5, ValueOfOne
    <3>2. ValueAt(w, p, o) = ValueAt(a, p, o)
      BY <2>3
    <3>3. ValueAt(u, p, o) = IF e.index = p /\ e.offset <= o THEN e.value
                             ELSE ValueAt(w, p, o)
      BY <2>8
    <3>4. QED
      BY <2>5, <3>1, <3>2, <3>3
  <2>11. Fits(m + 1)
    BY <2>8, <2>9, <2>10 DEF u, b
  <2>12. QED
    BY <2>11
<1> HIDE DEF D
<1>9. n \in D
  BY <1>2, <1>7, <1>8, SetInduction
<1>10. Fits(n)
  BY <1>2, <1>9 DEF D
<1>11. v[n] \in Seq(Ev)
  BY <1>1, <1>2
<1>12. QED
  BY <1>1, <1>4, <1>10, <1>11 DEF Among, n

-----------------------------------------------------------------------------
(* The two adapters side by side. *)

(* What process() makes of a block it does not refuse. *)
LEMMA Vst3Is ==
  ASSUME EventTypes, NEW events \in Seq(HostEvent)
  PROVE  LET d == Order(events) IN
         \E v : /\ Course(v, events, d) /\ d \in Seq(Known \cup Foreign) /\ Distinct(d)
                /\ Vst3Parse(events) = SortedResult(v[Len(d)])
                /\ v[Len(d)] \in Results
                /\ \A i \in 1 .. Len(events) : events[i].kind = "param" =>
                     events[i].index \in FirstOf(d, Len(d))
<1> DEFINE d == Order(events)
<1>1. /\ d \in Seq(Known \cup Foreign) /\ Distinct(d)
      /\ \A i \in 1 .. Len(events) : events[i].kind = "param" =>
           \E j \in 1 .. Len(d) : d[j] = events[i].index
  BY OrderHolds DEF Distinct
<1> HIDE DEF d
<1>2. PICK v : /\ v \in [0 .. Len(d) -> Results]
               /\ v[0] = Parsed(<<>>)
               /\ \A k \in 1 .. Len(d) : v[k] = Gathered(v[k - 1], QueueOf(events, d[k]), d[k])
               /\ Collect(events, d) = v[Len(d)]
  BY <1>1, CollectCourse
<1>3. Course(v, events, d)
  BY <1>2 DEF Course
<1>4. Len(d) \in Nat
  BY <1>1
<1>5. v[Len(d)] \in Results
  BY <1>2, <1>4
<1>6. Vst3Parse(events) = SortedResult(v[Len(d)])
  BY <1>2 DEF Vst3Parse, d
<1>7. \A i \in 1 .. Len(events) : events[i].kind = "param" =>
        events[i].index \in FirstOf(d, Len(d))
  BY <1>1 DEF FirstOf
<1>8. QED
  BY <1>1, <1>3, <1>5, <1>6, <1>7 DEF d

(* A list in order within each parameter comes out in order. *)
LEMMA Vst3Ordered ==
  ASSUME EventTypes, NEW events \in Seq(HostEvent)
  PROVE  Ordered(Vst3Parse(events).events)
<1> DEFINE d == Order(events)
<1>1. PICK v : /\ Course(v, events, d) /\ d \in Seq(Known \cup Foreign) /\ Distinct(d)
               /\ Vst3Parse(events) = SortedResult(v[Len(d)])
               /\ v[Len(d)] \in Results
  BY Vst3Is
<1> HIDE DEF d
<1> DEFINE c == v[Len(d)]
           s == c.events
           u == Sorted(s)
<1>2. CASE ~c.ok
  <2>1. Vst3Parse(events).events = <<>>
    BY <1>1, <1>2 DEF SortedResult, Refused
  <2>2. QED
    BY <2>1 DEF Ordered
<1>3. CASE c.ok
  <2>1. s \in Seq(Ev) /\ Stable(s)
    BY <1>1, <1>3, CollectedStable DEF Results
  <2>2. Vst3Parse(events).events = u
    BY <1>1, <1>3 DEF SortedResult, Parsed
  <2> HIDE DEF s
  <2>3. u \in Seq(Ev) /\ Rising(u) /\ \A k \in 1 .. Len(u) : Among(s, u[k])
    BY <2>1, SortedKeeps
  <2> HIDE DEF u
  <2>4. DOMAIN u = 1 .. Len(u) /\ Len(u) \in Nat /\ \A k \in 1 .. Len(u) : u[k].offset \in Nat
    <3>1. \A x \in Ev : x.offset \in Nat
      BY DEF Ev
    <3>2. \A k \in 1 .. Len(u) : u[k] \in Ev
      BY <2>3
    <3>3. QED
      BY <2>3, <3>1, <3>2
  <2>5. ASSUME NEW k \in 1 .. Len(u)
        PROVE  InBlock(u[k].offset, IF k = 1 THEN 0 ELSE u[k - 1].offset)
    <3>1. PICK j \in 1 .. Len(s) : s[j] = u[k]
      BY <2>3 DEF Among
    <3>2. InBlock(s[j].offset, 0)
      BY <2>1 DEF Stable
    <3>3. InBlock(u[k].offset, 0)
      BY <3>1, <3>2
    <3>4. CASE k = 1
      BY <3>3, <3>4
    <3>5. CASE k # 1
      <4>1. k - 1 \in 1 .. Len(u) /\ k - 1 <= k
        BY <2>4, <3>5
      <4>2. u[k - 1].offset <= u[k].offset
        BY <2>3, <4>1 DEF Rising
      <4>3. u[k].offset >= u[k - 1].offset
        BY <2>4, <4>1, <4>2
      <4>4. QED
        BY <3>3, <3>5, <4>3 DEF InBlock
    <3>6. QED
      BY <3>4, <3>5
  <2>6. QED
    BY <2>2, <2>4, <2>5 DEF Ordered
<1>4. QED
  BY <1>2, <1>3

(* Each parameter has the value its queue gives it. *)
LEMMA Vst3Values ==
  ASSUME EventTypes, NEW events \in Seq(HostEvent), Vst3Parse(events).ok,
         NEW p \in Known, NEW o \in Nat
  PROVE  ValueAt(Vst3Parse(events).events, p, o)
           = ValueAt(Points(QueueOf(events, p)), p, o)
<1> DEFINE d == Order(events)
<1>1. PICK v : /\ Course(v, events, d) /\ d \in Seq(Known \cup Foreign) /\ Distinct(d)
               /\ Vst3Parse(events) = SortedResult(v[Len(d)])
               /\ v[Len(d)] \in Results
               /\ \A i \in 1 .. Len(events) : events[i].kind = "param" =>
                    events[i].index \in FirstOf(d, Len(d))
  BY Vst3Is
<1> HIDE DEF d
<1> DEFINE c == v[Len(d)]
           s == c.events
<1>2. c.ok
  BY <1>1 DEF SortedResult, Refused
<1>3. Vst3Parse(events).events = Sorted(s)
  BY <1>1, <1>2 DEF SortedResult, Parsed
<1>4. s \in Seq(Ev) /\ Stable(s)
  BY <1>1, <1>2, CollectedStable DEF Results
<1>5. ValueAt(s, p, o) = IF p \in FirstOf(d, Len(d))
                         THEN ValueAt(Points(QueueOf(events, p)), p, o) ELSE -1
  BY <1>1, <1>2, CollectedValues
<1> HIDE DEF s
<1>6. ValueAt(Sorted(s), p, o) = ValueAt(s, p, o)
  BY <1>4, SortedKeeps
<1>7. CASE p \notin FirstOf(d, Len(d))
  <2> DEFINE q == QueueOf(events, p)
  <2>1. Positions(events, Len(events), {p}) = {}
    BY <1>1, <1>7 DEF Positions
  <2>2. Len(q) = 0
    <3>1. Cardinality({}) = 0
      BY FS_EmptySet
    <3>2. Len(q) = Cardinality(Positions(events, Len(events), {p}))
      BY QueueLength
    <3>3. QED
      BY <2>1, <3>1, <3>2, Zenon
  <2>3. q \in Seq(Its(p))
    BY QueueType
  <2> HIDE DEF q
  <2>4. Points(q) \in Seq(Ev) /\ Len(Points(q)) = 0
    BY <2>2, <2>3, PointsAre
  <2>5. DOMAIN Points(q) = {}
    BY <2>4
  <2>6. ValueAt(Points(q), p, o) = -1
    BY <2>5, NoValue
  <2>7. QED
    BY <1>3, <1>5, <1>6, <1>7, <2>6 DEF q
<1>8. QED
  BY <1>3, <1>5, <1>6, <1>7

(* A list with one more. *)
LEMMA Appended ==
  ASSUME NEW T, NEW s \in Seq(T), NEW x \in T
  PROVE  /\ Len(Append(s, x)) = Len(s) + 1
         /\ Append(s, x)[Len(s) + 1] = x /\ Append(s, x) # <<>>
<1>1. Len(Append(s, x)) = Len(s) + 1 /\ Append(s, x)[Len(s) + 1] = x /\ Len(s) \in Nat
  OBVIOUS
<1>2. Len(<<>>) = 0
  OBVIOUS
<1>3. Append(s, x) # <<>>
  BY <1>1, <1>2
<1>4. QED
  BY <1>1, <1>3

(* What process() takes, parse() takes too, in the order of the times. *)
LEMMA ClapTakes ==
  ASSUME EventTypes, NEW events \in Seq(HostEvent), Vst3Parse(events).ok,
         \A k \in 2 .. Len(events) : events[k - 1].time <= events[k].time,
         \A k \in 1 .. Len(events) : events[k].kind = "param"
  PROVE  ClapParse(events).ok
<1> DEFINE d == Order(events)
           n == Len(events)
           Count(m) == Cardinality(Positions(events, m, Known))
<1>1. PICK w : /\ Course(w, events, d) /\ d \in Seq(Known \cup Foreign) /\ Distinct(d)
               /\ Vst3Parse(events) = SortedResult(w[Len(d)])
               /\ w[Len(d)] \in Results
               /\ \A i \in 1 .. n : events[i].kind = "param" =>
                    events[i].index \in FirstOf(d, Len(d))
  BY Vst3Is
<1> HIDE DEF d
<1>2. n \in Nat /\ Cap \in Nat /\ \A k \in 1 .. n : events[k] \in HostEvent
  BY DEF EventTypes
<1>3. w[Len(d)].ok
  BY <1>1 DEF SortedResult, Refused
<1>4. /\ Cardinality(Positions(events, n, FirstOf(d, Len(d)) \cap Known)) <= Cap
      /\ \A p \in FirstOf(d, Len(d)) \cap Known : \E c : Usable(QueueOf(events, p), p, c)
  BY <1>1, <1>3, CollectedAll
<1>5. Count(n) <= Cap
  <2>1. Positions(events, n, FirstOf(d, Len(d)) \cap Known) = Positions(events, n, Known)
    BY <1>1 DEF Positions
  <2>2. QED
    BY <1>4, <2>1, Zenon
<1>6. ASSUME NEW m \in Nat, m <= n PROVE Count(m) <= Count(n) /\ Count(m) \in Nat
  <2>1. Positions(events, m, Known) \subseteq Positions(events, n, Known)
    BY <1>2, <1>6 DEF Positions
  <2>2. IsFiniteSet(Positions(events, n, Known))
    BY <1>2, PositionsFinite
  <2>3. Count(m) \in Nat
    BY PositionsFinite
  <2>4. Count(m) <= Count(n)
    BY <2>1, <2>2, FS_Subset
  <2>5. QED
    BY <2>3, <2>4
<1>7. ASSUME NEW i \in 1 .. n, events[i].index \in Known
      PROVE  events[i].valid /\ InBlock(events[i].time, 0)
  <2> DEFINE p == events[i].index
             q == QueueOf(events, p)
  <2>1. p \in FirstOf(d, Len(d)) \cap Known /\ Changes(events[i], p)
    BY <1>1, <1>7 DEF Changes
  <2>2. PICK c : Usable(q, p, c)
    BY <1>4, <2>1
  <2>3. PICK j \in 1 .. Len(q) : q[j] = events[i]
    BY <2>1, QueueHolds
  <2>4. q \in Seq(Its(p))
    BY QueueType
  <2>5. q[j].valid /\ InBlock(q[j].time, 0)
    <3> HIDE DEF p, q
    <3>1. QED
      BY <2>2, <2>4, UsableRises
  <2>6. QED
    BY <2>3, <2>5
<1>8. PICK v : /\ v \in [0 .. n -> Results]
               /\ v[0] = Parsed(<<>>)
               /\ \A k \in 1 .. n : v[k] = ClapNext(v[k - 1], events[k])
               /\ ClapParse(events) = v[n]
  BY ClapCourse
<1> DEFINE Fits(m) == /\ v[m].ok /\ Len(v[m].events) = Count(m)
                      /\ Latest(v[m].events) <= IF m = 0 THEN 0 ELSE events[m].time
           D == {m \in Nat : m <= n => Fits(m)}
<1>9. 0 \in D
  <2>1. v[0].ok /\ v[0].events = <<>> /\ Len(<<>>) = 0
    BY <1>8 DEF Parsed
  <2>2. Positions(events, 0, Known) = {}
    BY DEF Positions
  <2>3. Cardinality({}) = 0
    BY FS_EmptySet
  <2>4. Count(0) = 0
    BY <2>2, <2>3, Zenon
  <2>5. Latest(v[0].events) = 0
    BY <2>1 DEF Latest
  <2> HIDE DEF Count
  <2>6. Fits(0)
    BY <2>1, <2>4, <2>5
  <2>7. QED
    BY <2>6
<1>10. ASSUME NEW m \in Nat, m \in D PROVE m + 1 \in D
  <2> SUFFICES ASSUME m + 1 <= n PROVE Fits(m + 1)
    OBVIOUS
  <2> DEFINE e == events[m + 1]
             r == v[m]
             s == r.events
  <2>1. m + 1 \in 1 .. n /\ (m + 1) - 1 = m /\ m \in 0 .. n /\ m <= n
    BY <1>2
  <2>2. v[m + 1] = ClapNext(r, e) /\ r \in Results /\ s \in Seq(Ev)
        /\ e \in HostEvent /\ e.kind = "param"
    BY <1>2, <1>8, <2>1 DEF Results
  <2>3. r.ok /\ Len(s) = Count(m) /\ Latest(s) <= IF m = 0 THEN 0 ELSE events[m].time
    BY <1>10, <2>1
  <2>4. e.time \in Nat /\ Latest(s) \in Nat
    <3>1. \A x \in Ev : x.offset \in Nat
      BY DEF Ev
    <3>2. s # <<>> => s[Len(s)] \in Ev
      BY <2>2
    <3> HIDE DEF e, s
    <3>3. QED
      BY <2>2, <3>1, <3>2 DEF Latest, HostEvent
  <2>5. Latest(s) <= e.time
    <3>1. CASE m = 0
      BY <2>3, <2>4, <3>1
    <3>2. CASE m # 0
      <4>1. m + 1 \in 2 .. n /\ m \in 1 .. n
        BY <2>1, <3>2
      <4>2. events[(m + 1) - 1].time <= e.time
        BY <4>1
      <4>3. events[m].time <= e.time /\ events[m].time \in Nat
        <5>1. events[m] \in HostEvent
          BY <1>2, <4>1
        <5>2. QED
          BY <2>1, <4>2, <5>1 DEF HostEvent
      <4> HIDE DEF s, e
      <4>4. QED
        BY <2>3, <2>4, <3>2, <4>3
    <3>3. QED
      BY <3>1, <3>2
  <2>6. Count(m + 1) = IF e.index \in Known THEN Count(m) + 1 ELSE Count(m)
    BY <2>2, PositionsGrow
  <2>7. Count(m + 1) <= Count(n) /\ Count(m + 1) \in Nat /\ Count(m) \in Nat /\ Count(n) \in Nat
    BY <1>2, <1>6, <2>1
  <2>8. e.index \in Known => e.valid /\ InBlock(e.time, 0)
    BY <1>7, <2>1
  <2>9. Fits(m + 1) <=> /\ v[m + 1].ok /\ Len(v[m + 1].events) = Count(m + 1)
                        /\ Latest(v[m + 1].events) <= e.time
    <3>1. m + 1 # 0
      OBVIOUS
    <3>2. QED
      BY <3>1
  <2> HIDE DEF Fits, Count, e, s, r
  <2>10. CASE e.index \in Known
    <3>1. Len(s) < Cap
      BY <1>2, <1>5, <2>3, <2>6, <2>7, <2>10
    <3>2. InBlock(e.time, Latest(s))
      BY <2>4, <2>5, <2>8, <2>10 DEF InBlock
    <3>3. ClapNext(r, e) = Parsed(Append(s, Point(e)))
      BY <2>2, <2>3, <2>8, <2>10, <3>1, <3>2 DEF ClapNext, Heeded, s
    <3>4. v[m + 1].ok /\ v[m + 1].events = Append(s, Point(e))
      BY <2>2, <3>3 DEF Parsed
    <3>5. Point(e) \in Ev /\ Point(e).offset = e.time
      BY <2>2, <2>10, PointType DEF Point
    <3>6. Len(Append(s, Point(e))) = Len(s) + 1 /\ Append(s, Point(e))[Len(s) + 1] = Point(e)
          /\ Append(s, Point(e)) # <<>>
      <4>1. s \in Seq(Ev)
        BY <2>2
      <4>2. QED
        BY <3>5, <4>1, Appended
    <3>7. Latest(Append(s, Point(e))) = e.time
      BY <3>5, <3>6 DEF Latest
    <3>8. QED
      BY <2>3, <2>4, <2>6, <2>9, <2>10, <3>4, <3>6, <3>7
  <2>11. CASE e.index \notin Known
    <3>1. ClapNext(r, e) = r
      BY <2>2, <2>3, <2>11 DEF ClapNext
    <3>2. v[m + 1] = r
      BY <2>2, <3>1
    <3>3. QED
      BY <2>3, <2>5, <2>6, <2>9, <2>11, <3>2 DEF s
  <2>12. QED
    BY <2>10, <2>11
<1> HIDE DEF D
<1>11. n \in D
  BY <1>2, <1>9, <1>10, SetInduction
<1>12. QED
  BY <1>2, <1>8, <1>11 DEF D

(* Both adapters hand processing events that are in order and in the       *)
(* block, the same automation means the same in both, and a block that     *)
(* VST3 takes is one that CLAP takes (boiled_egg_clap.cpp:31,              *)
(* boiled_egg_vst3.cpp:131): for every list a host may send.               *)
THEOREM FormatsAgree == ASSUME EventTypes PROVE EventsSpec => []AdaptersAgree
<1> DEFINE Kept == list \in Lists /\ AdaptersAgree
<1>1. EventsInit => Kept
  <2> SUFFICES ASSUME EventsInit PROVE Kept
    OBVIOUS
  <2>1. clap.ok = FALSE /\ vst3.ok = FALSE /\ clap.events = <<>> /\ vst3.events = <<>>
    BY DEF EventsInit, Refused
  <2>2. Ordered(clap.events) /\ Ordered(vst3.events)
    BY <2>1 DEF Ordered
  <2>3. SameValues /\ SameBlocks
    BY <2>1 DEF SameValues, SameBlocks
  <2>4. QED
    BY <2>2, <2>3 DEF AdaptersAgree, EventsInit
<1>2. Kept /\ [EventsNext]_eventVars => Kept'
  <2> SUFFICES ASSUME Kept, [EventsNext]_eventVars PROVE Kept'
    OBVIOUS
  <2>1. CASE EventsNext
    <3>1. list \in Seq(HostEvent)
      BY DEF EventTypes, HostEvent
    <3>2. clap' = ClapParse(list) /\ vst3' = Vst3Parse(list) /\ list' = list
      BY <2>1 DEF EventsNext
    <3>3. Ordered(ClapParse(list).events) /\ Ordered(Vst3Parse(list).events)
      BY <3>1, ClapOrdered, Vst3Ordered
    <3>4. ASSUME ClapParse(list).ok, Vst3Parse(list).ok,
                 NEW p \in Automatable, NEW o \in 0 .. Frames
          PROVE  ValueAt(ClapParse(list).events, p, o) = ValueAt(Vst3Parse(list).events, p, o)
      <4>1. p \in Known /\ o \in Nat
        BY DEF Known, EventTypes
      <4>2. ValueAt(ClapParse(list).events, p, o) = ValueAt(Points(QueueOf(list, p)), p, o)
        BY <3>1, <3>4, <4>1, ClapValues
      <4>3. ValueAt(Vst3Parse(list).events, p, o) = ValueAt(Points(QueueOf(list, p)), p, o)
        BY <3>1, <3>4, <4>1, Vst3Values
      <4>4. QED
        BY <4>2, <4>3
    <3>5. SameValues'
      BY <3>2, <3>4 DEF SameValues
    <3>6. SameBlocks'
      <4>1. SUFFICES ASSUME Vst3Parse(list).ok, InTime,
                            \A k \in DOMAIN list : list[k].kind = "param"
                     PROVE  ClapParse(list).ok
        BY <3>2 DEF SameBlocks, InTime
      <4>2. \A k \in 2 .. Len(list) : list[k - 1].time <= list[k].time
        BY <4>1 DEF InTime
      <4>3. \A k \in 1 .. Len(list) : list[k].kind = "param"
        BY <3>1, <4>1
      <4>4. QED
        BY <3>1, <4>1, <4>2, <4>3, ClapTakes
    <3>7. QED
      BY <3>2, <3>3, <3>5, <3>6 DEF AdaptersAgree
  <2>2. CASE UNCHANGED eventVars
    BY <2>2 DEF eventVars, AdaptersAgree, SameValues, SameBlocks, InTime
  <2>3. QED
    BY <2>1, <2>2
<1>3. Kept => AdaptersAgree
  OBVIOUS
<1>4. QED
  BY <1>1, <1>2, <1>3, PTL DEF EventsSpec
=============================================================================
