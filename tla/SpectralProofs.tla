--------------------------- MODULE SpectralProofs ---------------------------
(***************************************************************************)
(* Theorems about the phase-vocoder backend, for every size of its frames, *)
(* rings and map, every kind of engine and every batch of ramps.           *)
(***************************************************************************)
EXTENDS Spectral, NaturalsInduction, WellFoundedInduction, TLAPS

-----------------------------------------------------------------------------
(* Natural numbers. *)

(* A set of natural numbers has a least one. *)
LEMMA LeastOf ==
  ASSUME NEW S, S \subseteq Nat, S # {}
  PROVE  \E x \in S : \A y \in S : x <= y
<1>1. IsWellFoundedOn(OpToRel(<, Nat), Nat)
  BY NatLessThanWellFounded, Zenon
<1>2. PICK x \in S : \A y \in S : ~(<<y, x>> \in OpToRel(<, Nat))
  BY <1>1, WFMin, Zenon
<1>3. \A y \in S : ~(y < x)
  BY <1>2, Zenon DEF OpToRel
<1>4. QED
  BY <1>3

(* A set with zero and every successor holds all of them. *)
LEMMA SetInduction ==
  ASSUME NEW S, 0 \in S, \A n \in Nat : n \in S => n + 1 \in S
  PROVE  \A n \in Nat : n \in S
<1> SUFFICES ASSUME Nat \ S # {} PROVE FALSE
  OBVIOUS
<1>1. PICK x \in Nat \ S : \A y \in Nat \ S : x <= y
  BY LeastOf
<1>2. x # 0 /\ x - 1 \in Nat /\ (x - 1) + 1 = x /\ ~(x <= x - 1)
  BY <1>1
<1>3. x - 1 \in S
  BY <1>1, <1>2
<1>4. QED
  BY <1>1, <1>2, <1>3

(* Where a loop stops: at a stop, or at its bound. *)
LEMMA FirstOfIs ==
  ASSUME NEW low \in Nat, NEW bound \in Nat, NEW stops, stops \subseteq low .. bound,
         low <= bound
  PROVE  FirstOf(stops, bound) \in low .. bound
<1>1. CASE stops = {}
  BY <1>1 DEF FirstOf
<1>2. CASE stops # {}
  <2>1. \E j \in stops : \A i \in stops : j <= i
    <3>1. stops \subseteq Nat
      OBVIOUS
    <3>2. QED
      BY <1>2, <3>1, LeastOf
  <2>2. FirstOf(stops, bound) \in stops
    BY <1>2, <2>1, Zenon DEF FirstOf
  <2>3. QED
    BY <2>2
<1>3. QED
  BY <1>1, <1>2

(* A product of what is no larger is no larger. *)
LEMMA ProductGrows ==
  ASSUME NEW a \in Nat, NEW b \in Nat, NEW c \in Nat, NEW d \in Nat, a <= c, b <= d
  PROVE  a * b <= c * d /\ a * b \in Nat
<1>1. a * b <= c * b
  <2>1. PICK m \in Nat : c = a + m
    <3>1. c - a \in Nat /\ c = a + (c - a)
      OBVIOUS
    <3>2. QED
      BY <3>1
  <2>2. m * b \in Nat
    OBVIOUS
  <2>3. (a + m) * b = a * b + m * b
    OBVIOUS
  <2>4. QED
    BY <2>1, <2>2, <2>3
<1>2. c * b <= c * d
  <2>1. PICK m \in Nat : d = b + m
    <3>1. d - b \in Nat /\ d = b + (d - b)
      OBVIOUS
    <3>2. QED
      BY <3>1
  <2>2. c * m \in Nat
    OBVIOUS
  <2>3. c * (b + m) = c * b + c * m
    OBVIOUS
  <2>4. QED
    BY <2>1, <2>2, <2>3
<1>3. a * b \in Nat /\ c * b \in Nat /\ c * d \in Nat
  OBVIOUS
<1>4. QED
  BY <1>1, <1>2, <1>3

-----------------------------------------------------------------------------
(* Loops. *)

(* What a loop of the model does next, by its name. *)
Sequel(loop, a, b, k, x) ==
  CASE loop = "map" -> MapNext(x, a, b + k - 1)
    [] loop = "drain" -> DrainNext(x, a)
    [] loop = "windows" -> WorkWindow(x)
    [] loop = "feed" -> FeedZero(x)
    [] loop = "ramps" -> RampAt(x, a[k], b)
    [] loop = "push" -> PushNext(x, a, b)
    [] loop = "after" -> TickedPlan(x)
    [] loop = "leads" -> RampPlan(After(x, a[k].at - Cursor(a, k - 1)), a[k])
    [] OTHER -> Heard(Upto(x, a.batch[k].at, b), a.batch[k], a.explicit)

(* The function that a loop of n rounds takes its result from. *)
Trail(f, base, loop, a, b, n) ==
  f = [k \in 0 .. n |-> IF k = 0 THEN base ELSE Sequel(loop, a, b, k, f[k - 1])]

(* There is one of every length. *)
LEMMA TrailExists ==
  ASSUME NEW base, NEW loop, NEW a, NEW b, NEW n \in Nat
  PROVE  \E f : Trail(f, base, loop, a, b, n)
<1> DEFINE S == {m \in Nat : \E f : Trail(f, base, loop, a, b, m)}
<1>1. 0 \in S
  <2>1. Trail([k \in 0 .. 0 |-> base], base, loop, a, b, 0)
    BY DEF Trail
  <2>2. QED
    BY <2>1
<1>2. ASSUME NEW m \in Nat, m \in S PROVE m + 1 \in S
  <2>1. PICK f : Trail(f, base, loop, a, b, m)
    BY <1>2
  <2> DEFINE h == [k \in 0 .. m + 1 |->
                     IF k = m + 1 THEN Sequel(loop, a, b, k, f[m]) ELSE f[k]]
             g == [k \in 0 .. m + 1 |->
                     IF k = 0 THEN base ELSE Sequel(loop, a, b, k, h[k - 1])]
  <2>2. ASSUME NEW k \in 0 .. m + 1 PROVE h[k] = g[k]
    <3>1. CASE k = 0
      BY <2>1, <3>1 DEF Trail
    <3>2. CASE k = m + 1
      <4>1. k - 1 = m /\ m \in 0 .. m + 1 /\ m # m + 1 /\ k # 0
        BY <3>2
      <4>2. h[k - 1] = f[m]
        BY <4>1
      <4>3. QED
        BY <3>2, <4>1, <4>2
    <3>3. CASE k # 0 /\ k # m + 1
      <4>1. k - 1 \in 0 .. m /\ k \in 0 .. m
        BY <3>3
      <4>2. h[k - 1] = f[k - 1] /\ h[k] = f[k]
        BY <3>3, <4>1
      <4>3. f[k] = Sequel(loop, a, b, k, f[k - 1])
        BY <2>1, <3>3, <4>1 DEF Trail
      <4>4. QED
        BY <3>3, <4>2, <4>3
    <3>4. QED
      BY <3>1, <3>2, <3>3
  <2>3. h = g
    BY <2>2
  <2>4. Trail(h, base, loop, a, b, m + 1)
    BY <2>3, Zenon DEF Trail
  <2> HIDE DEF h
  <2>5. QED
    BY <2>4
<1> HIDE DEF S
<1>3. n \in S
  BY <1>1, <1>2, SetInduction
<1>4. QED
  BY <1>3 DEF S

(* It begins with the base and each round makes the next value. *)
LEMMA TrailSteps ==
  ASSUME NEW base, NEW loop, NEW a, NEW b, NEW n \in Nat, NEW f,
         Trail(f, base, loop, a, b, n)
  PROVE  /\ f[0] = base
         /\ \A k \in 1 .. n : f[k] = Sequel(loop, a, b, k, f[k - 1])
<1>1. f[0] = base
  BY DEF Trail
<1>2. ASSUME NEW k \in 1 .. n PROVE f[k] = Sequel(loop, a, b, k, f[k - 1])
  <2>1. k \in 0 .. n /\ k # 0
    OBVIOUS
  <2>2. QED
    BY <2>1 DEF Trail
<1>3. QED
  BY <1>1, <1>2

(* Two of them agree where both are. *)
LEMMA TrailUnique ==
  ASSUME NEW base, NEW loop, NEW a, NEW b, NEW n \in Nat, NEW m \in Nat, NEW f, NEW g,
         Trail(f, base, loop, a, b, n), Trail(g, base, loop, a, b, m),
         NEW j \in Nat, j <= n, j <= m
  PROVE  f[j] = g[j]
<1> DEFINE S == {i \in Nat : i <= n /\ i <= m => f[i] = g[i]}
<1>1. 0 \in S
  BY DEF Trail
<1>2. ASSUME NEW i \in Nat, i \in S PROVE i + 1 \in S
  <2> SUFFICES ASSUME i + 1 <= n, i + 1 <= m PROVE f[i + 1] = g[i + 1]
    OBVIOUS
  <2>1. f[i] = g[i] /\ (i + 1) - 1 = i /\ i + 1 # 0
        /\ i + 1 \in 0 .. n /\ i + 1 \in 0 .. m
    BY <1>2
  <2>2. f[i + 1] = Sequel(loop, a, b, i + 1, f[i])
    BY <2>1 DEF Trail
  <2>3. g[i + 1] = Sequel(loop, a, b, i + 1, g[i])
    BY <2>1 DEF Trail
  <2>4. QED
    BY <2>1, <2>2, <2>3
<1> HIDE DEF S
<1>3. j \in S
  BY <1>1, <1>2, SetInduction
<1>4. QED
  BY <1>3 DEF S

(* The loop of the map. *)
LEMMA MapAllIs ==
  ASSUME NEW x, NEW final, Wanted(x, final) \in Nat
  PROVE  \E f : /\ f[0] = x
                /\ \A k \in 1 .. Wanted(x, final) : f[k] = MapNext(f[k - 1], final, x.emitted + k - 1)
                /\ MapAll(x, final) = f[Wanted(x, final)]
<1> DEFINE n == Wanted(x, final)
           Then(k, y) == MapNext(y, final, x.emitted + k - 1)
           F(f) == f = [k \in 0 .. n |-> IF k = 0 THEN x ELSE Then(k, f[k - 1])]
           f == CHOOSE f : F(f)
<1>1. MapAll(x, final) = f[n]
  BY DEF MapAll
<1>2. \A k, y : Sequel("map", final, x.emitted, k, y) = Then(k, y)
  BY DEF Sequel
<1> HIDE DEF n, Then
<1>3. ASSUME NEW g PROVE F(g) <=> Trail(g, x, "map", final, x.emitted, n)
  <2> DEFINE a == [k \in 0 .. n |-> IF k = 0 THEN x ELSE Then(k, g[k - 1])]
             b == [k \in 0 .. n |-> IF k = 0 THEN x
                                   ELSE Sequel("map", final, x.emitted, k, g[k - 1])]
  <2>1. a = b
    BY <1>2
  <2>2. QED
    BY <2>1, Zenon DEF Trail
<1>4. \E g : F(g)
  <2>1. PICK g : Trail(g, x, "map", final, x.emitted, n)
    BY TrailExists DEF n
  <2> HIDE DEF F
  <2>2. QED
    BY <1>3, <2>1
<1>5. F(f)
  <2> HIDE DEF F
  <2>1. QED
    BY <1>4
<1>6. f[0] = x /\ \A k \in 1 .. n : f[k] = Then(k, f[k - 1])
  <2> DEFINE g == f
  <2>1. g = [k \in 0 .. n |-> IF k = 0 THEN x ELSE Then(k, g[k - 1])]
    BY <1>5, Zenon
  <2> HIDE DEF g
  <2>2. g[0] = x /\ \A k \in 1 .. n : g[k] = Then(k, g[k - 1])
    <3>1. n \in Nat
      BY DEF n
    <3>2. g[0] = x
      BY <2>1, <3>1
    <3>3. ASSUME NEW k \in 1 .. n PROVE g[k] = Then(k, g[k - 1])
      <4>1. k \in 0 .. n /\ k # 0
        OBVIOUS
      <4>2. QED
        BY <2>1, <4>1
    <3>4. QED
      BY <3>2, <3>3
  <2>3. QED
    BY <2>2, Zenon DEF g
<1>7. QED
  <2> HIDE DEF F, f
  <2>1. QED
    BY <1>1, <1>6, Zenon DEF n, Then

(* The loop that drains up to a goal. *)
LEMMA DrainToIs ==
  ASSUME NEW x, NEW goal, goal - x.cleanup \in Nat
  PROVE  \E f : /\ f[0] = DrainRound(x, goal)
                /\ \A k \in 1 .. goal - x.cleanup : f[k] = DrainNext(f[k - 1], goal)
                /\ DrainTo(x, goal) = f[goal - x.cleanup]
<1> DEFINE n == goal - x.cleanup
           Then(k, y) == DrainNext(y, goal)
           F(f) == f = [k \in 0 .. n |-> IF k = 0 THEN DrainRound(x, goal) ELSE Then(k, f[k - 1])]
           f == CHOOSE f : F(f)
<1>1. DrainTo(x, goal) = f[n]
  BY DEF DrainTo
<1>2. \A k, y : Sequel("drain", goal, 0, k, y) = Then(k, y)
  BY DEF Sequel
<1> HIDE DEF n, Then
<1>3. ASSUME NEW g PROVE F(g) <=> Trail(g, DrainRound(x, goal), "drain", goal, 0, n)
  <2> DEFINE a == [k \in 0 .. n |-> IF k = 0 THEN DrainRound(x, goal) ELSE Then(k, g[k - 1])]
             b == [k \in 0 .. n |-> IF k = 0 THEN DrainRound(x, goal)
                                   ELSE Sequel("drain", goal, 0, k, g[k - 1])]
  <2>1. a = b
    BY <1>2
  <2>2. QED
    BY <2>1, Zenon DEF Trail
<1>4. \E g : F(g)
  <2>1. PICK g : Trail(g, DrainRound(x, goal), "drain", goal, 0, n)
    BY TrailExists DEF n
  <2> HIDE DEF F
  <2>2. QED
    BY <1>3, <2>1
<1>5. F(f)
  <2> HIDE DEF F
  <2>1. QED
    BY <1>4
<1>6. f[0] = DrainRound(x, goal) /\ \A k \in 1 .. n : f[k] = Then(k, f[k - 1])
  <2> DEFINE g == f
  <2>1. g = [k \in 0 .. n |-> IF k = 0 THEN DrainRound(x, goal) ELSE Then(k, g[k - 1])]
    BY <1>5, Zenon
  <2> HIDE DEF g
  <2>2. g[0] = DrainRound(x, goal) /\ \A k \in 1 .. n : g[k] = Then(k, g[k - 1])
    <3>1. n \in Nat
      BY DEF n
    <3>2. g[0] = DrainRound(x, goal)
      BY <2>1, <3>1
    <3>3. ASSUME NEW k \in 1 .. n PROVE g[k] = Then(k, g[k - 1])
      <4>1. k \in 0 .. n /\ k # 0
        OBVIOUS
      <4>2. QED
        BY <2>1, <4>1
    <3>4. QED
      BY <3>2, <3>3
  <2>3. QED
    BY <2>2, Zenon DEF g
<1>7. QED
  <2> HIDE DEF F, f
  <2>1. QED
    BY <1>1, <1>6, Zenon DEF n, Then

(* The windows that are complete, one after the other. *)
LEMMA WindowsIs ==
  ASSUME NEW x, Windows(x) \in Nat
  PROVE  \E f : /\ f[0] = x
                /\ \A k \in 1 .. Windows(x) : f[k] = WorkWindow(f[k - 1])
                /\ ProcessAvailable(x) = f[Windows(x)]
<1> DEFINE n == Windows(x)
           Then(k, y) == WorkWindow(y)
           F(f) == f = [k \in 0 .. n |-> IF k = 0 THEN x ELSE Then(k, f[k - 1])]
           f == CHOOSE f : F(f)
<1>1. ProcessAvailable(x) = f[n]
  BY DEF ProcessAvailable
<1>2. \A k, y : Sequel("windows", 0, 0, k, y) = Then(k, y)
  BY DEF Sequel
<1> HIDE DEF n, Then
<1>3. ASSUME NEW g PROVE F(g) <=> Trail(g, x, "windows", 0, 0, n)
  <2> DEFINE a == [k \in 0 .. n |-> IF k = 0 THEN x ELSE Then(k, g[k - 1])]
             b == [k \in 0 .. n |-> IF k = 0 THEN x
                                   ELSE Sequel("windows", 0, 0, k, g[k - 1])]
  <2>1. a = b
    BY <1>2
  <2>2. QED
    BY <2>1, Zenon DEF Trail
<1>4. \E g : F(g)
  <2>1. PICK g : Trail(g, x, "windows", 0, 0, n)
    BY TrailExists DEF n
  <2> HIDE DEF F
  <2>2. QED
    BY <1>3, <2>1
<1>5. F(f)
  <2> HIDE DEF F
  <2>1. QED
    BY <1>4
<1>6. f[0] = x /\ \A k \in 1 .. n : f[k] = Then(k, f[k - 1])
  <2> DEFINE g == f
  <2>1. g = [k \in 0 .. n |-> IF k = 0 THEN x ELSE Then(k, g[k - 1])]
    BY <1>5, Zenon
  <2> HIDE DEF g
  <2>2. g[0] = x /\ \A k \in 1 .. n : g[k] = Then(k, g[k - 1])
    <3>1. n \in Nat
      BY DEF n
    <3>2. g[0] = x
      BY <2>1, <3>1
    <3>3. ASSUME NEW k \in 1 .. n PROVE g[k] = Then(k, g[k - 1])
      <4>1. k \in 0 .. n /\ k # 0
        OBVIOUS
      <4>2. QED
        BY <2>1, <4>1
    <3>4. QED
      BY <3>2, <3>3
  <2>3. QED
    BY <2>2, Zenon DEF g
<1>7. QED
  <2> HIDE DEF F, f
  <2>1. QED
    BY <1>1, <1>6, Zenon DEF n, Then

(* The zeros that a flush feeds. *)
LEMMA FeedIs ==
  ASSUME NEW x, NEW guard, guard \in Nat
  PROVE  \E f : /\ f[0] = x
                /\ \A k \in 1 .. guard : f[k] = FeedZero(f[k - 1])
                /\ Feed(x, guard) = f[guard]
<1> DEFINE n == guard
           Then(k, y) == FeedZero(y)
           F(f) == f = [k \in 0 .. n |-> IF k = 0 THEN x ELSE Then(k, f[k - 1])]
           f == CHOOSE f : F(f)
<1>1. Feed(x, guard) = f[n]
  BY DEF Feed
<1>2. \A k, y : Sequel("feed", 0, 0, k, y) = Then(k, y)
  BY DEF Sequel
<1> HIDE DEF n, Then
<1>3. ASSUME NEW g PROVE F(g) <=> Trail(g, x, "feed", 0, 0, n)
  <2> DEFINE a == [k \in 0 .. n |-> IF k = 0 THEN x ELSE Then(k, g[k - 1])]
             b == [k \in 0 .. n |-> IF k = 0 THEN x
                                   ELSE Sequel("feed", 0, 0, k, g[k - 1])]
  <2>1. a = b
    BY <1>2
  <2>2. QED
    BY <2>1, Zenon DEF Trail
<1>4. \E g : F(g)
  <2>1. PICK g : Trail(g, x, "feed", 0, 0, n)
    BY TrailExists DEF n
  <2> HIDE DEF F
  <2>2. QED
    BY <1>3, <2>1
<1>5. F(f)
  <2> HIDE DEF F
  <2>1. QED
    BY <1>4
<1>6. f[0] = x /\ \A k \in 1 .. n : f[k] = Then(k, f[k - 1])
  <2> DEFINE g == f
  <2>1. g = [k \in 0 .. n |-> IF k = 0 THEN x ELSE Then(k, g[k - 1])]
    BY <1>5, Zenon
  <2> HIDE DEF g
  <2>2. g[0] = x /\ \A k \in 1 .. n : g[k] = Then(k, g[k - 1])
    <3>1. n \in Nat
      BY DEF n
    <3>2. g[0] = x
      BY <2>1, <3>1
    <3>3. ASSUME NEW k \in 1 .. n PROVE g[k] = Then(k, g[k - 1])
      <4>1. k \in 0 .. n /\ k # 0
        OBVIOUS
      <4>2. QED
        BY <2>1, <4>1
    <3>4. QED
      BY <3>2, <3>3
  <2>3. QED
    BY <2>2, Zenon DEF g
<1>7. QED
  <2> HIDE DEF F, f
  <2>1. QED
    BY <1>1, <1>6, Zenon DEF n, Then

(* The ramps of an offset. *)
LEMMA RampedIs ==
  ASSUME NEW x, NEW batch, NEW o, Len(batch) \in Nat
  PROVE  \E f : /\ f[0] = x
                /\ \A k \in 1 .. Len(batch) : f[k] = RampAt(f[k - 1], batch[k], o)
                /\ Ramped(x, batch, o) = f[Len(batch)]
<1> DEFINE n == Len(batch)
           Then(k, y) == RampAt(y, batch[k], o)
           F(f) == f = [k \in 0 .. n |-> IF k = 0 THEN x ELSE Then(k, f[k - 1])]
           f == CHOOSE f : F(f)
<1>1. Ramped(x, batch, o) = f[n]
  BY DEF Ramped
<1>2. \A k, y : Sequel("ramps", batch, o, k, y) = Then(k, y)
  BY DEF Sequel
<1> HIDE DEF n, Then
<1>3. ASSUME NEW g PROVE F(g) <=> Trail(g, x, "ramps", batch, o, n)
  <2> DEFINE a == [k \in 0 .. n |-> IF k = 0 THEN x ELSE Then(k, g[k - 1])]
             b == [k \in 0 .. n |-> IF k = 0 THEN x
                                   ELSE Sequel("ramps", batch, o, k, g[k - 1])]
  <2>1. a = b
    BY <1>2
  <2>2. QED
    BY <2>1, Zenon DEF Trail
<1>4. \E g : F(g)
  <2>1. PICK g : Trail(g, x, "ramps", batch, o, n)
    BY TrailExists DEF n
  <2> HIDE DEF F
  <2>2. QED
    BY <1>3, <2>1
<1>5. F(f)
  <2> HIDE DEF F
  <2>1. QED
    BY <1>4
<1>6. f[0] = x /\ \A k \in 1 .. n : f[k] = Then(k, f[k - 1])
  <2> DEFINE g == f
  <2>1. g = [k \in 0 .. n |-> IF k = 0 THEN x ELSE Then(k, g[k - 1])]
    BY <1>5, Zenon
  <2> HIDE DEF g
  <2>2. g[0] = x /\ \A k \in 1 .. n : g[k] = Then(k, g[k - 1])
    <3>1. n \in Nat
      BY DEF n
    <3>2. g[0] = x
      BY <2>1, <3>1
    <3>3. ASSUME NEW k \in 1 .. n PROVE g[k] = Then(k, g[k - 1])
      <4>1. k \in 0 .. n /\ k # 0
        OBVIOUS
      <4>2. QED
        BY <2>1, <4>1
    <3>4. QED
      BY <3>2, <3>3
  <2>3. QED
    BY <2>2, Zenon DEF g
<1>7. QED
  <2> HIDE DEF F, f
  <2>1. QED
    BY <1>1, <1>6, Zenon DEF n, Then

(* The frames of a push. *)
Pushes(f, x, size, batch, steps) ==
  /\ f[0] = Outcome(x, "ok", 0)
  /\ \A k \in 1 .. size : f[k] = PushNext(f[k - 1], batch, steps)
  /\ PushFrames(x, size, batch, steps) = f[size]

LEMMA PushFramesIs ==
  ASSUME NEW x, NEW size, NEW batch, NEW steps, size \in Nat
  PROVE  \E f : Pushes(f, x, size, batch, steps)
<1> DEFINE n == size
           Then(k, y) == PushNext(y, batch, steps)
           F(f) == f = [k \in 0 .. n |-> IF k = 0 THEN Outcome(x, "ok", 0) ELSE Then(k, f[k - 1])]
           f == CHOOSE f : F(f)
<1>1. PushFrames(x, size, batch, steps) = f[n]
  BY DEF PushFrames
<1>2. \A k, y : Sequel("push", batch, steps, k, y) = Then(k, y)
  BY DEF Sequel
<1> HIDE DEF n, Then
<1>3. ASSUME NEW g PROVE F(g) <=> Trail(g, Outcome(x, "ok", 0), "push", batch, steps, n)
  <2> DEFINE a == [k \in 0 .. n |-> IF k = 0 THEN Outcome(x, "ok", 0) ELSE Then(k, g[k - 1])]
             b == [k \in 0 .. n |-> IF k = 0 THEN Outcome(x, "ok", 0)
                                   ELSE Sequel("push", batch, steps, k, g[k - 1])]
  <2>1. a = b
    BY <1>2
  <2>2. QED
    BY <2>1, Zenon DEF Trail
<1>4. \E g : F(g)
  <2>1. PICK g : Trail(g, Outcome(x, "ok", 0), "push", batch, steps, n)
    BY TrailExists DEF n
  <2> HIDE DEF F
  <2>2. QED
    BY <1>3, <2>1
<1>5. F(f)
  <2> HIDE DEF F
  <2>1. QED
    BY <1>4
<1>6. f[0] = Outcome(x, "ok", 0) /\ \A k \in 1 .. n : f[k] = Then(k, f[k - 1])
  <2> DEFINE g == f
  <2>1. g = [k \in 0 .. n |-> IF k = 0 THEN Outcome(x, "ok", 0) ELSE Then(k, g[k - 1])]
    BY <1>5, Zenon
  <2> HIDE DEF g
  <2>2. g[0] = Outcome(x, "ok", 0) /\ \A k \in 1 .. n : g[k] = Then(k, g[k - 1])
    <3>1. n \in Nat
      BY DEF n
    <3>2. g[0] = Outcome(x, "ok", 0)
      BY <2>1, <3>1
    <3>3. ASSUME NEW k \in 1 .. n PROVE g[k] = Then(k, g[k - 1])
      <4>1. k \in 0 .. n /\ k # 0
        OBVIOUS
      <4>2. QED
        BY <2>1, <4>1
    <3>4. QED
      BY <3>2, <3>3
  <2>3. QED
    BY <2>2, Zenon DEF g
<1>7. QED
  <2> HIDE DEF F, f
  <2>1. QED
    BY <1>1, <1>6, Zenon DEF n, Then, Pushes

(* The plans of a batch. *)
LEMMA LeadsAre ==
  ASSUME NEW x, NEW batch, Len(batch) \in Nat
  PROVE  \E f : /\ f[0] = x
                /\ \A k \in 1 .. Len(batch) : f[k] = RampPlan(After(f[k - 1], batch[k].at - Cursor(batch, k - 1)), batch[k])
                /\ Leads(x, batch) = f
<1> DEFINE n == Len(batch)
           Then(k, y) == RampPlan(After(y, batch[k].at - Cursor(batch, k - 1)), batch[k])
           F(f) == f = [k \in 0 .. n |-> IF k = 0 THEN x ELSE Then(k, f[k - 1])]
           f == CHOOSE f : F(f)
<1>1. Leads(x, batch) = f
  BY DEF Leads
<1>2. \A k, y : Sequel("leads", batch, 0, k, y) = Then(k, y)
  BY DEF Sequel
<1> HIDE DEF n, Then
<1>3. ASSUME NEW g PROVE F(g) <=> Trail(g, x, "leads", batch, 0, n)
  <2> DEFINE a == [k \in 0 .. n |-> IF k = 0 THEN x ELSE Then(k, g[k - 1])]
             b == [k \in 0 .. n |-> IF k = 0 THEN x
                                   ELSE Sequel("leads", batch, 0, k, g[k - 1])]
  <2>1. a = b
    BY <1>2
  <2>2. QED
    BY <2>1, Zenon DEF Trail
<1>4. \E g : F(g)
  <2>1. PICK g : Trail(g, x, "leads", batch, 0, n)
    BY TrailExists DEF n
  <2> HIDE DEF F
  <2>2. QED
    BY <1>3, <2>1
<1>5. F(f)
  <2> HIDE DEF F
  <2>1. QED
    BY <1>4
<1>6. f[0] = x /\ \A k \in 1 .. n : f[k] = Then(k, f[k - 1])
  <2> DEFINE g == f
  <2>1. g = [k \in 0 .. n |-> IF k = 0 THEN x ELSE Then(k, g[k - 1])]
    BY <1>5, Zenon
  <2> HIDE DEF g
  <2>2. g[0] = x /\ \A k \in 1 .. n : g[k] = Then(k, g[k - 1])
    <3>1. n \in Nat
      BY DEF n
    <3>2. g[0] = x
      BY <2>1, <3>1
    <3>3. ASSUME NEW k \in 1 .. n PROVE g[k] = Then(k, g[k - 1])
      <4>1. k \in 0 .. n /\ k # 0
        OBVIOUS
      <4>2. QED
        BY <2>1, <4>1
    <3>4. QED
      BY <3>2, <3>3
  <2>3. QED
    BY <2>2, Zenon DEF g
<1>7. QED
  <2> HIDE DEF F, f
  <2>1. QED
    BY <1>1, <1>6, Zenon DEF n, Then

(* The events of a realtime block. *)
Hears(f, x, size, batch, steps, explicit) ==
  /\ f[0] = x
  /\ \A k \in 1 .. Len(batch) :
       f[k] = Heard(Upto(f[k - 1], batch[k].at, steps), batch[k], explicit)
  /\ RealtimeBlock(x, size, batch, steps, explicit) = Upto(f[Len(batch)], size, steps)

LEMMA RealtimeIs ==
  ASSUME NEW x, NEW size, NEW batch, NEW steps, NEW explicit, Len(batch) \in Nat
  PROVE  \E f : Hears(f, x, size, batch, steps, explicit)
<1> DEFINE n == Len(batch)
           Then(k, y) == Heard(Upto(y, batch[k].at, steps), batch[k], explicit)
           F(f) == f = [k \in 0 .. n |-> IF k = 0 THEN x ELSE Then(k, f[k - 1])]
           f == CHOOSE f : F(f)
           both == [batch |-> batch, explicit |-> explicit]
<1>1. RealtimeBlock(x, size, batch, steps, explicit) = Upto(f[n], size, steps)
  BY DEF RealtimeBlock
<1>2. \A k, y : Sequel("events", both, steps, k, y) = Then(k, y)
  BY DEF Sequel
<1> HIDE DEF n, Then, both
<1>3. ASSUME NEW g PROVE F(g) <=> Trail(g, x, "events", both, steps, n)
  <2> DEFINE a == [k \in 0 .. n |-> IF k = 0 THEN x ELSE Then(k, g[k - 1])]
             b == [k \in 0 .. n |-> IF k = 0 THEN x
                                   ELSE Sequel("events", both, steps, k, g[k - 1])]
  <2>1. a = b
    BY <1>2
  <2>2. QED
    BY <2>1, Zenon DEF Trail
<1>4. \E g : F(g)
  <2>1. PICK g : Trail(g, x, "events", both, steps, n)
    BY TrailExists DEF n
  <2> HIDE DEF F
  <2>2. QED
    BY <1>3, <2>1
<1>5. F(f)
  <2> HIDE DEF F
  <2>1. QED
    BY <1>4
<1>6. f[0] = x /\ \A k \in 1 .. n : f[k] = Then(k, f[k - 1])
  <2> DEFINE g == f
  <2>1. g = [k \in 0 .. n |-> IF k = 0 THEN x ELSE Then(k, g[k - 1])]
    BY <1>5, Zenon
  <2> HIDE DEF g
  <2>2. g[0] = x /\ \A k \in 1 .. n : g[k] = Then(k, g[k - 1])
    <3>1. n \in Nat
      BY DEF n
    <3>2. g[0] = x
      BY <2>1, <3>1
    <3>3. ASSUME NEW k \in 1 .. n PROVE g[k] = Then(k, g[k - 1])
      <4>1. k \in 0 .. n /\ k # 0
        OBVIOUS
      <4>2. QED
        BY <2>1, <4>1
    <3>4. QED
      BY <3>2, <3>3
  <2>3. QED
    BY <2>2, Zenon DEF g
<1>7. QED
  <2> HIDE DEF F, f
  <2>1. QED
    BY <1>1, <1>6, Zenon DEF n, Then, Hears

(* The plan after some ticks. *)
LEMMA AfterIs ==
  ASSUME NEW plan
  PROVE  /\ After(plan, 0) = plan
         /\ \A n \in Nat : After(plan, n + 1) = TickedPlan(After(plan, n))
<1>1. \A m \in Nat : \E f : Trail(f, plan, "after", 0, 0, m) /\ After(plan, m) = f[m]
  <2> SUFFICES ASSUME NEW m \in Nat
               PROVE  \E f : Trail(f, plan, "after", 0, 0, m) /\ After(plan, m) = f[m]
    OBVIOUS
  <2> DEFINE F(f) == f = [k \in 0 .. m |-> IF k = 0 THEN plan ELSE TickedPlan(f[k - 1])]
             f == CHOOSE f : F(f)
  <2>1. After(plan, m) = f[m]
    BY DEF After
  <2>2. \A k, y : Sequel("after", 0, 0, k, y) = TickedPlan(y)
    BY DEF Sequel
  <2>3. ASSUME NEW g PROVE F(g) <=> Trail(g, plan, "after", 0, 0, m)
    <3> DEFINE a == [k \in 0 .. m |-> IF k = 0 THEN plan ELSE TickedPlan(g[k - 1])]
               b == [k \in 0 .. m |-> IF k = 0 THEN plan
                                     ELSE Sequel("after", 0, 0, k, g[k - 1])]
    <3>1. a = b
      BY <2>2
    <3>2. QED
      BY <3>1, Zenon DEF Trail
  <2> HIDE DEF F
  <2>4. \E g : F(g)
    <3>1. PICK g : Trail(g, plan, "after", 0, 0, m)
      BY TrailExists
    <3>2. QED
      BY <2>3, <3>1
  <2>5. F(f)
    BY <2>4
  <2>6. QED
    BY <2>1, <2>3, <2>5, Zenon
<1>2. After(plan, 0) = plan
  <2>1. PICK f : Trail(f, plan, "after", 0, 0, 0) /\ After(plan, 0) = f[0]
    BY <1>1
  <2>2. QED
    BY <2>1 DEF Trail
<1>3. ASSUME NEW n \in Nat PROVE After(plan, n + 1) = TickedPlan(After(plan, n))
  <2>1. PICK f : Trail(f, plan, "after", 0, 0, n) /\ After(plan, n) = f[n]
    BY <1>1
  <2>2. PICK g : Trail(g, plan, "after", 0, 0, n + 1) /\ After(plan, n + 1) = g[n + 1]
    BY <1>1
  <2>3. f[n] = g[n]
    BY <2>1, <2>2, TrailUnique
  <2>4. g[n + 1] = Sequel("after", 0, 0, n + 1, g[n])
    <3>1. n + 1 \in 0 .. n + 1 /\ n + 1 # 0 /\ (n + 1) - 1 = n
      OBVIOUS
    <3>2. QED
      BY <2>2, <3>1 DEF Trail
  <2>5. Sequel("after", 0, 0, n + 1, g[n]) = TickedPlan(g[n])
    BY DEF Sequel
  <2>6. QED
    BY <2>1, <2>2, <2>3, <2>4, <2>5
<1>4. QED
  BY <1>2, <1>3

-----------------------------------------------------------------------------
(* Ramps and plans. *)

Ratios == {v \in Nat : Unit <= 2 * v /\ v <= 2 * Unit}
Ramps ==
  {r \in [value : Ratios, target : Ratios, origin : Ratios, left : Nat, total : Nat] :
     r.left <= r.total}
Plans == [pitch : Ramps, time : Ramps]
Orders == [at : Nat, of : {"pitch", "time"}, to : Ratios, over : Nat]

(* How high a ramp still goes. *)
Reach(r) == Greater(r.value, r.target)

LEMMA SizesAre ==
  /\ Unit \in Nat /\ Unit > 0 /\ Frame \in Nat /\ Frame > 0 /\ Nodes \in Nat /\ Nodes > 0
  /\ N \in Nat /\ Hop \in Nat /\ Hop > 0 /\ Half \in Nat /\ PvCap \in Nat
  /\ FifoCap \in Nat /\ InCap \in Nat /\ StepsPerInput \in Nat /\ FlushGuard \in Nat
  /\ Reserve \in Nat /\ RampFrames \in Nat
  /\ Crop \in Nat /\ Hop <= Crop /\ N = 2 * Crop
<1>1. Unit \in Nat \ {0} /\ Nodes \in Nat \ {0} /\ Hop \in Nat \ {0}
  BY SpectralSizes
<1>2. /\ N \in Nat /\ Half \in Nat /\ PvCap \in Nat
      /\ FifoCap \in Nat /\ InCap \in Nat /\ StepsPerInput \in Nat /\ FlushGuard \in Nat
      /\ Reserve \in Nat /\ RampFrames \in Nat
  BY SpectralSizes
<1>3. Frame \in Nat /\ Frame > 0
  <2>1. \A u \in Nat : u > 0 => u * u \in Nat /\ u * u > 0
    OBVIOUS
  <2>2. QED
    BY <1>1, <2>1 DEF Frame
<1>4. Crop \in Nat /\ Hop <= Crop /\ N = 2 * Crop
  BY <1>1, <1>2, SpectralSizes DEF Crop
<1>5. QED
  BY <1>1, <1>2, <1>3, <1>4

LEMMA SteadyIs ==
  ASSUME NEW v \in Ratios
  PROVE  Steady(v) \in Ramps /\ Reach(Steady(v)) = v /\ Steady(v).target = v
BY DEF Steady, Ramps, Reach, Greater, Ratios

(* A ramp that starts goes no higher than it was or is to end. *)
LEMMA StartedIs ==
  ASSUME NEW r \in Ramps, NEW v \in Ratios, NEW frames \in Nat
  PROVE  /\ Started(r, v, frames) \in Ramps
         /\ Started(r, v, frames).target = v
         /\ Reach(Started(r, v, frames)) = v \/ Reach(Started(r, v, frames)) = r.value
<1>1. r \in [value : Ratios, target : Ratios, origin : Ratios, left : Nat, total : Nat]
  BY DEF Ramps
<1>2. CASE frames = 0
  <2>1. Started(r, v, frames)
          = [value |-> v, target |-> v, origin |-> r.value, left |-> 0, total |-> 0]
    BY <1>2 DEF Started, Steady
  <2>2. QED
    BY <1>1, <2>1 DEF Ramps, Reach, Greater, Ratios
<1>3. CASE frames # 0
  <2>1. Started(r, v, frames)
          = [value |-> r.value, target |-> v, origin |-> r.value, left |-> frames,
             total |-> frames]
    BY <1>1, <1>3 DEF Started
  <2>2. QED
    BY <1>1, <2>1 DEF Ramps, Reach, Greater, Ratios
<1>4. QED
  BY <1>2, <1>3

(* A tick takes a ramp nowhere but between where it is and its target.     *)
LEMMA TickedIs ==
  ASSUME NEW r \in Ramps
  PROVE  /\ Ticked(r) \in Ramps /\ Ticked(r).target = r.target
         /\ Reach(Ticked(r)) <= Reach(r)
         /\ r.left = 0 => Ticked(r) = r
<1>1. /\ r \in [value : Ratios, target : Ratios, origin : Ratios, left : Nat, total : Nat]
      /\ r.left <= r.total
  BY DEF Ramps
<1>2. CASE r.left = 0
  <2>1. Ticked(r) = r
    BY <1>2 DEF Ticked
  <2>2. QED
    BY <1>1, <2>1 DEF Reach, Greater, Ratios
<1>3. CASE r.left # 0
  <2> DEFINE done == r.total - r.left + 1
             next == IF r.left = 1 THEN r.target
                     ELSE r.origin + ((r.target - r.origin) * done) \div r.total
             value == Greater(Lesser(r.value, r.target),
                              Lesser(Greater(r.value, r.target), next))
  <2>1. Ticked(r) = [r EXCEPT !.left = @ - 1, !.value = value]
    BY <1>3 DEF Ticked
  <2>2. next \in Int
    <3> DEFINE part == (r.target - r.origin) * done
    <3>1. part \in Int /\ r.total \in Nat /\ r.total > 0
      BY <1>1, <1>3 DEF Ratios
    <3> HIDE DEF part, done
    <3>2. part \div r.total \in Int
      BY <3>1
    <3>3. QED
      BY <1>1, <3>2 DEF part, Ratios
  <2> HIDE DEF next
  <2>3. r.value \in Ratios /\ r.target \in Ratios
    BY <1>1
  <2>4. value \in Int /\ (r.value <= value \/ r.target <= value)
        /\ value <= Reach(r)
    BY <2>2, <2>3 DEF Greater, Lesser, Reach, Ratios
  <2> HIDE DEF value
  <2>5. Reach(r) \in Ratios
    BY <2>3 DEF Reach, Greater, Ratios
  <2>6. value \in Ratios
    BY <2>3, <2>4, <2>5, SizesAre DEF Ratios
  <2>7. Ticked(r) = [value |-> value, target |-> r.target, origin |-> r.origin,
                     left |-> r.left - 1, total |-> r.total]
    BY <1>1, <2>1
  <2>8. Ticked(r) \in Ramps
    BY <1>1, <1>3, <2>6, <2>7 DEF Ramps
  <2>9. Reach(Ticked(r)) <= Reach(r)
    BY <2>3, <2>4, <2>6, <2>7 DEF Reach, Greater, Ratios
  <2>10. QED
    BY <1>3, <2>7, <2>8, <2>9
<1>4. QED
  BY <1>2, <1>3

(* What the plan's ramps still reach, taken together, is safe. *)
LEMMA SafeIs ==
  ASSUME NEW p \in Plans
  PROVE  Safe(p) <=> Reach(p.pitch) * Reach(p.time) <= 2 * Frame
BY DEF Safe, Reach

LEMMA TickedPlanIs ==
  ASSUME NEW p \in Plans
  PROVE  /\ TickedPlan(p) \in Plans
         /\ TickedPlan(p).pitch.target = p.pitch.target
         /\ TickedPlan(p).time.target = p.time.target
         /\ p.time.left = 0 => TickedPlan(p).time = p.time
         /\ Safe(p) => Safe(TickedPlan(p))
<1>1. p.pitch \in Ramps /\ p.time \in Ramps
  BY DEF Plans
<1>2. /\ TickedPlan(p).pitch = Ticked(p.pitch) /\ TickedPlan(p).time = Ticked(p.time)
      /\ TickedPlan(p) \in Plans
  BY <1>1, TickedIs DEF TickedPlan, Plans
<1>3. Safe(p) => Safe(TickedPlan(p))
  <2> DEFINE a == Reach(Ticked(p.pitch))
             b == Reach(Ticked(p.time))
             c == Reach(p.pitch)
             d == Reach(p.time)
  <2>1. a \in Nat /\ b \in Nat /\ c \in Nat /\ d \in Nat /\ a <= c /\ b <= d
    <3>1. \A r \in Ramps : Reach(r) \in Nat
      BY DEF Ramps, Reach, Greater, Ratios
    <3>2. QED
      BY <1>1, <3>1, TickedIs
  <2> HIDE DEF a, b, c, d
  <2>2. a * b <= c * d /\ a * b \in Nat /\ c * d \in Nat
    BY <2>1, ProductGrows
  <2>3. Safe(p) <=> c * d <= 2 * Frame
    BY SafeIs DEF c, d
  <2>4. Safe(TickedPlan(p)) <=> a * b <= 2 * Frame
    BY <1>2, SafeIs DEF a, b
  <2>5. QED
    BY <2>2, <2>3, <2>4, SizesAre
<1>4. QED
  BY <1>1, <1>2, <1>3, TickedIs

LEMMA RampPlanIs ==
  ASSUME NEW p \in Plans, NEW r \in Orders
  PROVE  /\ RampPlan(p, r) \in Plans
         /\ r.of = "pitch" => /\ RampPlan(p, r).pitch.target = r.to
                              /\ RampPlan(p, r).time = p.time
         /\ r.of = "time" => /\ RampPlan(p, r).time.target = r.to
                             /\ RampPlan(p, r).pitch = p.pitch
<1>1. p.pitch \in Ramps /\ p.time \in Ramps /\ r.to \in Ratios /\ r.over \in Nat
  BY DEF Plans, Orders
<1>2. CASE r.of = "pitch"
  <2> DEFINE started == Started(p.pitch, r.to, r.over)
  <2>1. started \in Ramps /\ started.target = r.to
    BY <1>1, StartedIs
  <2>2. RampPlan(p, r) = [p EXCEPT !.pitch = started]
    BY <1>2 DEF RampPlan
  <2> HIDE DEF started
  <2>3. RampPlan(p, r) = [pitch |-> started, time |-> p.time]
    BY <2>2 DEF Plans
  <2>4. QED
    BY <1>1, <1>2, <2>1, <2>3 DEF Plans
<1>3. CASE r.of = "time"
  <2> DEFINE started == Started(p.time, r.to, r.over)
  <2>1. started \in Ramps /\ started.target = r.to
    BY <1>1, StartedIs
  <2>2. RampPlan(p, r) = [p EXCEPT !.time = started]
    BY <1>3 DEF RampPlan
  <2> HIDE DEF started
  <2>3. RampPlan(p, r) = [pitch |-> p.pitch, time |-> started]
    BY <2>2 DEF Plans
  <2>4. QED
    BY <1>1, <1>3, <2>1, <2>3 DEF Plans
<1>4. QED
  BY <1>2, <1>3 DEF Orders

(* Gliding to a pitch that is safe by itself is safe while time stays.     *)
LEMMA GlidedIs ==
  ASSUME NEW p \in Plans, NEW v \in Ratios, NEW begun
  PROVE  /\ Glided(p, v, begun) \in Plans
         /\ Glided(p, v, begun).pitch.target = v
         /\ Glided(p, v, begun).time = p.time
         /\ Safe(p) /\ v * Reach(p.time) <= 2 * Frame => Safe(Glided(p, v, begun))
<1>1. p.pitch \in Ramps /\ p.time \in Ramps
  BY DEF Plans
<1>2. CASE p.pitch.target = v
  BY <1>2, Zenon DEF Glided
<1>3. CASE p.pitch.target # v
  <2> DEFINE over == IF begun THEN RampFrames ELSE 0
             started == Started(p.pitch, v, over)
  <2>1. over \in Nat
    <3>1. CASE begun
      BY <3>1, SizesAre, Zenon
    <3>2. CASE ~begun
      BY <3>2, Zenon
    <3>3. QED
      BY <3>1, <3>2, Zenon
  <2>2. Glided(p, v, begun) = [p EXCEPT !.pitch = started]
    BY <1>3, Zenon DEF Glided
  <2> HIDE DEF over
  <2>3. /\ started \in Ramps /\ started.target = v
        /\ Reach(started) = v \/ Reach(started) = p.pitch.value
    BY <1>1, <2>1, StartedIs
  <2> HIDE DEF started
  <2>4. Glided(p, v, begun) = [pitch |-> started, time |-> p.time]
    BY <2>2 DEF Plans
  <2> DEFINE g == [pitch |-> started, time |-> p.time]
  <2>5. g \in Plans
    BY <1>1, <2>3 DEF Plans
  <2>6. ASSUME Safe(p), v * Reach(p.time) <= 2 * Frame PROVE Safe(g)
    <3> DEFINE a == p.pitch.value
               b == Reach(p.time)
               c == Reach(p.pitch)
    <3>1. a \in Nat /\ b \in Nat /\ c \in Nat /\ a <= c
      BY <1>1 DEF Ramps, Reach, Greater, Ratios
    <3>2. c * b <= 2 * Frame
      BY <2>6, SafeIs
    <3>0. g.pitch = started /\ g.time = p.time
      OBVIOUS
    <3> HIDE DEF g
    <3>3. Safe(g) <=> Reach(started) * Reach(p.time) <= 2 * Frame
      BY <2>5, <3>0, SafeIs
    <3>4. Reach(started) = v \/ Reach(started) = a
      BY <2>3
    <3>5. v * b <= 2 * Frame
      BY <2>6
    <3> HIDE DEF a, c
    <3>6. Safe(g) <=> Reach(started) * b <= 2 * Frame
      BY <3>3
    <3> HIDE DEF b
    <3>7. a * b <= c * b /\ a * b \in Nat /\ c * b \in Nat
      BY <3>1, ProductGrows
    <3>8. QED
      BY <3>2, <3>4, <3>5, <3>6, <3>7, SizesAre
  <2>7. /\ g.pitch = started /\ g.time = p.time
    OBVIOUS
  <2> HIDE DEF g
  <2>8. Glided(p, v, begun) = g
    BY <2>4 DEF g
  <2>9. QED
    BY <2>3, <2>5, <2>6, <2>7, <2>8, Zenon
<1>4. QED
  BY <1>2, <1>3, Zenon

-----------------------------------------------------------------------------
(* The map. *)

Points == [position : Int, pitch : Int, output : Int]

(* A map with every point of its window. *)
Chart(line) ==
  /\ DOMAIN line = {"plan", "written", "position", "output", "nodes"}
  /\ line.plan \in Plans /\ line.written \in Nat /\ line.position \in Nat
  /\ line.output \in Int
  /\ \A i \in 0 .. line.written : line.written - i < Nodes => i \in DOMAIN line.nodes
  /\ \A i \in DOMAIN line.nodes : line.nodes[i] \in Points

LEMMA AtIs ==
  ASSUME NEW line, Chart(line), NEW i \in Nat, Has(line, i)
  PROVE  At(line, i) \in Points
BY DEF Chart, Has, At

LEMMA NewTimelineIs ==
  ASSUME NEW pitch \in Ratios, NEW time \in Ratios
  PROVE  /\ Chart(NewTimeline(pitch, time)) /\ NewTimeline(pitch, time).written = 0
         /\ NewTimeline(pitch, time).plan
              = [pitch |-> Steady(pitch), time |-> Steady(time)]
<1> DEFINE line == NewTimeline(pitch, time)
           plan == [pitch |-> Steady(pitch), time |-> Steady(time)]
           nodes == [i \in {0} |-> Node(0, pitch, 0)]
<1>1. plan \in Plans
  BY SteadyIs DEF Plans
<1>2. Node(0, pitch, 0) \in Points
  BY DEF Node, Points, Ratios
<1>3. DOMAIN nodes = {0} /\ nodes[0] = Node(0, pitch, 0)
  OBVIOUS
<1> HIDE DEF plan, nodes
<1>4. line = [plan |-> plan, written |-> 0, position |-> 0, output |-> 0, nodes |-> nodes]
  BY DEF NewTimeline, plan, nodes
<1> HIDE DEF line
<1>5. Chart(line) /\ line.written = 0 /\ line.plan = plan
  BY <1>1, <1>2, <1>3, <1>4 DEF Chart
<1>6. QED
  BY <1>5 DEF line, plan

(* One frame more, and its point.                                          *)
LEMMA AppendedIs ==
  ASSUME NEW line, Chart(line), NEW advance
  PROVE  /\ Chart(Appended(line, advance))
         /\ Appended(line, advance).written = line.written + 1
         /\ Appended(line, advance).plan
              = IF advance THEN TickedPlan(line.plan) ELSE line.plan
<1> DEFINE plan == IF advance THEN TickedPlan(line.plan) ELSE line.plan
           pitch == plan.pitch.value
           position == line.position + plan.time.value * pitch
           output == line.output + plan.time.value * Unit
           n == line.written
           kept == {i \in DOMAIN line.nodes : i < n /\ n + 1 - i < Nodes}
           first == Node(line.position, pitch, line.output)
           next == Node(position, pitch, output)
           nodes == [i \in kept \cup {n, n + 1} |->
                       IF i < n THEN line.nodes[i] ELSE IF i = n THEN first ELSE next]
           more == Appended(line, advance)
<1>1. plan \in Plans
  <2>1. CASE advance
    BY <2>1, TickedPlanIs, Zenon DEF Chart
  <2>2. CASE ~advance
    BY <2>2, Zenon DEF Chart
  <2>3. QED
    BY <2>1, <2>2, Zenon
<1>2. more = [plan |-> plan, written |-> n + 1, position |-> position,
              output |-> output, nodes |-> nodes]
  BY Zenon DEF Appended
<1> HIDE DEF plan, more
<1>3. position \in Nat /\ output \in Int /\ pitch \in Int
  <2> DEFINE time == plan.time.value
  <2>1. time \in Nat /\ pitch \in Nat /\ line.position \in Nat /\ line.output \in Int
    BY <1>1 DEF Plans, Ramps, Ratios, Chart
  <2> HIDE DEF time, pitch
  <2>2. time * pitch \in Nat /\ time * Unit \in Nat
    BY <2>1, SizesAre
  <2> DEFINE a == time * pitch
             b == time * Unit
  <2>3. position = line.position + a /\ output = line.output + b
    BY DEF time
  <2> HIDE DEF position, output
  <2>4. a \in Nat /\ b \in Nat
    BY <2>2
  <2> HIDE DEF a, b
  <2>5. QED
    BY <2>1, <2>3, <2>4
<1> HIDE DEF position, output, pitch
<1>4. first \in Points /\ next \in Points
  BY <1>3 DEF Node, Points, Chart
<1> HIDE DEF first, next
<1>5. n \in Nat /\ DOMAIN nodes = kept \cup {n, n + 1}
  BY DEF Chart
<1>6. ASSUME NEW i \in DOMAIN nodes PROVE nodes[i] \in Points
  <2>1. i \in kept \cup {n, n + 1}
    BY <1>5
  <2>2. CASE i \in kept
    BY <2>2, <1>4 DEF Chart
  <2>3. CASE i \in {n, n + 1}
    BY <2>3, <1>4, <1>5
  <2>4. QED
    BY <2>1, <2>2, <2>3
<1>7. ASSUME NEW i \in 0 .. n + 1, n + 1 - i < Nodes PROVE i \in DOMAIN nodes
  <2>1. CASE i < n
    <3>1. i \in 0 .. n /\ n - i < Nodes
      BY <2>1, <1>5, <1>7, SizesAre
    <3>2. i \in DOMAIN line.nodes
      BY <3>1 DEF Chart
    <3>3. QED
      BY <3>2, <2>1, <1>5, <1>7
  <2>2. CASE i = n \/ i = n + 1
    BY <2>2, <1>5
  <2>3. QED
    BY <2>1, <2>2, <1>5
<1> HIDE DEF nodes
<1>8. Chart(more) /\ more.written = n + 1 /\ more.plan = plan
  <2>1. n + 1 \in Nat /\ n \in Nat
    BY <1>5
  <2> HIDE DEF n
  <2>2. QED
    <3>1. DOMAIN more = {"plan", "written", "position", "output", "nodes"}
      BY <1>2
    <3>2. more.plan = plan /\ more.written = n + 1 /\ more.position = position
          /\ more.output = output /\ more.nodes = nodes
      BY <1>2
    <3>3. ASSUME NEW i \in 0 .. more.written, more.written - i < Nodes
          PROVE  i \in DOMAIN more.nodes
      <4>1. i \in 0 .. n + 1 /\ n + 1 - i < Nodes
        BY <3>2, <3>3, <2>1
      <4>2. i \in DOMAIN nodes
        BY <1>7, <4>1
      <4>3. QED
        BY <3>2, <4>2
    <3>4. \A i \in DOMAIN more.nodes : more.nodes[i] \in Points
      BY <1>6, <3>2
    <3>5. QED
      BY <1>1, <1>3, <2>1, <3>1, <3>2, <3>3, <3>4 DEF Chart
<1>9. QED
  BY <1>8, Zenon DEF more, plan

LEMMA PositionFrameIs ==
  ASSUME NEW line, Chart(line), NEW i \in Nat, Has(line, i), NEW part \in Int,
         NEW whole \in Int, part >= 0, part < whole, part # 0 => Has(line, i + 1)
  PROVE  PositionFrame(line, i, part, whole) \in Int
<1>1. At(line, i).position \in Int
  BY AtIs DEF Points
<1>2. CASE part = 0
  BY <1>1, <1>2, SizesAre DEF PositionFrame
<1>3. CASE part # 0
  <2> DEFINE a == At(line, i).position
             b == At(line, i + 1).position
             top == a * whole + part * (b - a)
             below == whole * Frame
  <2>1. b \in Int
    BY <1>3, AtIs DEF Points
  <2>2. PositionFrame(line, i, part, whole) = top \div below
    BY <1>3 DEF PositionFrame
  <2>3. a \in Int
    BY <1>1
  <2> HIDE DEF a, b
  <2>4. top \in Int
    <3>1. \A m, n \in Int : m * n \in Int
      OBVIOUS
    <3>2. a * whole \in Int /\ part * (b - a) \in Int
      BY <2>1, <2>3, <3>1
    <3>3. QED
      BY <3>2
  <2>5. below \in Int /\ below > 0
    <3>1. \A m, n \in Nat : m > 0 /\ n > 0 => m * n \in Nat /\ m * n > 0
      OBVIOUS
    <3>2. whole \in Nat /\ whole > 0
      OBVIOUS
    <3>3. QED
      BY <3>1, <3>2, SizesAre
  <2> HIDE DEF top, below
  <2>6. QED
    BY <2>2, <2>4, <2>5
<1>4. QED
  BY <1>2, <1>3

-----------------------------------------------------------------------------
(* The engine, as far as its output needs it. *)

Numbers ==
  {"in", "start", "synth", "framePitch", "safe", "cleanup", "real", "expectedPv",
   "expectedOut", "pvStart", "pvWrite", "pos", "emitted", "count", "source", "frames",
   "left", "targetPv", "targetOut"}
Fields ==
  Numbers \cup {"kind", "time", "pitch", "line", "flushed", "explicit", "ok"}

(* What the resamplers and the draining change. *)
Outs == {"cleanup", "pvStart", "pvWrite", "pos", "emitted", "count", "source"}

Typed(x) == DOMAIN x = Fields /\ \A f \in Numbers : x[f] \in Int
Begun(x) == Timeline(x) => x.emitted >= 0 /\ x.source >= 0
Based(x) ==
  Typed(x) /\ Chart(x.line) /\ x.time \in Ratios /\ x.pitch \in Ratios /\ Begun(x)

Same(x, y, fields) == \A f \in fields : y[f] = x[f]
Delivers(x, y) == Based(y) /\ Same(x, y, Fields \ Outs)

LEMMA DeliversNothing ==
  ASSUME NEW x, Based(x)
  PROVE  Delivers(x, x)
BY DEF Delivers, Same

LEMMA DeliversMore ==
  ASSUME NEW x, NEW y, NEW z, Delivers(x, y), Delivers(y, z)
  PROVE  Delivers(x, z)
BY DEF Delivers, Same

LEMMA DeliversIf ==
  ASSUME NEW x, NEW y, Based(x), DOMAIN y = Fields, Same(x, y, Fields \ Outs),
         \A f \in Outs : y[f] \in Int, Timeline(x) => y.emitted >= 0 /\ y.source >= 0
  PROVE  Delivers(x, y)
<1>1. /\ y.kind = x.kind /\ y.line = x.line /\ y.time = x.time /\ y.pitch = x.pitch
  BY DEF Same, Fields, Outs, Numbers
<1>2. Typed(y)
  <2>1. \A f \in Numbers \ Outs : y[f] = x[f] /\ x[f] \in Int
    BY DEF Same, Fields, Based, Typed
  <2>2. QED
    BY <2>1 DEF Typed
<1>3. Begun(y)
  BY <1>1, Zenon DEF Begun, Timeline
<1>4. QED
  BY <1>1, <1>2, <1>3 DEF Based, Delivers

LEMMA EmitDelivers ==
  ASSUME NEW x, Based(x), NEW n \in Int, Timeline(x) => n >= 0
  PROVE  Delivers(x, Emit(x, n))
<1> DEFINE y == Emit(x, n)
<1>1. DOMAIN x = Fields /\ \A f \in Numbers : x[f] \in Int
  BY DEF Based, Typed
<1>2. DOMAIN y = Fields
  BY <1>1 DEF Emit
<1>3. /\ y.emitted = x.emitted + n /\ y.count = x.count + n
      /\ \A f \in Fields : f # "emitted" /\ f # "count" => y[f] = x[f]
  BY <1>1 DEF Emit, Fields, Numbers
<1>4. /\ x.emitted \in Int /\ x.count \in Int /\ x.cleanup \in Int /\ x.pvStart \in Int
      /\ x.pvWrite \in Int /\ x.pos \in Int /\ x.source \in Int
  BY <1>1 DEF Numbers
<1> HIDE DEF y
<1>5. \A f \in Outs : y[f] \in Int
  BY <1>3, <1>4 DEF Outs, Fields, Numbers
<1>6. Same(x, y, Fields \ Outs)
  BY <1>3 DEF Same, Outs
<1>7. Timeline(x) => y.emitted >= 0 /\ y.source >= 0
  <2>1. y.source = x.source
    BY <1>3 DEF Fields, Numbers
  <2>2. ASSUME Timeline(x) PROVE y.emitted >= 0 /\ y.source >= 0
    <3>1. x.emitted >= 0 /\ x.source >= 0
      BY <2>2, Zenon DEF Based, Begun
    <3>2. QED
      BY <1>3, <1>4, <2>1, <2>2, <3>1
  <2>3. QED
    BY <2>2
<1>8. QED
  BY <1>2, <1>5, <1>6, <1>7, DeliversIf DEF y

(* Setting one cursor of the output. *)
LEMMA DeliversSet ==
  ASSUME NEW x, Based(x), NEW f \in Outs, NEW v \in Int,
         Timeline(x) /\ f \in {"emitted", "source"} => v >= 0
  PROVE  Delivers(x, [x EXCEPT ![f] = v])
<1> DEFINE y == [x EXCEPT ![f] = v]
<1>1. DOMAIN x = Fields /\ \A g \in Numbers : x[g] \in Int
  BY DEF Based, Typed
<1>2. DOMAIN y = Fields
  BY <1>1
<1>3. /\ f \in Fields /\ Outs \subseteq Numbers /\ Outs \subseteq Fields
      /\ "emitted" \in Outs /\ "source" \in Outs
  BY DEF Fields, Outs, Numbers
<1>4. y[f] = v /\ \A g \in Fields : g # f => y[g] = x[g]
  BY <1>1, <1>3
<1> HIDE DEF y
<1>5. \A g \in Outs : y[g] \in Int
  BY <1>1, <1>3, <1>4
<1>6. Same(x, y, Fields \ Outs)
  BY <1>3, <1>4 DEF Same
<1>7. ASSUME Timeline(x) PROVE y.emitted >= 0 /\ y.source >= 0
  <2>1. x.emitted >= 0 /\ x.source >= 0
    BY <1>7, Zenon DEF Based, Begun
  <2>2. y["emitted"] >= 0 /\ y["source"] >= 0
    BY <1>3, <1>4, <1>7, <2>1
  <2>3. QED
    BY <2>2
<1>8. QED
  BY <1>2, <1>5, <1>6, <1>7, DeliversIf DEF y

LEMMA BasedIs ==
  ASSUME NEW x, Based(x)
  PROVE  /\ x.in \in Int /\ x.start \in Int /\ x.synth \in Int /\ x.framePitch \in Int
         /\ x.safe \in Int /\ x.cleanup \in Int /\ x.real \in Int
         /\ x.expectedPv \in Int /\ x.expectedOut \in Int /\ x.pvStart \in Int
         /\ x.pvWrite \in Int /\ x.pos \in Int /\ x.emitted \in Int /\ x.count \in Int
         /\ x.source \in Int /\ x.frames \in Int /\ x.left \in Int
         /\ x.targetPv \in Int /\ x.targetOut \in Int
         /\ x.time \in Nat /\ x.time > 0 /\ x.pitch \in Nat /\ x.pitch > 0
<1>1. /\ x.in \in Int /\ x.start \in Int /\ x.synth \in Int /\ x.framePitch \in Int
      /\ x.safe \in Int /\ x.cleanup \in Int /\ x.real \in Int
      /\ x.expectedPv \in Int /\ x.expectedOut \in Int /\ x.pvStart \in Int
      /\ x.pvWrite \in Int /\ x.pos \in Int /\ x.emitted \in Int /\ x.count \in Int
      /\ x.source \in Int /\ x.frames \in Int /\ x.left \in Int
      /\ x.targetPv \in Int /\ x.targetOut \in Int
  BY DEF Based, Typed, Numbers
<1>2. x.time \in Nat /\ x.time > 0 /\ x.pitch \in Nat /\ x.pitch > 0
  BY SizesAre DEF Based, Ratios
<1>3. QED
  BY <1>1, <1>2

LEMMA QuotientsAre ==
  ASSUME NEW x \in Int
  PROVE  /\ Floor(x) \in Int /\ Round(x) \in Int
         /\ x >= 0 => Floor(x) >= 0 /\ Round(x) >= 0
<1>1. Frame \in Nat /\ Frame > 0
  BY SizesAre
<1>2. Frame \div 2 \in Int /\ Frame \div 2 >= 0
  BY <1>1
<1>3. \A m \in Int : m \div Frame \in Int /\ (m >= 0 => m \div Frame >= 0)
  BY <1>1
<1>4. QED
  BY <1>2, <1>3 DEF Floor, Round

(* How many frames the output takes at once. *)
LEMMA WantedIs ==
  ASSUME NEW x, Based(x), NEW final
  PROVE  Wanted(x, final) \in Nat
<1>1. Budget(x, 2) \in Int
  <2>1. Budget(x, 2) = 2 \/ Budget(x, 2) = FifoCap
    BY Zenon DEF Budget
  <2>2. QED
    BY <2>1, SizesAre
<1>2. ASSUME NEW limit \in Int
      PROVE  Greater(0, Lesser(Budget(x, 2),
                         Lesser(limit - x.emitted, FifoCap - x.count))) \in Nat
  BY <1>1, <1>2, BasedIs, SizesAre DEF Greater, Lesser
<1>3. x.targetOut \in Int /\ Floor(x.expectedOut) \in Int
  BY BasedIs, QuotientsAre
<1>4. CASE final
  <2>1. Wanted(x, final) = Greater(0, Lesser(Budget(x, 2),
                             Lesser(x.targetOut - x.emitted, FifoCap - x.count)))
    BY <1>4, Zenon DEF Wanted
  <2>2. QED
    BY <1>2, <1>3, <2>1
<1>5. CASE ~final
  <2>1. Wanted(x, final) = Greater(0, Lesser(Budget(x, 2),
                             Lesser(Floor(x.expectedOut) - x.emitted, FifoCap - x.count)))
    BY <1>5, Zenon DEF Wanted
  <2>2. QED
    BY <1>2, <1>3, <2>1
<1>6. QED
  BY <1>4, <1>5, Zenon

LEMMA DiscardDelivers ==
  ASSUME NEW x, Based(x), NEW i \in Int
  PROVE  Delivers(x, DiscardBefore(x, i))
<1> DEFINE v == Lesser(Greater(x.pvStart, i), x.pvWrite)
<1>1. v \in Int
  BY BasedIs DEF Lesser, Greater
<1>2. DiscardBefore(x, i) = [x EXCEPT !["pvStart"] = v]
  BY DEF DiscardBefore
<1> HIDE DEF v
<1>3. Delivers(x, [x EXCEPT !["pvStart"] = v])
  BY <1>1, DeliversSet DEF Outs
<1>4. QED
  BY <1>2, <1>3

LEMMA CopyThroughDelivers ==
  ASSUME NEW x, Based(x), ~Timeline(x), NEW final
  PROVE  Delivers(x, CopyThrough(x, final))
<1> DEFINE n == Lesser(Wanted(x, final), x.pvWrite - x.pvStart)
           a == Emit(x, n)
           b == [a EXCEPT !["pvStart"] = a.pvStart + n]
           v == IF n = 0 THEN a.pos ELSE (x.pvStart + n) * Frame
<1>1. n \in Int
  BY BasedIs, WantedIs DEF Lesser
<1>2. CopyThrough(x, final) = [a EXCEPT !.pvStart = a.pvStart + n, !.pos = v]
  BY DEF CopyThrough
<1> HIDE DEF n
<1>3. Delivers(x, a)
  BY <1>1, EmitDelivers
<1>4. Based(a) /\ a.pvStart \in Int /\ a.pos \in Int
  BY <1>3, BasedIs DEF Delivers
<1> HIDE DEF a
<1>5. v \in Int
  <2>1. x.pvStart + n \in Int
    BY <1>1, BasedIs
  <2> DEFINE m == x.pvStart + n
  <2> HIDE DEF m
  <2>2. \A k \in Int : k * Frame \in Int
    BY SizesAre
  <2>3. QED
    BY <1>4, <2>1, <2>2
<1> HIDE DEF v
<1>6. Delivers(a, b)
  <2>1. a.pvStart + n \in Int
    BY <1>1, <1>4
  <2>2. QED
    BY <1>4, <2>1, DeliversSet DEF Outs
<1>7. CopyThrough(x, final) = [b EXCEPT !["pos"] = v]
  BY <1>2
<1> HIDE DEF b
<1>8. Based(b)
  BY <1>6 DEF Delivers
<1>9. Delivers(b, [b EXCEPT !["pos"] = v])
  BY <1>5, <1>8, DeliversSet DEF Outs
<1>10. QED
  BY <1>3, <1>6, <1>7, <1>9, DeliversMore

LEMMA KeepIs ==
  ASSUME NEW center \in Int
  PROVE  Keep(center) \in Int
BY SizesAre DEF Keep

LEMMA CenterIs ==
  ASSUME NEW x, Based(x), NEW j \in Int
  PROVE  Center(x, j) \in Int
<1>1. \A m, n \in Int : m * n \in Int
  OBVIOUS
<1>2. x.pos \in Int /\ x.pitch \in Int /\ Unit \in Int
  BY BasedIs, SizesAre
<1>3. j * x.pitch \in Int
  BY <1>1, <1>2
<1>4. j * x.pitch * Unit \in Int
  BY <1>1, <1>2, <1>3
<1>5. x.pos + j * x.pitch * Unit \in Int
  BY <1>2, <1>4
<1>6. QED
  BY <1>5, QuotientsAre DEF Center

LEMMA InterpolateDelivers ==
  ASSUME NEW x, Based(x), NEW final
  PROVE  Delivers(x, Interpolate(x, final))
<1> DEFINE m == Wanted(x, final)
           stops == {j \in 0 .. m - 1 : ~TapsThere(x, final, Center(x, j))}
           n == FirstOf(stops, m)
<1>1. m \in Nat
  BY WantedIs
<1>2. Interpolate(x, final) = Interpolated(x, n)
  BY Zenon DEF Interpolate
<1>3. n \in Nat
  <2>1. stops \subseteq 0 .. m
    <3> HIDE DEF m
    <3>1. 0 .. m - 1 \subseteq 0 .. m
      BY <1>1
    <3>2. QED
      BY <3>1
  <2> HIDE DEF m, stops
  <2>2. n \in 0 .. m
    <3>1. 0 \in Nat /\ 0 <= m
      BY <1>1
    <3>2. QED
      BY <1>1, <2>1, <3>1, FirstOfIs, Zenon
  <2>3. QED
    BY <2>2
<1> HIDE DEF n
<1>4. CASE n = 0
  BY <1>2, <1>4, DeliversNothing, Zenon DEF Interpolated
<1>5. CASE n # 0
  <2> DEFINE a == Emit(x, n)
             v == a.pos + n * x.pitch * Unit
             b == [a EXCEPT !["pos"] = v]
             k == Keep(Center(x, n))
  <2>1. Interpolated(x, n) = DiscardBefore(b, k)
    <3>1. Interpolated(x, n)
            = DiscardBefore([a EXCEPT !.pos = @ + n * x.pitch * Unit], k)
      BY <1>5, Zenon DEF Interpolated
    <3> HIDE DEF k, a
    <3>2. b = [a EXCEPT !.pos = @ + n * x.pitch * Unit]
      OBVIOUS
    <3> HIDE DEF b
    <3>3. QED
      BY <3>1, <3>2
  <2>2. Delivers(x, a)
    BY <1>3, EmitDelivers
  <2>3. Based(a) /\ a.pos \in Int
    BY <2>2, BasedIs DEF Delivers
  <2> HIDE DEF a
  <2>4. v \in Int
    <3>1. \A i, j \in Int : i * j \in Int
      OBVIOUS
    <3>2. n * x.pitch \in Int
      BY <1>3, <3>1, BasedIs
    <3>3. n * x.pitch * Unit \in Int
      BY <3>1, <3>2, SizesAre
    <3>4. QED
      BY <2>3, <3>3
  <2> HIDE DEF v
  <2>5. Delivers(a, b)
    BY <2>3, <2>4, DeliversSet DEF Outs
  <2>6. Based(b)
    BY <2>5 DEF Delivers
  <2>7. k \in Int
    BY <1>3, CenterIs, KeepIs
  <2> HIDE DEF b, k
  <2>8. Delivers(b, DiscardBefore(b, k))
    BY <2>6, <2>7, DiscardDelivers
  <2>9. QED
    BY <1>2, <2>1, <2>2, <2>5, <2>8, DeliversMore
<1>6. QED
  BY <1>4, <1>5

LEMMA SourceIs ==
  ASSUME NEW x, Based(x), Timeline(x)
  PROVE  Source(x) \in Nat
<1>1. x.source \in Nat /\ x.emitted \in Nat
  <2>1. x.emitted >= 0 /\ x.source >= 0
    BY Zenon DEF Based, Begun
  <2>2. QED
    BY <2>1, BasedIs
<1>2. CASE x.kind.variable
  <2> DEFINE m == x.source
             stops == {i \in m .. m + 3 : ~Passed(x, i)}
             bound == m + 4
  <2>1. Source(x) = FirstOf(stops, bound)
    BY <1>2, Zenon DEF Source, Advance
  <2>2. m \in Nat /\ bound \in Nat /\ m <= bound
    BY <1>1
  <2>3. stops \subseteq m .. bound
    <3>1. m .. m + 3 \subseteq m .. bound
      BY <2>2
    <3>2. stops \subseteq m .. m + 3
      OBVIOUS
    <3>3. QED
      BY <3>1, <3>2
  <2> HIDE DEF m, stops, bound
  <2>4. FirstOf(stops, bound) \in m .. bound
    BY <2>2, <2>3, FirstOfIs, Zenon
  <2>5. QED
    BY <2>1, <2>2, <2>4
<1>3. CASE ~x.kind.variable
  <2>1. Source(x) = (x.emitted * Unit) \div x.time
    BY <1>3, Zenon DEF Source
  <2>2. x.emitted * Unit \in Nat
    <3>1. \A m, n \in Nat : m * n \in Nat
      OBVIOUS
    <3>2. QED
      BY <1>1, <3>1, SizesAre
  <2> DEFINE m == x.emitted * Unit
  <2>3. m \in Nat
    BY <2>2
  <2> HIDE DEF m
  <2>4. x.time \in Nat /\ x.time > 0
    BY BasedIs
  <2>5. m \div x.time \in Nat
    BY <2>3, <2>4
  <2>6. QED
    BY <2>1, <2>5 DEF m
<1>4. QED
  BY <1>2, <1>3, Zenon

LEMMA MapEmitDelivers ==
  ASSUME NEW x, Based(x), NEW final, NEW center \in Int
  PROVE  Delivers(x, MapEmit(x, final, center))
<1> DEFINE a == [x EXCEPT !["pos"] = center * Frame]
           b == Emit(a, 1)
           k == Keep(center)
           there == final \/ center + Half + 1 < x.pvWrite
<1>1. CASE there
  <2>1. MapEmit(x, final, center) = DiscardBefore(b, k)
    <3>1. MapEmit(x, final, center)
            = DiscardBefore(Emit([x EXCEPT !.pos = center * Frame], 1), k)
      BY <1>1, Zenon DEF MapEmit
    <3> HIDE DEF k
    <3>2. a = [x EXCEPT !.pos = center * Frame]
      OBVIOUS
    <3> HIDE DEF a
    <3>3. QED
      BY <3>1, <3>2
  <2>2. Delivers(x, a)
    <3>1. center * Frame \in Int
      BY SizesAre
    <3> DEFINE v == center * Frame
    <3>2. v \in Int
      BY <3>1
    <3> HIDE DEF v
    <3>3. Delivers(x, [x EXCEPT !["pos"] = v])
      BY <3>2, DeliversSet DEF Outs
    <3>4. QED
      BY <3>3 DEF v
  <2> HIDE DEF a
  <2>3. Delivers(a, b)
    <3>1. Based(a)
      BY <2>2 DEF Delivers
    <3>2. QED
      BY <3>1, EmitDelivers
  <2>4. Based(b)
    BY <2>3 DEF Delivers
  <2>5. k \in Int
    BY KeepIs
  <2> HIDE DEF b, k
  <2>6. Delivers(b, DiscardBefore(b, k))
    BY <2>4, <2>5, DiscardDelivers
  <2>7. QED
    BY <2>1, <2>2, <2>3, <2>6, DeliversMore
<1>2. CASE ~there
  BY <1>2, DeliversNothing, Zenon DEF MapEmit
<1>3. QED
  BY <1>1, <1>2, Zenon

LEMMA MapAtDelivers ==
  ASSUME NEW x, Based(x), Timeline(x), NEW final, NEW i \in Nat
  PROVE  Delivers(x, MapAt(x, final, i))
<1> DEFINE part == Part(x, i)
           whole == Whole(x, i)
           center == PositionFrame(x.line, i, part, whole)
<1>1. CASE Mapped(x, i, part, whole)
  <2>1. MapAt(x, final, i) = MapEmit(x, final, center)
    BY <1>1, Zenon DEF MapAt
  <2>2. Has(x.line, i) /\ (x.kind.variable => Has(x.line, i + 1))
        /\ (part # 0 => Has(x.line, i + 1))
    BY <1>1, Zenon DEF Mapped
  <2>3. part >= 0 /\ part < whole
    BY <1>1, Zenon DEF Mapped
  <2>4. Chart(x.line)
    BY DEF Based
  <2>5. part \in Int /\ whole \in Int
    <3>1. CASE x.kind.variable
      <4>1. /\ part = x.emitted * Frame - At(x.line, i).output
            /\ whole = At(x.line, i + 1).output - At(x.line, i).output
        BY <3>1, Zenon DEF Part, Whole
      <4>2. At(x.line, i).output \in Int /\ At(x.line, i + 1).output \in Int
        BY <2>2, <2>4, <3>1, AtIs DEF Points
      <4>3. x.emitted * Frame \in Int
        <5>1. \A m, n \in Int : m * n \in Int
          OBVIOUS
        <5>2. QED
          BY <5>1, BasedIs, SizesAre
      <4> HIDE DEF part, whole
      <4>4. QED
        BY <4>1, <4>2, <4>3
    <3>2. CASE ~x.kind.variable
      <4>1. part = (x.emitted * Unit) % x.time /\ whole = x.time
        BY <3>2, Zenon DEF Part, Whole
      <4>2. x.time \in Nat /\ x.time > 0
        BY BasedIs
      <4> DEFINE m == x.emitted * Unit
      <4>3. m \in Int
        <5>1. \A k, n \in Int : k * n \in Int
          OBVIOUS
        <5>2. QED
          BY <5>1, BasedIs, SizesAre
      <4> HIDE DEF m
      <4>4. m % x.time \in Int
        BY <4>2, <4>3
      <4> HIDE DEF part, whole
      <4>5. QED
        BY <4>1, <4>2, <4>4 DEF m
    <3>3. QED
      BY <3>1, <3>2, Zenon
  <2> HIDE DEF part, whole
  <2>6. center \in Int
    BY <2>2, <2>3, <2>4, <2>5, PositionFrameIs
  <2> HIDE DEF center
  <2>7. QED
    BY <2>1, <2>6, MapEmitDelivers
<1>2. CASE ~Mapped(x, i, part, whole)
  BY <1>2, DeliversNothing, Zenon DEF MapAt
<1>3. QED
  BY <1>1, <1>2, Zenon

LEMMA MapOneDelivers ==
  ASSUME NEW x, Based(x), Timeline(x), NEW final
  PROVE  Delivers(x, MapOne(x, final))
<1> DEFINE i == Source(x)
           v == IF x.kind.variable THEN i ELSE x.source
           a == [x EXCEPT !["source"] = v]
<1>1. i \in Nat
  BY SourceIs
<1>2. v \in Int /\ v >= 0
  <2>1. v = i \/ v = x.source
    BY Zenon
  <2>2. x.source >= 0
    BY Zenon DEF Based, Begun
  <2> HIDE DEF v
  <2>3. QED
    BY <1>1, <2>1, <2>2, BasedIs
<1>3. MapOne(x, final) = MapAt(a, final, i)
  <2>1. MapOne(x, final) = MapAt([x EXCEPT !.source = v], final, i)
    BY Zenon DEF MapOne, MapFrom
  <2> HIDE DEF v, i
  <2>2. a = [x EXCEPT !.source = v]
    OBVIOUS
  <2> HIDE DEF a
  <2>3. QED
    BY <2>1, <2>2
<1> HIDE DEF v, i
<1>4. Delivers(x, a)
  BY <1>2, DeliversSet DEF Outs
<1>5. Based(a) /\ Timeline(a)
  <2>1. a.kind = x.kind
    BY <1>4 DEF Delivers, Same, Fields, Outs, Numbers
  <2>2. Based(a)
    BY <1>4 DEF Delivers
  <2> HIDE DEF a
  <2>3. QED
    BY <2>1, <2>2, Zenon DEF Timeline
<1> HIDE DEF a
<1>6. Delivers(a, MapAt(a, final, i))
  BY <1>1, <1>5, MapAtDelivers
<1>7. QED
  BY <1>3, <1>4, <1>6, DeliversMore

LEMMA DeliversKeeps ==
  ASSUME NEW x, NEW y, Delivers(x, y)
  PROVE  /\ Based(y) /\ y.kind = x.kind /\ y.line = x.line /\ y.time = x.time
         /\ y.pitch = x.pitch /\ y.start = x.start /\ y.in = x.in /\ y.left = x.left
         /\ y.ok = x.ok /\ y.flushed = x.flushed /\ y.explicit = x.explicit
         /\ y.expectedPv = x.expectedPv /\ y.safe = x.safe
         /\ y.targetPv = x.targetPv /\ y.targetOut = x.targetOut
         /\ Timeline(y) <=> Timeline(x)
<1>1. \A f \in Fields \ Outs : y[f] = x[f]
  BY DEF Delivers, Same
<1>2. y.kind = x.kind
  BY <1>1 DEF Fields, Outs, Numbers
<1>3. Timeline(y) <=> Timeline(x)
  BY <1>2, Zenon DEF Timeline
<1>4. QED
  BY <1>1, <1>2, <1>3 DEF Fields, Outs, Numbers, Delivers

LEMMA MapAllDelivers ==
  ASSUME NEW x, Based(x), Timeline(x), NEW final
  PROVE  Delivers(x, MapAll(x, final))
<1> DEFINE n == Wanted(x, final)
<1>1. n \in Nat
  BY WantedIs
<1>2. PICK f : /\ f[0] = x
               /\ \A k \in 1 .. n : f[k] = MapNext(f[k - 1], final, x.emitted + k - 1)
               /\ MapAll(x, final) = f[n]
  BY <1>1, MapAllIs
<1> HIDE DEF n
<1> DEFINE S == {k \in Nat : k <= n => Delivers(x, f[k])}
<1>3. 0 \in S
  BY <1>2, DeliversNothing
<1>4. ASSUME NEW k \in Nat, k \in S PROVE k + 1 \in S
  <2> SUFFICES ASSUME k + 1 <= n PROVE Delivers(x, f[k + 1])
    OBVIOUS
  <2>1. Delivers(x, f[k])
    BY <1>1, <1>4
  <2>2. f[k + 1] = MapNext(f[k], final, x.emitted + (k + 1) - 1)
    <3>1. k + 1 \in 1 .. n /\ (k + 1) - 1 = k
      BY <1>1
    <3>2. f[k + 1] = MapNext(f[(k + 1) - 1], final, x.emitted + (k + 1) - 1)
      BY <1>2, <3>1
    <3>3. QED
      BY <3>1, <3>2
  <2>3. f[k + 1] = f[k] \/ f[k + 1] = MapOne(f[k], final)
    BY <2>2, Zenon DEF MapNext
  <2>4. Delivers(f[k], MapOne(f[k], final))
    BY <2>1, DeliversKeeps, MapOneDelivers
  <2>5. QED
    BY <2>1, <2>3, <2>4, DeliversMore
<1> HIDE DEF S
<1>5. n \in S
  BY <1>1, <1>3, <1>4, SetInduction
<1>6. QED
  BY <1>1, <1>2, <1>5 DEF S

LEMMA ResampleDelivers ==
  ASSUME NEW x, Based(x), NEW final
  PROVE  Delivers(x, Resample(x, final))
<1>1. CASE Timeline(x)
  BY <1>1, MapAllDelivers, Zenon DEF Resample
<1>2. CASE ~Timeline(x) /\ x.pitch = Unit
  BY <1>2, CopyThroughDelivers, Zenon DEF Resample
<1>3. CASE ~Timeline(x) /\ x.pitch # Unit
  BY <1>3, InterpolateDelivers, Zenon DEF Resample
<1>4. QED
  BY <1>1, <1>2, <1>3, Zenon

LEMMA MoveOutDelivers ==
  ASSUME NEW x, Based(x), NEW n \in Int
  PROVE  Delivers(x, MoveOut(x, n)) /\ MoveOut(x, n).cleanup = x.cleanup + n
<1> DEFINE a == [x EXCEPT !["cleanup"] = x.cleanup + n]
           v == x.pvWrite + Greater(0, n - Silent(x))
<1>1. v \in Int /\ x.cleanup + n \in Int
  BY BasedIs, SizesAre DEF Greater, Silent
<1>2. MoveOut(x, n) = [x EXCEPT !.cleanup = x.cleanup + n, !.pvWrite = v]
  BY DEF MoveOut
<1> HIDE DEF v
<1>3. Delivers(x, a)
  <2> DEFINE c == x.cleanup + n
  <2>1. c \in Int
    BY <1>1
  <2> HIDE DEF c
  <2>2. Delivers(x, [x EXCEPT !["cleanup"] = c])
    BY <2>1, DeliversSet DEF Outs
  <2>3. QED
    BY <2>2 DEF c
<1>4. MoveOut(x, n) = [a EXCEPT !["pvWrite"] = v]
  BY <1>2
<1>5. DOMAIN x = Fields /\ "cleanup" \in Fields
  BY DEF Based, Typed, Fields, Numbers
<1>6. MoveOut(x, n).cleanup = x.cleanup + n
  BY <1>2, <1>5
<1> HIDE DEF a
<1>7. Based(a)
  BY <1>3 DEF Delivers
<1>8. Delivers(a, [a EXCEPT !["pvWrite"] = v])
  BY <1>1, <1>7, DeliversSet DEF Outs
<1>9. QED
  BY <1>3, <1>4, <1>6, <1>8, DeliversMore

LEMMA DrainRoundDelivers ==
  ASSUME NEW x, Based(x), NEW goal \in Int
  PROVE  Delivers(x, DrainRound(x, goal))
<1> DEFINE room == Silent(x) + PvFree(x)
<1>1. room \in Int /\ goal - x.cleanup \in Int
  BY BasedIs, SizesAre DEF Silent, PvFree, Greater
<1>2. CASE goal - x.cleanup <= room
  <2>1. DrainRound(x, goal) = MoveOut(x, goal - x.cleanup)
    BY <1>2, Zenon DEF DrainRound
  <2>2. QED
    BY <1>1, <2>1, MoveOutDelivers
<1>3. CASE ~(goal - x.cleanup <= room)
  <2> DEFINE a == MoveOut(x, room)
  <2>1. DrainRound(x, goal) = Resample(a, FALSE)
    BY <1>3, Zenon DEF DrainRound
  <2>2. Delivers(x, a)
    BY <1>1, MoveOutDelivers
  <2> HIDE DEF a
  <2>3. Based(a)
    BY <2>2 DEF Delivers
  <2>4. Delivers(a, Resample(a, FALSE))
    BY <2>3, ResampleDelivers
  <2>5. QED
    BY <2>1, <2>2, <2>4, DeliversMore
<1>4. QED
  BY <1>2, <1>3

LEMMA DrainToDelivers ==
  ASSUME NEW x, Based(x), NEW goal \in Int, x.cleanup <= goal
  PROVE  Delivers(x, DrainTo(x, goal))
<1> DEFINE n == goal - x.cleanup
<1>1. n \in Nat
  BY BasedIs
<1>2. PICK f : /\ f[0] = DrainRound(x, goal)
               /\ \A k \in 1 .. n : f[k] = DrainNext(f[k - 1], goal)
               /\ DrainTo(x, goal) = f[n]
  BY <1>1, DrainToIs
<1> HIDE DEF n
<1> DEFINE S == {k \in Nat : k <= n => Delivers(x, f[k])}
<1>3. 0 \in S
  BY <1>2, DrainRoundDelivers
<1>4. ASSUME NEW k \in Nat, k \in S PROVE k + 1 \in S
  <2> SUFFICES ASSUME k + 1 <= n PROVE Delivers(x, f[k + 1])
    OBVIOUS
  <2>1. Delivers(x, f[k])
    BY <1>1, <1>4
  <2>2. f[k + 1] = DrainNext(f[k], goal)
    <3>1. k + 1 \in 1 .. n /\ (k + 1) - 1 = k
      BY <1>1
    <3>2. f[k + 1] = DrainNext(f[(k + 1) - 1], goal)
      BY <1>2, <3>1
    <3>3. QED
      BY <3>1, <3>2
  <2>3. f[k + 1] = f[k] \/ f[k + 1] = DrainRound(f[k], goal)
    BY <2>2, Zenon DEF DrainNext
  <2>4. Delivers(f[k], DrainRound(f[k], goal))
    BY <2>1, DrainRoundDelivers DEF Delivers
  <2>5. QED
    BY <2>1, <2>3, <2>4, DeliversMore
<1> HIDE DEF S
<1>5. n \in S
  BY <1>1, <1>3, <1>4, SetInduction
<1>6. QED
  BY <1>1, <1>2, <1>5 DEF S

LEMMA DrainDelivers ==
  ASSUME NEW x, Based(x), NEW final
  PROVE  Delivers(x, Drain(x, final))
<1>1. DrainDue(x, final) \in Nat
  <2>1. Budget(x, 8) \in Int
    <3>1. Budget(x, 8) = 8 \/ Budget(x, 8) = FifoCap
      BY Zenon DEF Budget
    <3>2. QED
      BY <3>1, SizesAre
  <2>2. ASSUME NEW limit \in Int
        PROVE  Greater(0, Lesser(Lesser(x.safe, Crop + limit) - x.cleanup,
                                 Budget(x, 8))) \in Nat
    BY <2>1, <2>2, BasedIs, SizesAre DEF Greater, Lesser
  <2>3. x.targetPv \in Int /\ Floor(x.expectedPv) \in Int
    BY BasedIs, QuotientsAre
  <2>4. CASE final
    <3>1. DrainDue(x, final)
            = Greater(0, Lesser(Lesser(x.safe, Crop + x.targetPv) - x.cleanup,
                                Budget(x, 8)))
      BY <2>4, Zenon DEF DrainDue
    <3>2. QED
      BY <2>2, <2>3, <3>1
  <2>5. CASE ~final
    <3>1. DrainDue(x, final)
            = Greater(0, Lesser(Lesser(x.safe, Crop + Floor(x.expectedPv)) - x.cleanup,
                                Budget(x, 8)))
      BY <2>5, Zenon DEF DrainDue
    <3>2. QED
      BY <2>2, <2>3, <3>1
  <2>6. QED
    BY <2>4, <2>5, Zenon
<1> DEFINE goal == x.cleanup + DrainDue(x, final)
<1>2. goal \in Int /\ x.cleanup <= goal
  BY <1>1, BasedIs
<1>3. Drain(x, final) = DrainTo(x, goal)
  BY DEF Drain
<1> HIDE DEF goal
<1>4. QED
  BY <1>2, <1>3, DrainToDelivers

LEMMA DeliverDelivers ==
  ASSUME NEW x, Based(x), NEW final
  PROVE  Delivers(x, Deliver(x, final))
<1>1. Delivers(x, Drain(x, final))
  BY DrainDelivers
<1>2. Deliver(x, final) = Resample(Drain(x, final), FALSE)
  BY DEF Deliver
<1> DEFINE y == Drain(x, final)
<1>3. Delivers(x, y) /\ Deliver(x, final) = Resample(y, FALSE)
  BY <1>1, <1>2
<1> HIDE DEF y
<1>4. Delivers(y, Resample(y, FALSE))
  BY <1>3, ResampleDelivers DEF Delivers
<1>5. QED
  BY <1>3, <1>4, DeliversMore

-----------------------------------------------------------------------------
(* Frames. *)

(* What the work on frames changes besides.                                *)
Frames == {"framePitch", "synth", "safe", "start", "frames", "left"}
Works(x, y) == Based(y) /\ Same(x, y, Fields \ (Outs \cup Frames))

LEMMA WorksMore ==
  ASSUME NEW x, NEW y, NEW z, Works(x, y), Works(y, z)
  PROVE  Works(x, z)
BY DEF Works, Same

LEMMA WorksDelivered ==
  ASSUME NEW x, NEW y, Delivers(x, y)
  PROVE  Works(x, y)
BY DEF Works, Delivers, Same

LEMMA WorksIf ==
  ASSUME NEW x, NEW y, Based(x), DOMAIN y = Fields, Same(x, y, Fields \ Frames),
         \A f \in Frames : y[f] \in Int
  PROVE  Works(x, y)
<1>1. /\ y.kind = x.kind /\ y.line = x.line /\ y.time = x.time /\ y.pitch = x.pitch
      /\ y.emitted = x.emitted /\ y.source = x.source
  BY DEF Same, Fields, Frames, Numbers
<1>2. Typed(y)
  <2>1. \A f \in Numbers \ Frames : y[f] = x[f] /\ x[f] \in Int
    BY DEF Same, Fields, Based, Typed
  <2>2. QED
    BY <2>1 DEF Typed
<1>3. Begun(y)
  BY <1>1, Zenon DEF Begun, Timeline, Based
<1>4. Same(x, y, Fields \ (Outs \cup Frames))
  BY DEF Same
<1>5. QED
  BY <1>1, <1>2, <1>3, <1>4 DEF Based, Works

LEMMA WorksKeeps ==
  ASSUME NEW x, NEW y, Works(x, y)
  PROVE  /\ Based(y) /\ y.kind = x.kind /\ y.line = x.line /\ y.time = x.time
         /\ y.pitch = x.pitch /\ y.in = x.in /\ y.ok = x.ok
         /\ y.flushed = x.flushed /\ y.explicit = x.explicit
         /\ y.expectedPv = x.expectedPv /\ y.targetPv = x.targetPv
         /\ y.targetOut = x.targetOut
         /\ Timeline(y) <=> Timeline(x)
         /\ Scheduled(y) <=> Scheduled(x)
<1>1. \A f \in Fields \ (Outs \cup Frames) : y[f] = x[f]
  BY DEF Works, Same
<1>2. y.kind = x.kind
  BY <1>1 DEF Fields, Outs, Numbers, Frames
<1>3. (Timeline(y) <=> Timeline(x)) /\ (Scheduled(y) <=> Scheduled(x))
  BY <1>2, Zenon DEF Timeline, Scheduled
<1>4. QED
  BY <1>1, <1>2, <1>3 DEF Fields, Outs, Numbers, Frames, Works

(* The frame that begins at start is in the map.                           *)
InMap(x) ==
  /\ x.start >= 0
  /\ Timeline(x) => /\ x.line.written = x.in - Crop
                    /\ x.start <= x.line.written
                    /\ x.line.written - x.start < Nodes

LEMMA InMapIs ==
  ASSUME NEW x, Based(x), InMap(x), Timeline(x)
  PROVE  /\ x.start \in Nat /\ Has(x.line, x.start)
         /\ x.line.written = x.in - Crop /\ x.line.written \in Nat
         /\ x.start <= x.line.written /\ x.line.written - x.start < Nodes
<1>1. /\ x.start >= 0 /\ x.line.written = x.in - Crop
      /\ x.start <= x.line.written
      /\ x.line.written - x.start < Nodes
  BY Zenon DEF InMap
<1>2. x.start \in Int /\ x.line.written \in Nat
  BY BasedIs DEF Based, Chart
<1>3. QED
  BY <1>1, <1>2 DEF Has

(* A frame on: the next one is, too.                                       *)
LEMMA InMapNext ==
  ASSUME NEW x, Based(x), InMap(x), FullFrame(x), NEW y, Works(x, y),
         y.start = x.start + Hop
  PROVE  InMap(y)
<1>1. x.start \in Int /\ x.start >= 0 /\ x.in \in Int
  BY BasedIs, Zenon DEF InMap
<1>2. y.start >= 0
  BY <1>1, SizesAre
<1>3. ASSUME Timeline(y)
      PROVE  /\ y.line.written = y.in - Crop
             /\ y.start <= y.line.written
             /\ y.line.written - y.start < Nodes
  <2>1. Timeline(x) /\ y.line = x.line /\ y.in = x.in
    BY <1>3, WorksKeeps
  <2>2. /\ x.line.written = x.in - Crop /\ x.line.written \in Nat
        /\ x.line.written - x.start < Nodes
    BY <2>1, InMapIs
  <2>3. x.in >= x.start + N
    BY DEF FullFrame
  <2>4. QED
    BY <1>1, <2>1, <2>2, <2>3, SizesAre
<1>4. QED
  BY <1>2, <1>3, Zenon DEF InMap

LEMMA InMapSame ==
  ASSUME NEW x, InMap(x), NEW y, Works(x, y), y.start = x.start
  PROVE  InMap(y)
<1>1. y.line = x.line /\ y.in = x.in /\ (Timeline(y) <=> Timeline(x))
  BY WorksKeeps
<1>2. QED
  BY <1>1, Zenon DEF InMap

LEMMA LatchedWorks ==
  ASSUME NEW x, Based(x), InMap(x)
  PROVE  /\ Works(x, Latched(x))
         /\ Latched(x).start = x.start /\ Latched(x).left = x.left
<1>1. CASE ~Timeline(x)
  <2>1. Latched(x) = x
    BY <1>1, Zenon DEF Latched
  <2>2. Works(x, x)
    BY DeliversNothing, WorksDelivered
  <2>3. QED
    BY <2>1, <2>2
<1>2. CASE Timeline(x)
  <2> DEFINE p == At(x.line, x.start)
             y == [x EXCEPT !.framePitch = p.pitch, !.synth = p.position]
  <2>1. Latched(x) = y
    BY <1>2, Zenon DEF Latched
  <2>2. p \in Points
    BY <1>2, InMapIs, AtIs DEF Based
  <2>3. DOMAIN x = Fields /\ \A g \in Numbers : x[g] \in Int
    BY DEF Based, Typed
  <2> HIDE DEF p
  <2>4. DOMAIN y = Fields
    BY <2>3
  <2>5. /\ y.framePitch = p.pitch /\ y.synth = p.position
        /\ \A g \in Fields : g # "framePitch" /\ g # "synth" => y[g] = x[g]
    BY <2>3 DEF Fields, Numbers
  <2> HIDE DEF y
  <2>6. \A g \in Frames : y[g] \in Int
    BY <2>2, <2>3, <2>5 DEF Frames, Fields, Numbers, Points
  <2>7. Same(x, y, Fields \ Frames)
    BY <2>5 DEF Same, Frames
  <2>8. Works(x, y)
    BY <2>4, <2>6, <2>7, WorksIf
  <2>9. y.start = x.start /\ y.left = x.left
    BY <2>5 DEF Fields, Numbers
  <2>10. QED
    BY <2>1, <2>8, <2>9
<1>3. QED
  BY <1>1, <1>2, Zenon

LEMMA OverlapAddedWorks ==
  ASSUME NEW x, Based(x)
  PROVE  /\ Works(x, OverlapAdded(x))
         /\ OverlapAdded(x).start = x.start + Hop /\ OverlapAdded(x).left = x.left
<1> DEFINE s == Hop * Stretch(x)
           y == OverlapAdded(x)
<1>1. s \in Int
  <2>1. FramePitch(x) = x.framePitch \/ FramePitch(x) = x.pitch
    BY Zenon DEF FramePitch
  <2>2. \A m, n \in Int : m * n \in Int
    OBVIOUS
  <2>3. Stretch(x) \in Int
    BY <2>1, <2>2, BasedIs DEF Stretch
  <2>4. QED
    BY <2>2, <2>3, SizesAre
<1>2. y = [x EXCEPT !.safe = Round(x.synth), !.synth = x.synth + s,
                    !.start = x.start + Hop, !.frames = x.frames + 1]
  BY DEF OverlapAdded
<1> HIDE DEF s, y
<1>3. DOMAIN x = Fields /\ \A g \in Numbers : x[g] \in Int
  BY DEF Based, Typed
<1>4. DOMAIN y = Fields
  BY <1>2, <1>3
<1>5. /\ y.safe = Round(x.synth) /\ y.synth = x.synth + s /\ y.start = x.start + Hop
      /\ y.frames = x.frames + 1
      /\ \A g \in Fields : g \notin {"safe", "synth", "start", "frames"} => y[g] = x[g]
  BY <1>2, <1>3 DEF Fields, Numbers
<1>6. Round(x.synth) \in Int
  BY BasedIs, QuotientsAre
<1>7. /\ y.safe \in Int /\ y.synth \in Int /\ y.start \in Int /\ y.frames \in Int
  BY <1>1, <1>5, <1>6, BasedIs, SizesAre
<1>8. y.framePitch = x.framePitch /\ y.left = x.left
  BY <1>5 DEF Fields, Numbers
<1>9. \A g \in Frames : y[g] \in Int
  BY <1>7, <1>8, BasedIs DEF Frames
<1>10. Same(x, y, Fields \ Frames)
  BY <1>5 DEF Same, Frames
<1>11. QED
  BY <1>4, <1>5, <1>8, <1>9, <1>10, WorksIf DEF y

LEMMA ProcessFrameWorks ==
  ASSUME NEW x, Based(x), InMap(x)
  PROVE  /\ Works(x, ProcessFrame(x))
         /\ ProcessFrame(x).start = x.start + Hop /\ ProcessFrame(x).left = x.left
<1> DEFINE a == Latched(x)
           b == OverlapAdded(a)
           y == Deliver(b, x.flushed)
<1>1. ProcessFrame(x) = y
  BY Zenon DEF ProcessFrame
<1>2. Works(x, a) /\ a.start = x.start /\ a.left = x.left
  BY LatchedWorks
<1> HIDE DEF a
<1>3. Works(a, b) /\ b.start = a.start + Hop /\ b.left = a.left
  BY <1>2, OverlapAddedWorks DEF Works
<1> HIDE DEF b
<1>4. Delivers(b, y)
  BY <1>3, DeliverDelivers DEF Works
<1> HIDE DEF y
<1>5. Works(b, y) /\ y.start = b.start /\ y.left = b.left
  BY <1>4, WorksDelivered, DeliversKeeps
<1>6. QED
  BY <1>1, <1>2, <1>3, <1>5, WorksMore

(* The frame in work has so many steps left. *)
LEMMA LeftWorks ==
  ASSUME NEW x, Based(x), NEW n \in Int
  PROVE  /\ Works(x, [x EXCEPT !.left = n])
         /\ [x EXCEPT !.left = n].start = x.start /\ [x EXCEPT !.left = n].left = n
<1> DEFINE y == [x EXCEPT !.left = n]
<1>1. DOMAIN x = Fields /\ \A g \in Numbers : x[g] \in Int
  BY DEF Based, Typed
<1>2. DOMAIN y = Fields
  BY <1>1
<1>3. y.left = n /\ \A g \in Fields : g # "left" => y[g] = x[g]
  BY <1>1 DEF Fields, Numbers
<1> HIDE DEF y
<1>4. \A g \in Frames : y[g] \in Int
  BY <1>1, <1>3 DEF Frames, Fields, Numbers
<1>5. Same(x, y, Fields \ Frames)
  BY <1>3 DEF Same, Frames
<1>6. y.start = x.start
  BY <1>3 DEF Fields, Numbers
<1>7. Works(x, y)
  BY <1>2, <1>4, <1>5, WorksIf
<1>8. QED
  BY <1>3, <1>6, <1>7 DEF y

LEMMA StartTaskWorks ==
  ASSUME NEW x, Based(x), InMap(x), NEW steps \in Int
  PROVE  /\ Works(x, StartTask(x, steps))
         /\ StartTask(x, steps).start = x.start /\ StartTask(x, steps).left = steps
<1> DEFINE a == Latched(x)
<1>1. Works(x, a) /\ a.start = x.start
  BY LatchedWorks
<1>2. StartTask(x, steps) = [a EXCEPT !.left = steps]
  BY DEF StartTask
<1> HIDE DEF a
<1>3. /\ Works(a, [a EXCEPT !.left = steps]) /\ [a EXCEPT !.left = steps].start = a.start
      /\ [a EXCEPT !.left = steps].left = steps
  BY <1>1, LeftWorks DEF Works
<1>4. QED
  BY <1>1, <1>2, <1>3, WorksMore

LEMMA FinishTaskWorks ==
  ASSUME NEW x, Based(x)
  PROVE  /\ Works(x, FinishTask(x)) /\ FinishTask(x).left = 0
         /\ FinishTask(x).start = IF x.left = 0 THEN x.start ELSE x.start + Hop
<1>1. CASE x.left = 0
  <2>1. FinishTask(x) = x
    BY <1>1 DEF FinishTask
  <2>2. Works(x, x)
    BY DeliversNothing, WorksDelivered
  <2>3. QED
    BY <1>1, <2>1, <2>2
<1>2. CASE x.left # 0
  <2> DEFINE a == [x EXCEPT !.left = 0]
  <2>1. Works(x, a) /\ a.start = x.start /\ a.left = 0
    BY LeftWorks
  <2>2. FinishTask(x) = OverlapAdded(a)
    BY <1>2, Zenon DEF FinishTask
  <2> HIDE DEF a
  <2>3. Works(a, OverlapAdded(a)) /\ OverlapAdded(a).start = a.start + Hop
        /\ OverlapAdded(a).left = a.left
    BY <2>1, OverlapAddedWorks DEF Works
  <2>4. QED
    BY <1>2, <2>1, <2>2, <2>3, WorksMore
<1>3. QED
  BY <1>1, <1>2

(* The work on a window takes the engine a frame on.                       *)
LEMMA WorkWindowWorks ==
  ASSUME NEW x, Based(x), InMap(x)
  PROVE  /\ Works(x, WorkWindow(x)) /\ WorkWindow(x).start = x.start + Hop
         /\ WorkWindow(x).left = IF Scheduled(x) THEN 0 ELSE x.left
<1>1. CASE ~Scheduled(x)
  <2>1. WorkWindow(x) = ProcessFrame(x)
    BY <1>1, Zenon DEF WorkWindow
  <2>2. (IF Scheduled(x) THEN 0 ELSE x.left) = x.left
    BY <1>1, Zenon
  <2>3. QED
    BY <2>1, <2>2, ProcessFrameWorks
<1>2. CASE Scheduled(x)
  <2> DEFINE a == IF x.left = 0 THEN StartTask(x, 1) ELSE x
  <2>1. WorkWindow(x) = FinishTask(a)
    BY <1>2, Zenon DEF WorkWindow
  <2>2. Works(x, a) /\ a.start = x.start /\ a.left # 0
    <3>1. CASE x.left = 0
      <4>1. a = StartTask(x, 1)
        BY <3>1
      <4>2. QED
        BY <4>1, StartTaskWorks
    <3>2. CASE x.left # 0
      <4>1. a = x
        BY <3>2
      <4>2. Works(x, x)
        BY DeliversNothing, WorksDelivered
      <4>3. QED
        BY <3>2, <4>1, <4>2
    <3>3. QED
      BY <3>1, <3>2
  <2> HIDE DEF a
  <2>3. Works(a, FinishTask(a)) /\ FinishTask(a).left = 0
        /\ FinishTask(a).start = a.start + Hop
    BY <2>2, FinishTaskWorks DEF Works
  <2>4. (IF Scheduled(x) THEN 0 ELSE x.left) = 0
    BY <1>2, Zenon
  <2>5. QED
    BY <2>1, <2>2, <2>3, <2>4, WorksMore
<1>3. QED
  BY <1>1, <1>2, Zenon

(* What the engine runs from: the frame in work is complete, and only the  *)
(* engine of a realtime handle works in slices.                            *)
Running(x) ==
  /\ Based(x) /\ InMap(x) /\ x.expectedPv >= 0 /\ x.left >= 0
  /\ x.left > 0 => FullFrame(x)
  /\ ~Scheduled(x) => x.left = 0

LEMMA RunningIs ==
  ASSUME NEW x, Running(x)
  PROVE  /\ Based(x) /\ InMap(x) /\ x.expectedPv >= 0 /\ x.left \in Nat
         /\ x.start \in Nat /\ x.in \in Int
         /\ x.left > 0 => x.in >= x.start + N
<1>1. Based(x) /\ InMap(x) /\ x.expectedPv >= 0 /\ x.left >= 0 /\ x.start >= 0
      /\ (x.left > 0 => FullFrame(x))
  BY Zenon DEF Running, InMap
<1>2. x.left \in Int /\ x.start \in Int /\ x.in \in Int
  BY <1>1, BasedIs
<1>3. QED
  BY <1>1, <1>2 DEF FullFrame

(* A frame on, with nothing in work.                                       *)
LEMMA RunningNext ==
  ASSUME NEW x, Running(x), FullFrame(x), NEW y, Works(x, y), y.start = x.start + Hop,
         y.left = 0
  PROVE  Running(y)
<1>1. InMap(y)
  BY RunningIs, InMapNext
<1>2. Based(y) /\ y.expectedPv = x.expectedPv
  BY WorksKeeps
<1>3. x.expectedPv >= 0
  BY RunningIs
<1>4. y.expectedPv >= 0 /\ y.left >= 0 /\ ~(y.left > 0)
  BY <1>2, <1>3
<1>5. QED
  BY <1>1, <1>2, <1>4, Zenon DEF Running

LEMMA RunningSame ==
  ASSUME NEW x, Running(x), NEW y, Works(x, y), y.start = x.start,
         y.left \in Nat, y.left > 0 => FullFrame(x) /\ Scheduled(x)
  PROVE  Running(y)
<1>1. InMap(y)
  BY RunningIs, InMapSame
<1>2. Based(y) /\ y.expectedPv = x.expectedPv /\ y.in = x.in
      /\ (Scheduled(y) <=> Scheduled(x))
  BY WorksKeeps
<1>3. x.expectedPv >= 0
  BY RunningIs
<1>4. y.expectedPv >= 0 /\ y.left >= 0
  BY <1>2, <1>3
<1>5. FullFrame(x) => FullFrame(y)
  BY <1>2 DEF FullFrame
<1>6. y.left > 0 => FullFrame(y)
  BY <1>5
<1>7. ~Scheduled(y) => y.left = 0
  <2>1. y.left > 0 => Scheduled(y)
    BY <1>2, Zenon
  <2>2. y.left = 0 \/ y.left > 0
    OBVIOUS
  <2>3. QED
    BY <2>1, <2>2, Zenon
<1>8. QED
  BY <1>1, <1>2, <1>4, <1>6, <1>7, Zenon DEF Running

LEMMA QuotientBelow ==
  ASSUME NEW m \in Int, NEW d \in Nat, d > 0
  PROVE  m \div d \in Int /\ d * (m \div d) <= m
<1> DEFINE q == m \div d
<1>1. q \in Int /\ d * q <= m
  OBVIOUS
<1>2. QED
  BY <1>1

LEMMA WindowsCount ==
  ASSUME NEW x, Running(x)
  PROVE  /\ Windows(x) \in Nat
         /\ \A k \in Nat : k < Windows(x) => x.start + k * Hop + N <= x.in
<1> DEFINE d == x.in - x.start - N
           q == d \div Hop
<1>1. d \in Int /\ Hop \in Nat /\ Hop > 0
  BY RunningIs, SizesAre
<1> HIDE DEF d
<1>2. q \in Int /\ q * Hop <= d
  <2>1. q \in Int /\ Hop * q <= d
    BY <1>1, QuotientBelow
  <2> HIDE DEF q
  <2>2. Hop * q = q * Hop
    BY <1>1, <2>1
  <2>3. QED
    BY <2>1, <2>2
<1>3. Windows(x) = Greater(0, q + 1)
  BY DEF Windows, d
<1> HIDE DEF q
<1>4. Windows(x) \in Nat
  BY <1>2, <1>3 DEF Greater
<1>5. ASSUME NEW k \in Nat, k < Windows(x) PROVE x.start + k * Hop + N <= x.in
  <2>1. k <= q
    BY <1>2, <1>3, <1>5 DEF Greater
  <2>2. q \in Nat
    BY <1>2, <2>1
  <2>3. k * Hop <= q * Hop /\ k * Hop \in Nat
    BY <1>1, <2>1, <2>2, ProductGrows
  <2> DEFINE a == k * Hop
             b == q * Hop
  <2>4. a <= b /\ a \in Nat /\ b \in Int /\ b <= d
    BY <1>1, <1>2, <2>3
  <2> HIDE DEF a, b
  <2>5. a <= d
    BY <2>4, <1>1
  <2>6. x.start + a + N <= x.in
    BY <2>4, <2>5, RunningIs, SizesAre DEF d
  <2>7. QED
    BY <2>6 DEF a
<1>6. QED
  BY <1>4, <1>5

(* Every window that is complete is worked on, and the engine runs on.     *)
LEMMA ProcessAvailableWorks ==
  ASSUME NEW x, Running(x)
  PROVE  Works(x, ProcessAvailable(x)) /\ Running(ProcessAvailable(x))
<1> DEFINE n == Windows(x)
<1>1. n \in Nat /\ \A k \in Nat : k < n => x.start + k * Hop + N <= x.in
  BY WindowsCount
<1>2. PICK f : /\ f[0] = x
               /\ \A k \in 1 .. n : f[k] = WorkWindow(f[k - 1])
               /\ ProcessAvailable(x) = f[n]
  BY <1>1, WindowsIs
<1> HIDE DEF n
<1> DEFINE S == {k \in Nat : k <= n => /\ Works(x, f[k]) /\ Running(f[k])
                                      /\ f[k].start = x.start + k * Hop}
<1>3. 0 \in S
  <2>1. Works(x, x)
    BY RunningIs, DeliversNothing, WorksDelivered
  <2>2. x.start = x.start + 0 * Hop
    BY RunningIs, SizesAre
  <2>3. QED
    BY <1>2, <2>1, <2>2
<1>4. ASSUME NEW k \in Nat, k \in S PROVE k + 1 \in S
  <2> SUFFICES ASSUME k + 1 <= n
               PROVE  /\ Works(x, f[k + 1]) /\ Running(f[k + 1])
                      /\ f[k + 1].start = x.start + (k + 1) * Hop
    OBVIOUS
  <2> DEFINE y == f[k]
             z == f[k + 1]
  <2>1. Works(x, y) /\ Running(y) /\ y.start = x.start + k * Hop
    BY <1>1, <1>4
  <2>2. z = WorkWindow(y)
    <3>1. k + 1 \in 1 .. n /\ (k + 1) - 1 = k
      BY <1>1
    <3>2. f[k + 1] = WorkWindow(f[(k + 1) - 1])
      BY <1>2, <3>1
    <3>3. QED
      BY <3>1, <3>2
  <2>3. x.start + k * Hop + N <= x.in
    BY <1>1
  <2> HIDE DEF y, z
  <2>4. FullFrame(y)
    <3>1. y.in = x.in
      BY <2>1, WorksKeeps
    <3> DEFINE m == k * Hop
    <3>2. m \in Int /\ y.start = x.start + m /\ x.start + m + N <= x.in
      BY <2>1, <2>3, SizesAre
    <3> HIDE DEF m
    <3>3. QED
      BY <3>1, <3>2, RunningIs, SizesAre DEF FullFrame
  <2>5. Works(y, z) /\ z.start = y.start + Hop
        /\ z.left = IF Scheduled(y) THEN 0 ELSE y.left
    BY <2>1, <2>2, WorkWindowWorks, RunningIs
  <2>6. z.left = 0
    <3>1. CASE Scheduled(y)
      BY <2>5, <3>1, Zenon
    <3>2. CASE ~Scheduled(y)
      BY <2>1, <2>5, <3>2, Zenon DEF Running
    <3>3. QED
      BY <3>1, <3>2, Zenon
  <2>7. Running(z)
    BY <2>1, <2>4, <2>5, <2>6, RunningNext
  <2>8. z.start = x.start + (k + 1) * Hop
    <3> DEFINE m == k * Hop
    <3>1. (k + 1) * Hop = m + Hop /\ m \in Int
      BY SizesAre
    <3>2. y.start = x.start + m
      BY <2>1
    <3> HIDE DEF m
    <3>3. z.start = x.start + (m + Hop)
      BY <2>5, <3>1, <3>2, RunningIs, SizesAre
    <3>4. QED
      BY <3>1, <3>3
  <2>9. Works(x, z)
    BY <2>1, <2>5, WorksMore
  <2>10. QED
    BY <2>7, <2>8, <2>9 DEF z
<1> HIDE DEF S
<1>5. n \in S
  BY <1>1, <1>3, <1>4, SetInduction
<1>6. QED
  BY <1>1, <1>2, <1>5 DEF S

(* A failed engine is as it was.                                           *)
LEMMA FailedIs ==
  ASSUME NEW x, Based(x)
  PROVE  /\ Based(Failed(x)) /\ Same(x, Failed(x), Fields \ {"ok"})
         /\ Failed(x).ok = FALSE
<1> DEFINE y == Failed(x)
           no == FALSE
<1>1. DOMAIN x = Fields /\ \A g \in Numbers : x[g] \in Int
  BY DEF Based, Typed
<1>2. y = [x EXCEPT !.ok = no]
  BY DEF Failed
<1>3. no = FALSE
  OBVIOUS
<1> HIDE DEF y, no
<1>4. DOMAIN y = Fields
  BY <1>1, <1>2
<1>5. y.ok = no /\ \A g \in Fields : g # "ok" => y[g] = x[g]
  BY <1>1, <1>2 DEF Fields, Numbers
<1>6. /\ y.kind = x.kind /\ y.line = x.line /\ y.time = x.time /\ y.pitch = x.pitch
      /\ y.emitted = x.emitted /\ y.source = x.source
  BY <1>5 DEF Fields, Numbers
<1>7. Typed(y)
  BY <1>1, <1>4, <1>5 DEF Typed, Numbers, Fields
<1>8. Begun(y)
  BY <1>6, Zenon DEF Begun, Timeline, Based
<1>9. Based(y)
  BY <1>6, <1>7, <1>8 DEF Based
<1>10. Same(x, y, Fields \ {"ok"})
  BY <1>5 DEF Same
<1>11. y.ok = FALSE
  BY <1>3, <1>5, Zenon
<1>12. QED
  BY <1>9, <1>10, <1>11, Zenon DEF y

LEMMA RunningDelivered ==
  ASSUME NEW x, Running(x), NEW y, Delivers(x, y)
  PROVE  Running(y)
<1>1. Works(x, y) /\ y.start = x.start /\ y.left = x.left
  BY WorksDelivered, DeliversKeeps
<1>2. x.left \in Nat
  BY RunningIs
<1>3. x.left > 0 => FullFrame(x) /\ Scheduled(x)
  <2>1. x.left > 0 => x.left # 0
    BY <1>2
  <2>2. QED
    BY <2>1, Zenon DEF Running
<1>4. QED
  BY <1>1, <1>2, <1>3, RunningSame

(* A tick of the sliced work: it goes on, or the frame is late.            *)
LEMMA TickWorks ==
  ASSUME NEW x, Running(x), Scheduled(x), NEW steps \in Nat
  PROVE  \E y : /\ Works(x, y) /\ Running(y)
                /\ Tick(x, steps) = y \/ Tick(x, steps) = Failed(y)
<1> DEFINE busy == IF x.left = 0 /\ FullFrame(x) THEN StartTask(x, steps) ELSE x
           y == Worked(busy)
<1>1. Works(x, busy) /\ Running(busy)
  <2>1. CASE x.left = 0 /\ FullFrame(x)
    <3>1. busy = StartTask(x, steps)
      BY <2>1, Zenon
    <3> DEFINE z == StartTask(x, steps)
    <3>2. Works(x, z) /\ z.start = x.start /\ z.left = steps
      BY RunningIs, StartTaskWorks
    <3> HIDE DEF z
    <3>3. Running(z)
      BY <2>1, <3>2, RunningSame
    <3>4. QED
      BY <3>1, <3>2, <3>3 DEF z
  <2>2. CASE ~(x.left = 0 /\ FullFrame(x))
    <3>1. busy = x
      BY <2>2, Zenon
    <3>2. Works(x, x)
      BY RunningIs, DeliversNothing, WorksDelivered
    <3>3. QED
      BY <3>1, <3>2
  <2>3. QED
    BY <2>1, <2>2, Zenon
<1>2. Tick(x, steps) = InTime(y)
  BY Zenon DEF Tick
<1> HIDE DEF busy
<1>3. Scheduled(busy) /\ busy.left \in Nat /\ Based(busy)
  BY <1>1, WorksKeeps, RunningIs
<1>4. Works(busy, y) /\ Running(y)
  <2>1. CASE busy.left <= StepsPerInput
    <3>1. y = FinishTask(busy)
      BY <2>1, Zenon DEF Worked
    <3> HIDE DEF y
    <3>2. /\ Works(busy, y) /\ y.left = 0
          /\ y.start = IF busy.left = 0 THEN busy.start ELSE busy.start + Hop
      BY <1>3, <3>1, FinishTaskWorks
    <3>3. CASE busy.left = 0
      <4>1. y.start = busy.start
        BY <3>2, <3>3
      <4>2. QED
        BY <1>1, <3>2, <4>1, RunningSame
    <3>4. CASE busy.left # 0
      <4>1. y.start = busy.start + Hop
        BY <3>2, <3>4
      <4>2. FullFrame(busy)
        <5>1. busy.left > 0
          BY <1>3, <3>4
        <5>2. QED
          BY <1>1, <5>1, Zenon DEF Running
      <4>3. QED
        BY <1>1, <3>2, <4>1, <4>2, RunningNext
    <3>5. QED
      BY <3>3, <3>4
  <2>2. CASE ~(busy.left <= StepsPerInput)
    <3> DEFINE n == busy.left - StepsPerInput
    <3>1. y = [busy EXCEPT !.left = n]
      BY <2>2, Zenon DEF Worked
    <3>2. n \in Nat /\ n > 0 /\ busy.left > 0
      BY <1>3, <2>2, SizesAre
    <3> HIDE DEF n, y
    <3>3. Works(busy, y) /\ y.start = busy.start /\ y.left = n
      BY <1>3, <3>1, <3>2, LeftWorks
    <3>4. FullFrame(busy)
      BY <1>1, <3>2, Zenon DEF Running
    <3>5. QED
      BY <1>1, <1>3, <3>2, <3>3, <3>4, RunningSame
  <2>3. QED
    BY <2>1, <2>2
<1> HIDE DEF y
<1>5. Works(x, y)
  BY <1>1, <1>4, WorksMore
<1>6. Tick(x, steps) = y \/ Tick(x, steps) = Failed(y)
  BY <1>2, Zenon DEF InTime
<1>7. QED
  BY <1>4, <1>5, <1>6

-----------------------------------------------------------------------------
(* The engine's calls. *)

(* What they leave alone of its control: they tick the plan or do not.     *)
Keeps(x, y) ==
  /\ Based(y) /\ y.kind = x.kind /\ y.time = x.time /\ y.pitch = x.pitch
  /\ y.flushed = x.flushed /\ y.explicit = x.explicit
  /\ y.line.plan = x.line.plan \/ y.line.plan = TickedPlan(x.line.plan)

(* An input frame is in.                                                   *)
Fed(x, y) ==
  Based(y) /\ Same(x, y, Fields \ {"in", "real"}) /\ y.in = x.in + 1

(* The map has it, too.                                                    *)
Grown(x, y) ==
  /\ Based(y) /\ Same(x, y, Fields \ {"line"}) /\ y.line.written = x.line.written + 1
  /\ x.line.written + 1 - x.start < Nodes /\ y.line.position \in Nat
  /\ y.line.plan = IF ~x.flushed \/ ~x.explicit THEN TickedPlan(x.line.plan)
                   ELSE x.line.plan

LEMMA AppendTimelineIs ==
  ASSUME NEW x, Based(x), Timeline(x)
  PROVE  AppendTimeline(x) = Failed(x) \/ Grown(x, AppendTimeline(x))
<1> DEFINE output == IF x.kind.variable THEN x.source ELSE (x.emitted * Unit) \div x.time
           oldest == Lesser(x.start, output)
           advance == ~x.flushed \/ ~x.explicit
           grown == Appended(x.line, advance)
           y == [x EXCEPT !.line = grown]
<1>1. CASE ~CanAppend(x.line, oldest)
  BY <1>1, Zenon DEF AppendTimeline
<1>2. CASE CanAppend(x.line, oldest)
  <2>1. AppendTimeline(x) = y
    BY <1>2, Zenon DEF AppendTimeline
  <2>2. Chart(x.line) /\ x.start \in Int
    BY BasedIs DEF Based
  <2>3. x.line.written + 1 - x.start < Nodes
    <3>1. output \in Int
      <4>1. CASE x.kind.variable
        BY <4>1, BasedIs, Zenon
      <4>2. CASE ~x.kind.variable
        <5> DEFINE m == x.emitted * Unit
        <5>1. m \in Int
          <6>1. \A k, n \in Int : k * n \in Int
            OBVIOUS
          <6>2. QED
            BY <6>1, BasedIs, SizesAre
        <5> HIDE DEF m
        <5>2. m \div x.time \in Int
          BY <5>1, BasedIs
        <5>3. output = m \div x.time
          BY <4>2, Zenon DEF m
        <5>4. QED
          BY <5>2, <5>3
      <4>3. QED
        BY <4>1, <4>2, Zenon
    <3> HIDE DEF output
    <3>2. oldest <= x.start /\ oldest \in Int
      BY <2>2, <3>1 DEF Lesser
    <3>3. x.line.written + 1 - oldest < Nodes
      BY <1>2 DEF CanAppend
    <3>4. QED
      BY <2>2, <3>2, <3>3, SizesAre DEF Chart
  <2>4. /\ Chart(grown) /\ grown.written = x.line.written + 1
        /\ grown.plan = IF advance THEN TickedPlan(x.line.plan) ELSE x.line.plan
    BY <2>2, AppendedIs, Zenon
  <2> DEFINE plan == IF ~x.flushed \/ ~x.explicit THEN TickedPlan(x.line.plan)
                     ELSE x.line.plan
  <2>5. grown.plan = plan
    BY <2>4, Zenon
  <2> HIDE DEF grown, plan
  <2>6. DOMAIN x = Fields /\ \A g \in Numbers : x[g] \in Int
    BY DEF Based, Typed
  <2>7. DOMAIN y = Fields
    BY <2>6
  <2>8. y.line = grown /\ \A g \in Fields : g # "line" => y[g] = x[g]
    BY <2>6 DEF Fields, Numbers
  <2> HIDE DEF y
  <2>9. Typed(y)
    BY <2>6, <2>7, <2>8 DEF Typed, Fields, Numbers
  <2>10. /\ y.kind = x.kind /\ y.time = x.time /\ y.pitch = x.pitch
         /\ y.emitted = x.emitted /\ y.source = x.source
    BY <2>8 DEF Fields, Numbers
  <2>11. Begun(y)
    BY <2>10, Zenon DEF Begun, Timeline, Based
  <2>12. Based(y)
    BY <2>4, <2>8, <2>9, <2>10, <2>11 DEF Based
  <2>13. Same(x, y, Fields \ {"line"})
    BY <2>8 DEF Same
  <2>14. y.line.position \in Nat
    BY <2>4, <2>8 DEF Chart
  <2>15. y.line.written = x.line.written + 1 /\ y.line.plan = plan
    BY <2>4, <2>5, <2>8
  <2>16. Grown(x, y)
    BY <2>3, <2>12, <2>13, <2>14, <2>15, Zenon DEF Grown, plan
  <2>17. QED
    BY <2>1, <2>16 DEF y
<1>3. QED
  BY <1>1, <1>2, Zenon

LEMMA BasedIf ==
  ASSUME NEW x, Based(x), NEW y, DOMAIN y = Fields, \A f \in Numbers : y[f] \in Int,
         y.kind = x.kind, y.line = x.line, y.time = x.time, y.pitch = x.pitch,
         y.emitted = x.emitted, y.source = x.source
  PROVE  Based(y)
<1>1. Typed(y)
  BY DEF Typed
<1>2. Begun(y)
  BY Zenon DEF Begun, Timeline, Based
<1>3. QED
  BY <1>1, <1>2 DEF Based

LEMMA FedIs ==
  ASSUME NEW x, Running(x), NEW y, Fed(x, y)
  PROVE  /\ Based(y) /\ y.kind = x.kind /\ y.line = x.line /\ y.time = x.time
         /\ y.pitch = x.pitch /\ y.flushed = x.flushed /\ y.explicit = x.explicit
         /\ y.start = x.start /\ y.left = x.left /\ y.expectedPv = x.expectedPv
         /\ y.in = x.in + 1 /\ y.ok = x.ok
         /\ Timeline(y) <=> Timeline(x)
         /\ Scheduled(y) <=> Scheduled(x)
<1>1. Based(y) /\ y.in = x.in + 1 /\ \A f \in Fields \ {"in", "real"} : y[f] = x[f]
  BY DEF Fed, Same
<1>2. y.kind = x.kind
  BY <1>1 DEF Fields, Numbers
<1>3. (Timeline(y) <=> Timeline(x)) /\ (Scheduled(y) <=> Scheduled(x))
  BY <1>2, Zenon DEF Timeline, Scheduled
<1>4. QED
  BY <1>1, <1>2, <1>3 DEF Fields, Numbers

(* With its input in the map the engine runs on.                           *)
LEMMA FedRuns ==
  ASSUME NEW x, Running(x), NEW y, Fed(x, y), NEW z,
         IF Timeline(y) THEN Grown(y, z) ELSE z = y
  PROVE  /\ Running(z) /\ Keeps(x, z) /\ z.ok = x.ok
         /\ Timeline(x) => z.line.position \in Nat
         /\ Timeline(x) /\ ~x.flushed => z.line.plan = TickedPlan(x.line.plan)
<1>1. /\ Based(y) /\ y.kind = x.kind /\ y.line = x.line /\ y.time = x.time
      /\ y.pitch = x.pitch /\ y.flushed = x.flushed /\ y.explicit = x.explicit
      /\ y.start = x.start /\ y.left = x.left /\ y.expectedPv = x.expectedPv
      /\ y.in = x.in + 1 /\ y.ok = x.ok
      /\ Timeline(y) <=> Timeline(x)
      /\ Scheduled(y) <=> Scheduled(x)
  BY FedIs
<1>2. /\ x.expectedPv >= 0 /\ x.left \in Nat /\ x.start \in Nat /\ x.in \in Int
      /\ x.left > 0 => x.in >= x.start + N
  BY RunningIs
<1>3. ~Scheduled(x) => x.left = 0
  BY Zenon DEF Running
<1>4. /\ Based(z) /\ z.kind = y.kind /\ z.time = y.time
      /\ z.pitch = y.pitch /\ z.flushed = y.flushed /\ z.explicit = y.explicit
      /\ z.start = y.start /\ z.left = y.left /\ z.expectedPv = y.expectedPv
      /\ z.in = y.in /\ z.ok = y.ok
  <2>1. CASE Timeline(y)
    <3>1. Grown(y, z)
      BY <2>1, Zenon
    <3>2. Based(z) /\ \A f \in Fields \ {"line"} : z[f] = y[f]
      BY <3>1, Zenon DEF Grown, Same
    <3>3. QED
      BY <3>2 DEF Fields, Numbers
  <2>2. CASE ~Timeline(y)
    <3>1. z = y
      BY <2>2, Zenon
    <3>2. QED
      BY <1>1, <3>1
  <2>3. QED
    BY <2>1, <2>2, Zenon
<1>5. (Timeline(z) <=> Timeline(x)) /\ (Scheduled(z) <=> Scheduled(x))
  <2>1. z.kind = x.kind
    BY <1>1, <1>4
  <2>2. QED
    BY <2>1, Zenon DEF Timeline, Scheduled
<1>6. ASSUME Timeline(x)
      PROVE  /\ z.line.written = z.in - Crop /\ z.start <= z.line.written
             /\ z.line.written - z.start < Nodes /\ z.line.position \in Nat
             /\ ~x.flushed => z.line.plan = TickedPlan(x.line.plan)
             /\ z.line.plan = x.line.plan \/ z.line.plan = TickedPlan(x.line.plan)
  <2>1. Grown(y, z)
    BY <1>1, <1>6, Zenon
  <2>2. /\ z.line.written = y.line.written + 1
        /\ y.line.written + 1 - y.start < Nodes /\ z.line.position \in Nat
    BY <2>1, Zenon DEF Grown
  <2>3. /\ x.line.written = x.in - Crop /\ x.line.written \in Nat
        /\ x.start <= x.line.written
    BY <1>6, RunningIs, InMapIs
  <2>4. ~x.flushed => z.line.plan = TickedPlan(x.line.plan)
    <3>1. ASSUME ~x.flushed PROVE z.line.plan = TickedPlan(x.line.plan)
      <4>1. ~y.flushed
        BY <1>1, <3>1, Zenon
      <4>2. z.line.plan = TickedPlan(y.line.plan)
        BY <2>1, <4>1, Zenon DEF Grown
      <4>3. QED
        BY <1>1, <4>2
    <3>2. QED
      BY <3>1, Zenon
  <2>5. z.line.plan = x.line.plan \/ z.line.plan = TickedPlan(x.line.plan)
    <3>1. z.line.plan = y.line.plan \/ z.line.plan = TickedPlan(y.line.plan)
      BY <2>1, Zenon DEF Grown
    <3>2. QED
      BY <1>1, <3>1
  <2>6. /\ z.line.written = z.in - Crop /\ z.start <= z.line.written
        /\ z.line.written - z.start < Nodes
    BY <1>1, <1>2, <1>4, <2>2, <2>3, SizesAre
  <2>7. QED
    BY <2>2, <2>4, <2>5, <2>6
<1>7. ASSUME ~Timeline(x) PROVE z.line.plan = x.line.plan
  <2>1. z = y
    BY <1>1, <1>7, Zenon
  <2>2. QED
    BY <1>1, <2>1
<1>8. Keeps(x, z)
  <2>1. z.line.plan = x.line.plan \/ z.line.plan = TickedPlan(x.line.plan)
    BY <1>6, <1>7, Zenon
  <2>2. QED
    BY <1>1, <1>4, <2>1, Zenon DEF Keeps
<1>9. InMap(z)
  <2>1. z.start >= 0
    BY <1>1, <1>2, <1>4
  <2>2. QED
    BY <1>5, <1>6, <2>1, Zenon DEF InMap
<1>10. Running(z)
  <2>1. z.expectedPv >= 0 /\ z.left >= 0 /\ (z.left > 0 => FullFrame(z))
    BY <1>1, <1>2, <1>4, SizesAre DEF FullFrame
  <2>2. ~Scheduled(z) => z.left = 0
    <3>1. z.left = x.left
      BY <1>1, <1>4
    <3>2. QED
      BY <1>3, <1>5, <3>1, Zenon
  <2>3. QED
    BY <1>4, <1>9, <2>1, <2>2, Zenon DEF Running
<1>11. z.ok = x.ok
  BY <1>1, <1>4, Zenon
<1>12. QED
  BY <1>6, <1>8, <1>10, <1>11, Zenon

LEMMA KeepsWorked ==
  ASSUME NEW x, NEW y, NEW z, Keeps(x, y), Works(y, z)
  PROVE  Keeps(x, z)
<1>1. /\ Based(z) /\ z.kind = y.kind /\ z.line = y.line /\ z.time = y.time
      /\ z.pitch = y.pitch /\ z.flushed = y.flushed /\ z.explicit = y.explicit
  BY WorksKeeps
<1>2. QED
  BY <1>1, Zenon DEF Keeps

LEMMA KeepsFailed ==
  ASSUME NEW x, NEW y, Keeps(x, y)
  PROVE  Keeps(x, Failed(y)) /\ ~Failed(y).ok
<1>1. Based(Failed(y)) /\ Same(y, Failed(y), Fields \ {"ok"}) /\ Failed(y).ok = FALSE
  BY FailedIs, Zenon DEF Keeps
<1>2. \A f \in Fields \ {"ok"} : Failed(y)[f] = y[f]
  BY <1>1 DEF Same
<1>3. /\ Failed(y).kind = y.kind /\ Failed(y).line = y.line /\ Failed(y).time = y.time
      /\ Failed(y).pitch = y.pitch /\ Failed(y).flushed = y.flushed
      /\ Failed(y).explicit = y.explicit
  BY <1>2 DEF Fields, Numbers
<1>4. ~Failed(y).ok
  BY <1>1, Zenon
<1>5. QED
  BY <1>1, <1>3, <1>4, Zenon DEF Keeps

(* What the input has earned is set.                                       *)
LEMMA EarnedIs ==
  ASSUME NEW x, Based(x), NEW v \in Int, NEW w \in Int
  PROVE  LET y == [x EXCEPT !.expectedOut = v, !.expectedPv = w] IN
         /\ Based(y) /\ Same(x, y, Fields \ {"expectedOut", "expectedPv"})
         /\ y.expectedPv = w
<1> DEFINE y == [x EXCEPT !.expectedOut = v, !.expectedPv = w]
<1>1. DOMAIN x = Fields /\ \A g \in Numbers : x[g] \in Int
  BY DEF Based, Typed
<1>2. DOMAIN y = Fields
  BY <1>1
<1>3. /\ y.expectedOut = v /\ y.expectedPv = w
      /\ \A g \in Fields : g # "expectedOut" /\ g # "expectedPv" => y[g] = x[g]
  BY <1>1 DEF Fields, Numbers
<1> HIDE DEF y
<1>4. \A g \in Numbers : y[g] \in Int
  BY <1>1, <1>3 DEF Numbers, Fields
<1>5. /\ y.kind = x.kind /\ y.line = x.line /\ y.time = x.time /\ y.pitch = x.pitch
      /\ y.emitted = x.emitted /\ y.source = x.source
  BY <1>3 DEF Fields, Numbers
<1>6. Based(y)
  BY <1>2, <1>4, <1>5, BasedIf
<1>7. Same(x, y, Fields \ {"expectedOut", "expectedPv"})
  BY <1>3 DEF Same
<1>8. QED
  BY <1>3, <1>6, <1>7 DEF y

LEMMA EarnedRuns ==
  ASSUME NEW x, Running(x), NEW y, Based(y), y.expectedPv >= 0,
         Same(x, y, Fields \ {"expectedOut", "expectedPv"})
  PROVE  Running(y)
<1>1. \A f \in Fields \ {"expectedOut", "expectedPv"} : y[f] = x[f]
  BY DEF Same
<1>2. /\ y.kind = x.kind /\ y.line = x.line /\ y.start = x.start /\ y.left = x.left
      /\ y.in = x.in
  BY <1>1 DEF Fields, Numbers
<1>3. (Timeline(y) <=> Timeline(x)) /\ (Scheduled(y) <=> Scheduled(x))
  BY <1>2, Zenon DEF Timeline, Scheduled
<1>4. InMap(y)
  BY <1>2, <1>3, Zenon DEF InMap, Running
<1>5. FullFrame(y) <=> FullFrame(x)
  BY <1>2, Zenon DEF FullFrame
<1>6. QED
  BY <1>2, <1>3, <1>4, <1>5, Zenon DEF Running

LEMMA EarnIs ==
  ASSUME NEW x, Running(x), x.ok, NEW y, Fed(x, y)
  PROVE  /\ Keeps(x, Earn(y))
         /\ Earn(y).ok => Running(Earn(y))
         /\ Earn(y).ok /\ Timeline(x) /\ ~x.flushed
              => Earn(y).line.plan = TickedPlan(x.line.plan)
<1> DEFINE fields == Fields \ {"expectedOut", "expectedPv"}
<1>1. /\ Based(y) /\ (Timeline(y) <=> Timeline(x))
      /\ y.kind = x.kind /\ y.line = x.line /\ y.time = x.time
      /\ y.pitch = x.pitch /\ y.flushed = x.flushed /\ y.explicit = x.explicit
  BY FedIs
<1>2. ASSUME NEW a, Based(a), NEW z, Based(z), Same(a, z, fields)
      PROVE  /\ z.line = a.line /\ z.ok = a.ok
             /\ Keeps(x, a) => Keeps(x, z)
             /\ Running(a) /\ z.expectedPv >= 0 => Running(z)
  <2>1. \A f \in Fields \ {"expectedOut", "expectedPv"} : z[f] = a[f]
    BY <1>2 DEF Same
  <2>2. /\ z.kind = a.kind /\ z.line = a.line /\ z.time = a.time
        /\ z.pitch = a.pitch /\ z.flushed = a.flushed /\ z.explicit = a.explicit
        /\ z.ok = a.ok
    BY <2>1 DEF Fields, Numbers
  <2>3. ASSUME Keeps(x, a) PROVE Keeps(x, z)
    BY <1>2, <2>2, <2>3, Zenon DEF Keeps
  <2>4. Running(a) /\ z.expectedPv >= 0 => Running(z)
    BY <1>2, EarnedRuns
  <2>5. QED
    BY <2>2, <2>3, <2>4
<1>3. CASE Timeline(y)
  <2> DEFINE a == AppendTimeline(y)
             v == a.line.output
             w == a.line.position
             z == [a EXCEPT !.expectedOut = v, !.expectedPv = w]
  <2>1. Earn(y) = z
    BY <1>3, Zenon DEF Earn, EarnMapped
  <2>2. a = Failed(y) \/ Grown(y, a)
    BY <1>1, <1>3, AppendTimelineIs
  <2> HIDE DEF a
  <2>3. CASE a = Failed(y)
    <3>1. Keeps(x, y)
      BY <1>1, Zenon DEF Keeps
    <3>2. Keeps(x, a) /\ ~a.ok
      BY <2>3, <3>1, KeepsFailed
    <3>3. Based(a)
      BY <3>2, Zenon DEF Keeps
    <3>4. v \in Int /\ w \in Int
      BY <3>3 DEF Based, Chart
    <3>5. Based(z) /\ Same(a, z, fields)
      BY <3>3, <3>4, EarnedIs
    <3> HIDE DEF z, fields
    <3>6. Keeps(x, z) /\ z.ok = a.ok
      BY <1>2, <3>2, <3>3, <3>5
    <3>7. ~z.ok
      BY <3>2, <3>6, Zenon
    <3>8. QED
      BY <2>1, <3>6, <3>7, Zenon
  <2>4. CASE Grown(y, a)
    <3>1. /\ Running(a) /\ Keeps(x, a) /\ a.ok = x.ok
          /\ Timeline(x) => a.line.position \in Nat
          /\ Timeline(x) /\ ~x.flushed => a.line.plan = TickedPlan(x.line.plan)
      <4>1. IF Timeline(y) THEN Grown(y, a) ELSE a = y
        BY <1>3, <2>4, Zenon
      <4>2. QED
        BY <4>1, FedRuns
    <3>2. Based(a) /\ w \in Nat
      BY <1>1, <1>3, <3>1, RunningIs
    <3>3. v \in Int /\ w \in Int
      BY <3>2 DEF Based, Chart
    <3> HIDE DEF v, w
    <3>4. Based(z) /\ Same(a, z, fields) /\ z.expectedPv = w
      BY <3>2, <3>3, EarnedIs
    <3> HIDE DEF z, fields
    <3>5. z.expectedPv >= 0
      BY <3>2, <3>4
    <3>6. Keeps(x, z) /\ Running(z) /\ z.line = a.line
      BY <1>2, <3>1, <3>2, <3>4, <3>5
    <3>7. QED
      BY <2>1, <3>1, <3>6, Zenon
  <2>5. QED
    BY <2>2, <2>3, <2>4
<1>4. CASE ~Timeline(y)
  <2> DEFINE v == y.expectedOut + y.time * Unit
             w == y.expectedPv + Stretch(y)
             z == [y EXCEPT !.expectedOut = v, !.expectedPv = w]
  <2>1. Earn(y) = z
    BY <1>4, Zenon DEF Earn
  <2>2. /\ Running(y) /\ Keeps(x, y)
    <3>1. IF Timeline(y) THEN Grown(y, y) ELSE y = y
      BY <1>4, Zenon
    <3>2. QED
      BY <3>1, FedRuns
  <2>3. v \in Int /\ w \in Int /\ w >= 0
    <3>1. Stretch(y) = y.time * y.pitch
      BY <1>4, Zenon DEF Stretch, FramePitch
    <3>2. \A m, n \in Nat : m * n \in Nat
      OBVIOUS
    <3>3. Stretch(y) \in Nat /\ y.time * Unit \in Nat
      BY <1>1, <3>1, <3>2, BasedIs, SizesAre
    <3>4. y.expectedPv >= 0 /\ y.expectedPv \in Int /\ y.expectedOut \in Int
      BY <1>1, <2>2, BasedIs, RunningIs
    <3> DEFINE m == y.time * Unit
    <3>5. m \in Nat
      BY <3>3
    <3> HIDE DEF m
    <3>6. QED
      BY <3>3, <3>4, <3>5 DEF m
  <2> HIDE DEF v, w
  <2>4. Based(z) /\ Same(y, z, fields) /\ z.expectedPv = w
    <3>1. Based(y) /\ v \in Int /\ w \in Int
      BY <1>1, <2>3
    <3>2. QED
      BY <3>1, EarnedIs, Zenon
  <2> HIDE DEF z, fields
  <2>5. z.expectedPv >= 0
    BY <2>3, <2>4
  <2>6. Keeps(x, z) /\ Running(z)
    BY <1>1, <1>2, <2>2, <2>4, <2>5
  <2>7. QED
    BY <1>1, <1>4, <2>1, <2>6, Zenon
<1>5. QED
  BY <1>3, <1>4, Zenon

LEMMA FedInput ==
  ASSUME NEW x, Based(x)
  PROVE  /\ Fed(x, [x EXCEPT !.in = @ + 1])
         /\ Fed(x, [x EXCEPT !.in = @ + 1, !.real = @ + 1])
<1> DEFINE y == [x EXCEPT !.in = @ + 1]
           z == [x EXCEPT !.in = @ + 1, !.real = @ + 1]
<1>1. DOMAIN x = Fields /\ \A g \in Numbers : x[g] \in Int
  BY DEF Based, Typed
<1>2. DOMAIN y = Fields /\ DOMAIN z = Fields
  BY <1>1
<1>3. /\ y.in = x.in + 1 /\ z.in = x.in + 1 /\ z.real = x.real + 1
      /\ \A g \in Fields : g # "in" => y[g] = x[g]
      /\ \A g \in Fields : g # "in" /\ g # "real" => z[g] = x[g]
  BY <1>1 DEF Fields, Numbers
<1> HIDE DEF y, z
<1>4. x.in \in Int /\ x.real \in Int
  BY BasedIs
<1>5. (\A g \in Numbers : y[g] \in Int) /\ (\A g \in Numbers : z[g] \in Int)
  BY <1>1, <1>3, <1>4 DEF Numbers, Fields
<1>6. /\ y.kind = x.kind /\ y.line = x.line /\ y.time = x.time /\ y.pitch = x.pitch
      /\ y.emitted = x.emitted /\ y.source = x.source
      /\ z.kind = x.kind /\ z.line = x.line /\ z.time = x.time /\ z.pitch = x.pitch
      /\ z.emitted = x.emitted /\ z.source = x.source
  BY <1>3 DEF Fields, Numbers
<1>7. Based(y) /\ Based(z)
  BY <1>2, <1>5, <1>6, BasedIf
<1>8. Same(x, y, Fields \ {"in", "real"}) /\ Same(x, z, Fields \ {"in", "real"})
  BY <1>3 DEF Same
<1>9. Fed(x, y) /\ Fed(x, z)
  BY <1>3, <1>7, <1>8 DEF Fed
<1>10. QED
  BY <1>9 DEF y, z

(* One frame pushed: the engine runs on, a tick later, or it has failed.   *)
LEMMA PushOneIs ==
  ASSUME NEW x, Running(x), x.ok, ~x.flushed, NEW steps \in Nat
  PROVE  /\ Keeps(x, PushOne(x, steps))
         /\ PushOne(x, steps).ok => Running(PushOne(x, steps))
         /\ PushOne(x, steps).ok /\ Timeline(x)
              => PushOne(x, steps).line.plan = TickedPlan(x.line.plan)
<1> DEFINE Good(z) ==
             /\ Keeps(x, z) /\ (z.ok => Running(z))
             /\ z.ok /\ Timeline(x) => z.line.plan = TickedPlan(x.line.plan)
<1>1. ASSUME NEW z, Good(z) PROVE Good(Failed(z))
  BY <1>1, KeepsFailed, Zenon
<1>2. ASSUME NEW z, Good(z), z.ok, NEW w, Works(z, w), Running(w) PROVE Good(w)
  <2>1. Keeps(x, w)
    BY <1>2, KeepsWorked
  <2>2. w.line = z.line
    BY <1>2, WorksKeeps
  <2>3. QED
    BY <1>2, <2>1, <2>2, Zenon
<1>3. Good(PushOne(x, steps))
  <2>1. CASE ~InputSpace(x)
    <3>1. Keeps(x, x)
      BY Zenon DEF Keeps, Running
    <3>2. PushOne(x, steps) = Failed(x)
      BY <2>1, Zenon DEF PushOne
    <3>3. QED
      BY <3>1, <3>2, KeepsFailed, Zenon
  <2>2. CASE InputSpace(x)
    <3> DEFINE a == [x EXCEPT !.in = @ + 1, !.real = @ + 1]
               b == Earn(a)
    <3>1. Fed(x, a)
      BY FedInput, RunningIs
    <3>2. PushOne(x, steps) = PushWork(b, steps)
      BY <2>2, Zenon DEF PushOne
    <3> HIDE DEF a
    <3>3. Good(b)
      <4>1. /\ Keeps(x, b) /\ (b.ok => Running(b))
            /\ b.ok /\ Timeline(x) /\ ~x.flushed => b.line.plan = TickedPlan(x.line.plan)
        BY <3>1, EarnIs
      <4> HIDE DEF b
      <4>2. QED
        BY <4>1, Zenon
    <3> HIDE DEF b
    <3>4. CASE ~b.ok
      <4>1. PushWork(b, steps) = b
        BY <3>4, Zenon DEF PushWork
      <4>2. QED
        BY <3>2, <3>3, <4>1, Zenon
    <3>5. CASE b.ok
      <4> DEFINE c == IF Scheduled(b) THEN Tick(b, steps) ELSE ProcessAvailable(b)
      <4>1. PushWork(b, steps) = PushDeliver(c)
        BY <3>5, Zenon DEF PushWork
      <4>2. Running(b)
        BY <3>3, <3>5, Zenon
      <4>3. Good(c)
        <5>1. CASE Scheduled(b)
          <6>1. c = Tick(b, steps)
            BY <5>1, Zenon
          <6>2. PICK w : /\ Works(b, w) /\ Running(w)
                         /\ Tick(b, steps) = w \/ Tick(b, steps) = Failed(w)
            BY <4>2, <5>1, TickWorks
          <6> HIDE DEF c, Good
          <6>3. Good(w)
            BY <1>2, <3>3, <3>5, <6>2
          <6>4. QED
            BY <1>1, <6>1, <6>2, <6>3
        <5>2. CASE ~Scheduled(b)
          <6>1. c = ProcessAvailable(b)
            BY <5>2, Zenon
          <6>2. Works(b, ProcessAvailable(b)) /\ Running(ProcessAvailable(b))
            BY <4>2, ProcessAvailableWorks
          <6> HIDE DEF c, Good
          <6>3. QED
            BY <1>2, <3>3, <3>5, <6>1, <6>2
        <5>3. QED
          BY <5>1, <5>2, Zenon
      <4> HIDE DEF c
      <4>4. CASE ~c.ok
        <5>1. PushDeliver(c) = c
          BY <4>4, Zenon DEF PushDeliver
        <5>2. QED
          BY <3>2, <4>1, <4>3, <5>1, Zenon
      <4>5. CASE c.ok
        <5> DEFINE d == Deliver(c, FALSE)
        <5>1. PushDeliver(c) = Room(d)
          BY <4>5, Zenon DEF PushDeliver
        <5>2. Running(c)
          BY <4>3, <4>5, Zenon
        <5>3. Delivers(c, d)
          BY <5>2, RunningIs, DeliverDelivers
        <5> HIDE DEF d
        <5>4. Running(d) /\ Works(c, d)
          BY <5>2, <5>3, RunningDelivered, WorksDelivered
        <5>5. Good(d)
          <6> HIDE DEF Good
          <6>1. QED
            BY <1>2, <4>3, <4>5, <5>4
        <5>6. Room(d) = d \/ Room(d) = Failed(d)
          BY Zenon DEF Room
        <5> HIDE DEF Good
        <5>7. Good(Room(d))
          BY <1>1, <5>5, <5>6
        <5>8. QED
          BY <3>2, <4>1, <5>1, <5>7
      <4>6. QED
        BY <4>4, <4>5, Zenon
    <3>6. QED
      BY <3>4, <3>5, Zenon
  <2>3. QED
    BY <2>1, <2>2, Zenon
<1>4. QED
  BY <1>3, Zenon

-----------------------------------------------------------------------------
(* What holds of an engine between calls. *)

(* The ratios are where the plan heads, and the time of an engine whose    *)
(* time is fixed is the one it was made with.                              *)
Planned(x) ==
  /\ x.line.plan.pitch.target = x.pitch /\ x.line.plan.time.target = x.time
  /\ ~x.kind.variable => x.line.plan.time = Steady(x.kind.time)

(* Without a limit on the stretch, as between two ramps of one offset ...  *)
Driven(x) ==
  /\ Based(x) /\ x.kind \in Kinds /\ Planned(x)
  /\ x.ok => Running(x)

(* ... and with it.                                                        *)
Fit(x) == Driven(x) /\ Safe(x.line.plan)

LEMMA PlannedTicks ==
  ASSUME NEW x, Based(x), Planned(x), NEW y, Keeps(x, y)
  PROVE  Planned(y) /\ (Safe(x.line.plan) => Safe(y.line.plan))
<1> DEFINE p == x.line.plan
<1>1. p \in Plans
  BY DEF Based, Chart
<1>2. /\ y.kind = x.kind /\ y.time = x.time /\ y.pitch = x.pitch
      /\ y.line.plan = p \/ y.line.plan = TickedPlan(p)
  BY Zenon DEF Keeps
<1>3. /\ p.pitch.target = x.pitch /\ p.time.target = x.time
      /\ ~x.kind.variable => p.time = Steady(x.kind.time)
  BY Zenon DEF Planned
<1> HIDE DEF p
<1>4. CASE y.line.plan = p
  BY <1>2, <1>3, <1>4, Zenon DEF Planned, p
<1>5. CASE y.line.plan = TickedPlan(p)
  <2> DEFINE q == TickedPlan(p)
  <2>1. /\ q.pitch.target = p.pitch.target /\ q.time.target = p.time.target
        /\ p.time.left = 0 => q.time = p.time
        /\ Safe(p) => Safe(q)
    BY <1>1, TickedPlanIs
  <2>2. Steady(x.kind.time).left = 0
    BY DEF Steady
  <2>3. ~x.kind.variable => q.time = Steady(x.kind.time)
    <3>1. ASSUME ~x.kind.variable PROVE q.time = Steady(x.kind.time)
      <4>1. p.time = Steady(x.kind.time)
        BY <1>3, <3>1, Zenon
      <4>2. p.time.left = 0
        BY <2>2, <4>1
      <4>3. QED
        BY <2>1, <4>1, <4>2
    <3>2. QED
      BY <3>1, Zenon
  <2>4. y.line.plan = q
    BY <1>5
  <2> HIDE DEF q
  <2>5. Planned(y)
    BY <1>2, <1>3, <2>1, <2>3, <2>4, Zenon DEF Planned
  <2>6. QED
    BY <2>1, <2>4, <2>5, Zenon DEF p
<1>6. QED
  BY <1>2, <1>4, <1>5, Zenon

LEMMA DrivenKeeps ==
  ASSUME NEW x, Driven(x), NEW y, Keeps(x, y), y.ok => Running(y)
  PROVE  Driven(y) /\ (Fit(x) => Fit(y))
<1>1. Planned(y) /\ (Safe(x.line.plan) => Safe(y.line.plan))
  BY PlannedTicks, Zenon DEF Driven
<1>2. y.kind = x.kind /\ Based(y)
  BY Zenon DEF Keeps
<1>3. y.kind \in Kinds
  BY <1>2 DEF Driven
<1>4. Driven(y)
  BY <1>1, <1>2, <1>3, Zenon DEF Driven
<1>5. QED
  BY <1>1, <1>4, Zenon DEF Fit

LEMMA DrivenDelivered ==
  ASSUME NEW x, Driven(x), NEW y, Delivers(x, y)
  PROVE  Driven(y) /\ (Fit(x) => Fit(y))
<1>1. Keeps(x, y)
  <2>1. Keeps(x, x)
    BY Zenon DEF Keeps, Driven
  <2>2. QED
    BY <2>1, KeepsWorked, WorksDelivered
<1>2. y.ok = x.ok
  BY DeliversKeeps
<1>3. ASSUME y.ok PROVE Running(y)
  <2>1. Running(x)
    BY <1>2, <1>3, Zenon DEF Driven
  <2>2. QED
    BY <2>1, RunningDelivered
<1>4. QED
  BY <1>1, <1>3, DrivenKeeps

(* A zero fed to an engine that is flushed. *)
LEMMA FeedZeroIs ==
  ASSUME NEW x, Based(x), x.ok => Running(x)
  PROVE  /\ Keeps(x, FeedZero(x))
         /\ FeedZero(x).ok => Running(FeedZero(x))
<1> DEFINE Good(z) == Keeps(x, z) /\ (z.ok => Running(z))
<1>1. ASSUME NEW z, Good(z) PROVE Good(Failed(z))
  BY <1>1, KeepsFailed, Zenon
<1>2. ASSUME NEW z, Good(z), NEW w, Works(z, w), Running(w) PROVE Good(w)
  <2>1. Keeps(x, w)
    BY <1>2, KeepsWorked
  <2>2. QED
    BY <1>2, <2>1, Zenon
<1>3. Good(x)
  BY Zenon DEF Keeps
<1>4. Good(FeedZero(x))
  <2>1. CASE ~x.ok \/ Complete(x)
    <3>1. FeedZero(x) = x
      BY <2>1, Zenon DEF FeedZero
    <3>2. QED
      BY <1>3, <3>1
  <2>2. CASE ~(~x.ok \/ Complete(x)) /\ ~InputSpace(x)
    <3>1. FeedZero(x) = Failed(x)
      BY <2>2, Zenon DEF FeedZero
    <3> HIDE DEF Good
    <3>2. QED
      BY <1>1, <1>3, <3>1
  <2>3. CASE ~(~x.ok \/ Complete(x)) /\ InputSpace(x)
    <3> DEFINE a == [x EXCEPT !.in = @ + 1]
               b == FeedMap(a)
    <3>1. Running(x) /\ x.ok
      BY <2>3, Zenon
    <3>2. FeedZero(x) = FeedWork(b)
      BY <2>3, Zenon DEF FeedZero
    <3>3. Fed(x, a)
      BY FedInput
    <3> HIDE DEF a
    <3>4. Good(b)
      <4>1. Based(a) /\ (Timeline(a) <=> Timeline(x)) /\ Keeps(x, a)
        <5>1. /\ Based(a) /\ a.kind = x.kind /\ a.line = x.line /\ a.time = x.time
              /\ a.pitch = x.pitch /\ a.flushed = x.flushed /\ a.explicit = x.explicit
              /\ (Timeline(a) <=> Timeline(x))
          BY <3>1, <3>3, FedIs
        <5>2. QED
          BY <5>1, Zenon DEF Keeps
      <4>2. CASE Timeline(a)
        <5>1. b = AppendTimeline(a)
          BY <4>2, Zenon DEF FeedMap
        <5>2. b = Failed(a) \/ Grown(a, b)
          BY <4>1, <4>2, <5>1, AppendTimelineIs
        <5> HIDE DEF b
        <5>3. CASE b = Failed(a)
          <6>1. Keeps(x, Failed(a)) /\ ~Failed(a).ok
            BY <4>1, KeepsFailed
          <6>2. QED
            BY <5>3, <6>1, Zenon
        <5>4. CASE Grown(a, b)
          <6>1. IF Timeline(a) THEN Grown(a, b) ELSE b = a
            BY <4>2, <5>4, Zenon
          <6>2. Running(b) /\ Keeps(x, b)
            BY <3>1, <3>3, <6>1, FedRuns
          <6>3. QED
            BY <6>2, Zenon
        <5>5. QED
          BY <5>2, <5>3, <5>4, Zenon
      <4>3. CASE ~Timeline(a)
        <5>1. b = a
          BY <4>3, Zenon DEF FeedMap
        <5>2. IF Timeline(a) THEN Grown(a, b) ELSE b = a
          BY <4>3, <5>1, Zenon
        <5> HIDE DEF b
        <5>3. Running(b) /\ Keeps(x, b)
          BY <3>1, <3>3, <5>2, FedRuns
        <5>4. QED
          BY <5>3, Zenon
      <4>4. QED
        BY <4>2, <4>3, Zenon
    <3> HIDE DEF b
    <3>5. CASE ~b.ok
      <4>1. FeedWork(b) = b
        BY <3>5, Zenon DEF FeedWork
      <4>2. QED
        BY <3>2, <3>4, <4>1, Zenon
    <3>6. CASE b.ok
      <4> DEFINE c == ProcessAvailable(b)
                 d == Deliver(c, TRUE)
      <4>1. FeedWork(b) = FeedRoom(d)
        BY <3>6, Zenon DEF FeedWork
      <4>2. Running(b)
        BY <3>4, <3>6, Zenon
      <4>3. Works(b, c) /\ Running(c)
        BY <4>2, ProcessAvailableWorks
      <4> HIDE DEF c
      <4>4. Delivers(c, d)
        BY <4>3, RunningIs, DeliverDelivers
      <4> HIDE DEF d
      <4>5. Works(b, d) /\ Running(d)
        BY <4>3, <4>4, RunningDelivered, WorksDelivered, WorksMore
      <4>6. FeedRoom(d) = d \/ FeedRoom(d) = Failed(d)
        BY Zenon DEF FeedRoom
      <4> HIDE DEF Good
      <4>7. Good(d)
        BY <1>2, <3>4, <4>5
      <4>8. Good(FeedRoom(d))
        BY <1>1, <4>6, <4>7
      <4>9. QED
        BY <3>2, <4>1, <4>8
    <3>7. QED
      BY <3>5, <3>6, Zenon
  <2>4. QED
    BY <2>1, <2>2, <2>3, Zenon
<1>5. QED
  BY <1>4, Zenon

LEMMA FeedIsFit ==
  ASSUME NEW x, Fit(x), NEW guard \in Nat
  PROVE  Fit(Feed(x, guard)) /\ Feed(x, guard).kind = x.kind
<1>1. PICK f : /\ f[0] = x
               /\ \A k \in 1 .. guard : f[k] = FeedZero(f[k - 1])
               /\ Feed(x, guard) = f[guard]
  BY FeedIs
<1> DEFINE S == {k \in Nat : k <= guard => Fit(f[k]) /\ f[k].kind = x.kind}
<1>2. 0 \in S
  BY <1>1
<1>3. ASSUME NEW k \in Nat, k \in S PROVE k + 1 \in S
  <2> SUFFICES ASSUME k + 1 <= guard PROVE Fit(f[k + 1]) /\ f[k + 1].kind = x.kind
    OBVIOUS
  <2> DEFINE y == f[k]
             z == f[k + 1]
  <2>1. Fit(y) /\ y.kind = x.kind
    BY <1>3
  <2>2. z = FeedZero(y)
    <3>1. k + 1 \in 1 .. guard /\ (k + 1) - 1 = k
      OBVIOUS
    <3>2. f[k + 1] = FeedZero(f[(k + 1) - 1])
      BY <1>1, <3>1
    <3>3. QED
      BY <3>1, <3>2
  <2> HIDE DEF y, z
  <2>3. Driven(y) /\ Based(y) /\ (y.ok => Running(y))
    BY <2>1, Zenon DEF Fit, Driven
  <2>4. Keeps(y, z) /\ (z.ok => Running(z))
    BY <2>2, <2>3, FeedZeroIs
  <2>5. Fit(z)
    BY <2>1, <2>3, <2>4, DrivenKeeps
  <2>6. z.kind = y.kind
    BY <2>4, Zenon DEF Keeps
  <2>7. QED
    BY <2>1, <2>5, <2>6 DEF z
<1> HIDE DEF S
<1>4. guard \in S
  BY <1>2, <1>3, SetInduction
<1>5. QED
  BY <1>1, <1>4 DEF S

LEMMA FlushRestIsFit ==
  ASSUME NEW x, Fit(x)
  PROVE  Fit(FlushRest(x)) /\ FlushRest(x).kind = x.kind
<1>1. CASE ~x.ok
  <2>1. FlushRest(x) = x
    BY <1>1, Zenon DEF FlushRest
  <2>2. QED
    BY <2>1
<1>2. CASE x.ok
  <2> DEFINE a == Drain(x, TRUE)
             b == Resample(a, TRUE)
  <2>1. FlushRest(x) = FlushCheck(b)
    BY <1>2, Zenon DEF FlushRest
  <2>2. Driven(x) /\ Based(x)
    BY Zenon DEF Fit, Driven
  <2>3. Delivers(x, a)
    BY <2>2, DrainDelivers, Zenon
  <2> HIDE DEF a
  <2>4. Delivers(a, b)
    BY <2>3, ResampleDelivers DEF Delivers
  <2> HIDE DEF b
  <2>5. Fit(b) /\ b.kind = x.kind
    BY <2>2, <2>3, <2>4, DeliversMore, DrivenDelivered, DeliversKeeps
  <2>6. Fit(Failed(b)) /\ Failed(b).kind = x.kind
    <3>1. Keeps(b, b) /\ Driven(b)
      BY <2>5, Zenon DEF Keeps, Fit, Driven
    <3>2. Keeps(b, Failed(b)) /\ ~Failed(b).ok
      BY <3>1, KeepsFailed
    <3>3. Failed(b).ok => Running(Failed(b))
      BY <3>2, Zenon
    <3>4. Failed(b).kind = b.kind
      BY <3>2, Zenon DEF Keeps
    <3>5. QED
      BY <2>5, <3>1, <3>2, <3>3, <3>4, DrivenKeeps
  <2>7. FlushCheck(b) = b \/ FlushCheck(b) = Failed(b)
    BY Zenon DEF FlushCheck
  <2>8. QED
    BY <2>1, <2>5, <2>6, <2>7
<1>3. QED
  BY <1>1, <1>2, Zenon

(* A flush begins with what there is to deliver.                           *)
LEMMA FlushBegins ==
  ASSUME NEW x, Fit(x), x.ok, NEW v \in Int, NEW w \in Nat
  PROVE  LET y == [x EXCEPT !.flushed = TRUE, !.targetPv = w, !.targetOut = v] IN
         /\ Fit(y) /\ Running(y) /\ y.targetPv = w /\ y.kind = x.kind
<1> DEFINE yes == TRUE
           y == [x EXCEPT !.flushed = yes, !.targetPv = w, !.targetOut = v]
<1>0. y = [x EXCEPT !.flushed = TRUE, !.targetPv = w, !.targetOut = v]
  OBVIOUS
<1> HIDE DEF yes
<1>1. /\ Based(x) /\ Driven(x) /\ Running(x) /\ x.kind \in Kinds /\ Planned(x)
      /\ Safe(x.line.plan)
  BY Zenon DEF Fit, Driven
<1>2. DOMAIN x = Fields /\ \A g \in Numbers : x[g] \in Int
  BY <1>1 DEF Based, Typed
<1>3. DOMAIN y = Fields
  BY <1>2
<1>4. /\ y.targetPv = w /\ y.targetOut = v
      /\ \A g \in Fields : g \notin {"flushed", "targetPv", "targetOut"} => y[g] = x[g]
  BY <1>2 DEF Fields, Numbers
<1> HIDE DEF y
<1>5. \A g \in Numbers : y[g] \in Int
  BY <1>2, <1>4 DEF Numbers, Fields
<1>6. /\ y.kind = x.kind /\ y.line = x.line /\ y.time = x.time /\ y.pitch = x.pitch
      /\ y.emitted = x.emitted /\ y.source = x.source /\ y.start = x.start
      /\ y.left = x.left /\ y.in = x.in /\ y.expectedPv = x.expectedPv /\ y.ok = x.ok
  BY <1>4 DEF Fields, Numbers
<1>7. Based(y)
  BY <1>1, <1>3, <1>5, <1>6, BasedIf
<1>8. (Timeline(y) <=> Timeline(x)) /\ (Scheduled(y) <=> Scheduled(x))
      /\ (FullFrame(y) <=> FullFrame(x))
  BY <1>6, Zenon DEF Timeline, Scheduled, FullFrame
<1>9. InMap(y)
  BY <1>1, <1>6, <1>8, Zenon DEF InMap, Running
<1>10. Running(y)
  BY <1>1, <1>6, <1>7, <1>8, <1>9, Zenon DEF Running
<1>11. Planned(y) /\ y.kind \in Kinds /\ Safe(y.line.plan)
  <2>1. Planned(y)
    BY <1>1, <1>6, Zenon DEF Planned
  <2>2. QED
    BY <1>1, <1>6, <2>1
<1>12. Fit(y)
  BY <1>7, <1>10, <1>11, Zenon DEF Fit, Driven
<1>13. QED
  BY <1>0, <1>4, <1>6, <1>10, <1>12, Zenon

LEMMA FlushAllIsFit ==
  ASSUME NEW x, Fit(x), x.ok
  PROVE  Fit(FlushAll(x)) /\ FlushAll(x).kind = x.kind
<1> DEFINE w == Round(x.expectedPv)
           v == Round(x.expectedOut)
           a == [x EXCEPT !.flushed = TRUE, !.targetPv = w, !.targetOut = v]
           b == FinishTask(a)
           guard == FlushGuard + 2 * b.targetPv
<1>1. FlushAll(x) = FlushFed(b)
  BY Zenon DEF FlushAll
<1>2. w \in Nat /\ v \in Int
  <2>1. Running(x) /\ Based(x)
    BY Zenon DEF Fit, Driven
  <2>2. x.expectedPv \in Int /\ x.expectedPv >= 0 /\ x.expectedOut \in Int
    BY <2>1, BasedIs, RunningIs
  <2>3. QED
    BY <2>2, QuotientsAre
<1> HIDE DEF w, v
<1>3. Fit(a) /\ Running(a) /\ a.targetPv = w /\ a.kind = x.kind
  BY <1>2, FlushBegins, Zenon
<1> HIDE DEF a
<1>4. /\ Works(a, b) /\ b.left = 0
      /\ b.start = IF a.left = 0 THEN a.start ELSE a.start + Hop
  BY <1>3, FinishTaskWorks, RunningIs
<1> HIDE DEF b
<1>5. Running(b)
  <2>1. CASE a.left = 0
    <3>1. b.start = a.start /\ b.left \in Nat /\ ~(b.left > 0)
      BY <1>4, <2>1
    <3>2. QED
      BY <1>3, <1>4, <3>1, RunningSame
  <2>2. CASE a.left # 0
    <3>1. b.start = a.start + Hop
      BY <1>4, <2>2
    <3>2. FullFrame(a)
      <4>1. a.left > 0
        BY <1>3, <2>2, RunningIs
      <4>2. QED
        BY <1>3, <4>1, Zenon DEF Running
    <3>3. QED
      BY <1>3, <1>4, <3>1, <3>2, RunningNext
  <2>3. QED
    BY <2>1, <2>2
<1>6. Fit(b) /\ b.kind = x.kind
  <2>1. Driven(a)
    BY <1>3, Zenon DEF Fit
  <2>2. Keeps(a, a)
    BY <2>1, Zenon DEF Keeps, Driven
  <2>3. Keeps(a, b)
    BY <1>4, <2>2, KeepsWorked
  <2>4. b.kind = a.kind
    BY <2>3, Zenon DEF Keeps
  <2>5. QED
    BY <1>3, <1>5, <2>1, <2>3, <2>4, DrivenKeeps
<1>7. guard \in Nat
  <2>1. b.targetPv = w
    BY <1>3, <1>4, WorksKeeps
  <2>2. QED
    BY <1>2, <2>1, SizesAre
<1>8. FlushFed(b) = FlushRest(Feed(b, guard))
  BY Zenon DEF FlushFed
<1> HIDE DEF guard
<1>9. Fit(Feed(b, guard)) /\ Feed(b, guard).kind = x.kind
  BY <1>6, <1>7, FeedIsFit
<1>10. QED
  BY <1>1, <1>8, <1>9, FlushRestIsFit

LEMMA PullSomeDelivers ==
  ASSUME NEW x, Based(x), NEW n \in Int
  PROVE  Delivers(x, PullSome(x, n))
<1> DEFINE Again(z) == IF Scheduled(z) /\ ~z.flushed THEN z
                       ELSE Resample(z, z.flushed /\ z.pvWrite = z.targetPv)
           a == Again(x)
           v == a.count - Lesser(n, a.count)
           b == [a EXCEPT !.count = v]
           y == Again(b)
<1>1. PullSome(x, n) = y
  BY Zenon DEF PullSome
<1>2. ASSUME NEW z, Based(z) PROVE Delivers(z, Again(z))
  <2>1. CASE Scheduled(z) /\ ~z.flushed
    <3>1. Again(z) = z
      BY <2>1, Zenon
    <3>2. QED
      BY <1>2, <3>1, DeliversNothing
  <2>2. CASE ~(Scheduled(z) /\ ~z.flushed)
    <3> DEFINE final == z.flushed /\ z.pvWrite = z.targetPv
    <3>1. Again(z) = Resample(z, final)
      BY <2>2, Zenon
    <3> HIDE DEF final, Again
    <3>2. Delivers(z, Resample(z, final))
      BY <1>2, ResampleDelivers, Zenon
    <3>3. QED
      BY <3>1, <3>2
  <2>3. QED
    BY <2>1, <2>2, Zenon
<1> HIDE DEF Again
<1>3. Delivers(x, a)
  BY <1>2
<1> HIDE DEF a
<1>4. Based(a)
  BY <1>3 DEF Delivers
<1>5. v \in Int
  BY <1>4, BasedIs DEF Lesser
<1> HIDE DEF v
<1>6. Delivers(a, b)
  <2>1. Delivers(a, [a EXCEPT !["count"] = v])
    BY <1>4, <1>5, DeliversSet DEF Outs
  <2>2. QED
    BY <2>1
<1> HIDE DEF b
<1>7. Delivers(b, y)
  BY <1>2, <1>6 DEF Delivers
<1>8. QED
  BY <1>1, <1>3, <1>6, <1>7, DeliversMore

-----------------------------------------------------------------------------
(* Control. *)

(* An engine that starts. *)
LEMMA FreshIs ==
  ASSUME NEW kind \in Kinds, NEW time \in Ratios, NEW pitch \in Ratios,
         ~kind.variable => time = kind.time
  PROVE  LET x == Fresh(kind, time, pitch) IN
         /\ Driven(x) /\ x.ok /\ x.kind = kind
         /\ x.line.plan = [pitch |-> Steady(pitch), time |-> Steady(time)]
<1> DEFINE no == FALSE
           yes == TRUE
           line == NewTimeline(pitch, time)
           middle == N \div 2
           x == [kind |-> kind, time |-> time, pitch |-> pitch,
                 in |-> middle, start |-> 0, synth |-> 0, framePitch |-> pitch,
                 safe |-> 0, cleanup |-> 0, real |-> 0, expectedPv |-> 0,
                 expectedOut |-> 0, pvStart |-> 0, pvWrite |-> 0, pos |-> 0,
                 emitted |-> 0, count |-> 0, source |-> 0, frames |-> 0, left |-> 0,
                 flushed |-> no, explicit |-> no, targetPv |-> 0, targetOut |-> 0,
                 line |-> line, ok |-> yes]
<1>1. Fresh(kind, time, pitch) = x
  BY Zenon DEF Fresh
<1>2. yes
  OBVIOUS
<1>3. /\ Chart(line) /\ line.written = 0
      /\ line.plan = [pitch |-> Steady(pitch), time |-> Steady(time)]
  BY NewTimelineIs
<1>4. middle = Crop /\ middle \in Nat
  BY SizesAre DEF Crop
<1> HIDE DEF no, yes, line, middle
<1>5. DOMAIN x = Fields
  BY DEF Fields, Numbers
<1>6. /\ x.kind = kind /\ x.time = time /\ x.pitch = pitch /\ x.in = middle
      /\ x.start = 0 /\ x.framePitch = pitch /\ x.expectedPv = 0 /\ x.emitted = 0
      /\ x.source = 0 /\ x.left = 0 /\ x.line = line /\ x.ok = yes
      /\ \A f \in Numbers \ {"in", "framePitch"} : x[f] = 0
  BY DEF Numbers
<1> HIDE DEF x
<1>7. \A f \in Numbers : x[f] \in Int
  BY <1>4, <1>6 DEF Numbers, Ratios
<1>8. Based(x)
  <2>1. x.emitted >= 0 /\ x.source >= 0
    BY <1>6
  <2>2. QED
    BY <1>3, <1>5, <1>6, <1>7, <2>1, Zenon DEF Based, Typed, Begun
<1>9. Running(x)
  <2>1. x.line.written = x.in - Crop /\ x.start <= x.line.written
        /\ x.line.written - x.start < Nodes /\ x.start >= 0
    BY <1>3, <1>4, <1>6, SizesAre
  <2>2. x.expectedPv >= 0 /\ x.left >= 0 /\ ~(x.left > 0) /\ x.left = 0
    BY <1>6
  <2>3. QED
    BY <1>8, <2>1, <2>2, Zenon DEF Running, InMap
<1>10. Planned(x)
  <2>1. /\ x.line.plan.pitch = Steady(pitch) /\ x.line.plan.time = Steady(time)
    BY <1>3, <1>6
  <2>2. Steady(pitch).target = pitch /\ Steady(time).target = time
    BY SteadyIs
  <2>3. x.kind = kind /\ x.time = time /\ x.pitch = pitch
    BY <1>6
  <2>4. x.line.plan.pitch.target = x.pitch /\ x.line.plan.time.target = x.time
    BY <2>1, <2>2, <2>3
  <2>5. ASSUME ~x.kind.variable PROVE x.line.plan.time = Steady(x.kind.time)
    <3>1. time = kind.time
      BY <2>3, <2>5, Zenon
    <3>2. QED
      BY <2>1, <2>3, <3>1
  <2>6. QED
    BY <2>4, <2>5, Zenon DEF Planned
<1>11. Driven(x)
  BY <1>6, <1>8, <1>9, <1>10, Zenon DEF Driven
<1>12. x.ok
  BY <1>2, <1>6, Zenon
<1>13. x.line.plan = [pitch |-> Steady(pitch), time |-> Steady(time)]
  BY <1>3, <1>6
<1>14. QED
  BY <1>1, <1>6, <1>11, <1>12, <1>13, Zenon

(* Another plan in the same map. *)
LEMMA ReplannedIs ==
  ASSUME NEW x, Driven(x), NEW y, DOMAIN y = Fields, NEW plan \in Plans,
         y.line = [x.line EXCEPT !.plan = plan],
         \A f \in Fields \ {"pitch", "time", "explicit", "line"} : y[f] = x[f],
         plan.pitch.target = y.pitch, plan.time.target = y.time,
         ~x.kind.variable => plan.time = x.line.plan.time
  PROVE  Driven(y) /\ y.line.plan = plan /\ y.ok = x.ok /\ y.kind = x.kind
         /\ y.flushed = x.flushed /\ y.count = x.count
<1>1. Based(x) /\ x.kind \in Kinds /\ Planned(x) /\ (x.ok => Running(x))
  BY Zenon DEF Driven
<1>2. Chart(x.line) /\ DOMAIN x = Fields /\ \A f \in Numbers : x[f] \in Int
  BY <1>1 DEF Based, Typed
<1>3. /\ Chart(y.line) /\ y.line.plan = plan /\ y.line.written = x.line.written
  BY <1>2 DEF Chart
<1>4. /\ y.kind = x.kind /\ y.emitted = x.emitted /\ y.source = x.source
      /\ y.start = x.start /\ y.left = x.left /\ y.in = x.in
      /\ y.expectedPv = x.expectedPv /\ y.ok = x.ok /\ y.flushed = x.flushed
      /\ y.count = x.count
  BY DEF Fields, Numbers
<1>5. \A f \in Numbers : y[f] \in Int
  BY <1>2 DEF Numbers, Fields
<1>6. y.pitch \in Ratios /\ y.time \in Ratios
  BY DEF Plans, Ramps
<1>7. (Timeline(y) <=> Timeline(x)) /\ (Scheduled(y) <=> Scheduled(x))
      /\ (FullFrame(y) <=> FullFrame(x))
  BY <1>4, Zenon DEF Timeline, Scheduled, FullFrame
<1>8. Based(y)
  BY <1>1, <1>3, <1>4, <1>5, <1>6, <1>7, Zenon DEF Based, Typed, Begun
<1>9. ASSUME y.ok PROVE Running(y)
  <2>1. Running(x)
    BY <1>1, <1>4, <1>9, Zenon
  <2>2. InMap(y)
    BY <1>3, <1>4, <1>7, <2>1, Zenon DEF InMap, Running
  <2>3. QED
    BY <1>4, <1>7, <1>8, <2>1, <2>2, Zenon DEF Running
<1>10. Planned(y)
  BY <1>1, <1>3, <1>4, Zenon DEF Planned
<1>11. Driven(y)
  BY <1>1, <1>4, <1>8, <1>9, <1>10, Zenon DEF Driven
<1>12. QED
  BY <1>3, <1>4, <1>11

(* A pitch that is set: the plan glides there. *)
LEMMA GlidePitchIs ==
  ASSUME NEW x, Driven(x), NEW v \in Ratios
  PROVE  LET y == GlidePitch(x, v) IN
         /\ Driven(y) /\ y.ok = x.ok /\ y.kind = x.kind /\ y.flushed = x.flushed
         /\ y.count = x.count
         /\ Fit(x) /\ ~x.kind.variable /\ v * x.kind.time <= 2 * Frame => Fit(y)
<1> DEFINE begun == x.line.written > 0
           p == x.line.plan
           plan == Glided(p, v, begun)
           line == [x.line EXCEPT !.plan = plan]
           y == [x EXCEPT !.pitch = v, !.line = line]
<1>1. Based(x) /\ Planned(x)
  BY Zenon DEF Driven
<1>2. DOMAIN x = Fields /\ Chart(x.line) /\ p \in Plans
  BY <1>1 DEF Based, Typed, Chart
<1>3. GlidePitch(x, v) = y
  <2> HIDE DEF begun
  <2>1. GlidePitch(x, v) = [x EXCEPT !.pitch = v, !.line.plan = Glided(@, v, begun)]
    BY Zenon DEF GlidePitch, begun
  <2> DEFINE G(q) == Glided(q, v, begun)
  <2>2. GlidePitch(x, v) = [x EXCEPT !.pitch = v, !.line.plan = G(@)]
    BY <2>1
  <2> HIDE DEF G
  <2>3. [x EXCEPT !.pitch = v, !.line.plan = G(@)]
          = [x EXCEPT !.pitch = v, !.line = [x.line EXCEPT !.plan = G(x.line.plan)]]
    BY <1>2 DEF Fields, Numbers
  <2>4. QED
    BY <2>2, <2>3, Zenon DEF G
<1>4. /\ plan \in Plans /\ plan.pitch.target = v /\ plan.time = p.time
      /\ Safe(p) /\ v * Reach(p.time) <= 2 * Frame => Safe(plan)
  <2> HIDE DEF begun
  <2>1. QED
    BY <1>2, GlidedIs
<1> HIDE DEF begun, plan, line
<1>5. DOMAIN y = Fields
  BY <1>2
<1>6. /\ y.pitch = v /\ y.line = line
      /\ \A f \in Fields \ {"pitch", "line"} : y[f] = x[f]
  BY <1>2 DEF Fields, Numbers
<1>7. y.time = x.time
  BY <1>6 DEF Fields, Numbers
<1> HIDE DEF y
<1>8. p.time.target = x.time /\ (~x.kind.variable => p.time = Steady(x.kind.time))
  BY <1>1, Zenon DEF Planned
<1>9. /\ y.line = [x.line EXCEPT !.plan = plan]
      /\ \A f \in Fields \ {"pitch", "time", "explicit", "line"} : y[f] = x[f]
      /\ plan.pitch.target = y.pitch /\ plan.time.target = y.time
      /\ ~x.kind.variable => plan.time = x.line.plan.time
  <2>1. y.line = [x.line EXCEPT !.plan = plan]
    BY <1>6 DEF line
  <2>2. plan.time.target = y.time
    BY <1>4, <1>7, <1>8
  <2>3. QED
    BY <1>4, <1>6, <2>1, <2>2
<1>10. /\ Driven(y) /\ y.line.plan = plan /\ y.ok = x.ok /\ y.kind = x.kind
       /\ y.flushed = x.flushed /\ y.count = x.count
  BY <1>4, <1>5, <1>9, ReplannedIs
<1>11. ASSUME Fit(x), ~x.kind.variable, v * x.kind.time <= 2 * Frame PROVE Fit(y)
  <2>1. Safe(p)
    BY <1>11, Zenon DEF Fit
  <2>2. p.time = Steady(x.kind.time)
    BY <1>8, <1>11
  <2>3. Reach(Steady(x.kind.time)) = x.kind.time
    BY DEF Reach, Steady, Greater
  <2>4. v * Reach(p.time) <= 2 * Frame
    BY <1>11, <2>2, <2>3
  <2>5. Safe(plan)
    BY <1>4, <2>1, <2>4
  <2>6. QED
    BY <1>10, <2>5, Zenon DEF Fit
<1>12. QED
  BY <1>3, <1>10, <1>11, Zenon

(* A ramp that starts, of the pitch ... *)
LEMMA RampPitchIs ==
  ASSUME NEW x, Driven(x), NEW r \in Orders, r.of = "pitch"
  PROVE  LET y == Ramp(x, r) IN
         /\ Driven(y) /\ y.ok = x.ok /\ y.kind = x.kind /\ y.flushed = x.flushed
         /\ y.count = x.count /\ y.line.plan = RampPlan(x.line.plan, r)
<1> DEFINE yes == TRUE
           p == x.line.plan
           plan == RampPlan(p, r)
           line == [x.line EXCEPT !.plan = plan]
           y == [x EXCEPT !.pitch = r.to, !.explicit = yes, !.line = line]
<1>1. Based(x) /\ Planned(x)
  BY Zenon DEF Driven
<1>2. DOMAIN x = Fields /\ Chart(x.line) /\ p \in Plans
  BY <1>1 DEF Based, Typed, Chart
<1>3. Ramp(x, r) = y
  <2> DEFINE G(q) == RampPlan(q, r)
             to == r.to
             z == [x EXCEPT !.pitch = to, !.explicit = yes, !.line.plan = G(@)]
  <2> HIDE DEF yes
  <2>1. Ramp(x, r) = [x EXCEPT ![r.of] = r.to, !.explicit = yes,
                              !.line.plan = RampPlan(@, r)]
    BY Zenon DEF Ramp, yes
  <2>2. Ramp(x, r) = z
    BY <2>1, Zenon
  <2>3. y = [x EXCEPT !.pitch = to, !.explicit = yes,
                      !.line = [x.line EXCEPT !.plan = G(x.line.plan)]]
    BY Zenon
  <2> HIDE DEF G, to, y
  <2>4. z = [x EXCEPT !.pitch = to, !.explicit = yes,
                      !.line = [x.line EXCEPT !.plan = G(x.line.plan)]]
    BY <1>2 DEF Fields, Numbers
  <2> HIDE DEF z
  <2>5. QED
    BY <2>2, <2>3, <2>4, Zenon
<1>4. plan \in Plans /\ plan.pitch.target = r.to /\ plan.time = p.time
  BY <1>2, RampPlanIs
<1> HIDE DEF yes, plan, line
<1>5. DOMAIN y = Fields
  BY <1>2
<1>6. /\ y.pitch = r.to /\ y.line = line
      /\ \A f \in Fields \ {"pitch", "explicit", "line"} : y[f] = x[f]
  BY <1>2 DEF Fields, Numbers
<1>7. y.time = x.time
  BY <1>6 DEF Fields, Numbers
<1> HIDE DEF y
<1>8. p.pitch.target = x.pitch /\ p.time.target = x.time
  BY <1>1, Zenon DEF Planned
<1>9. /\ y.line = [x.line EXCEPT !.plan = plan]
      /\ \A f \in Fields \ {"pitch", "time", "explicit", "line"} : y[f] = x[f]
  BY <1>6 DEF line
<1>10. plan.pitch.target = y.pitch /\ plan.time.target = y.time
  BY <1>4, <1>6, <1>7, <1>8
<1>11. ~x.kind.variable => plan.time = x.line.plan.time
  BY <1>4
<1>12. /\ Driven(y) /\ y.line.plan = plan /\ y.ok = x.ok /\ y.kind = x.kind
       /\ y.flushed = x.flushed /\ y.count = x.count
  BY <1>4, <1>5, <1>9, <1>10, <1>11, ReplannedIs
<1>13. QED
  BY <1>3, <1>12, Zenon DEF plan

(* ... and of the time of an engine whose time may ramp. *)
LEMMA RampTimeIs ==
  ASSUME NEW x, Driven(x), NEW r \in Orders, r.of = "time", x.kind.variable
  PROVE  LET y == Ramp(x, r) IN
         /\ Driven(y) /\ y.ok = x.ok /\ y.kind = x.kind /\ y.flushed = x.flushed
         /\ y.count = x.count /\ y.line.plan = RampPlan(x.line.plan, r)
<1> DEFINE yes == TRUE
           p == x.line.plan
           plan == RampPlan(p, r)
           line == [x.line EXCEPT !.plan = plan]
           y == [x EXCEPT !.time = r.to, !.explicit = yes, !.line = line]
<1>1. Based(x) /\ Planned(x)
  BY Zenon DEF Driven
<1>2. DOMAIN x = Fields /\ Chart(x.line) /\ p \in Plans
  BY <1>1 DEF Based, Typed, Chart
<1>3. Ramp(x, r) = y
  <2> DEFINE G(q) == RampPlan(q, r)
             to == r.to
             z == [x EXCEPT !.time = to, !.explicit = yes, !.line.plan = G(@)]
  <2> HIDE DEF yes
  <2>1. Ramp(x, r) = [x EXCEPT ![r.of] = r.to, !.explicit = yes,
                              !.line.plan = RampPlan(@, r)]
    BY Zenon DEF Ramp, yes
  <2>2. Ramp(x, r) = z
    BY <2>1, Zenon
  <2>3. y = [x EXCEPT !.time = to, !.explicit = yes,
                      !.line = [x.line EXCEPT !.plan = G(x.line.plan)]]
    BY Zenon
  <2> HIDE DEF G, to, y
  <2>4. z = [x EXCEPT !.time = to, !.explicit = yes,
                      !.line = [x.line EXCEPT !.plan = G(x.line.plan)]]
    BY <1>2 DEF Fields, Numbers
  <2> HIDE DEF z
  <2>5. QED
    BY <2>2, <2>3, <2>4, Zenon
<1>4. plan \in Plans /\ plan.time.target = r.to /\ plan.pitch = p.pitch
  BY <1>2, RampPlanIs
<1> HIDE DEF yes, plan, line
<1>5. DOMAIN y = Fields
  BY <1>2
<1>6. /\ y.time = r.to /\ y.line = line
      /\ \A f \in Fields \ {"time", "explicit", "line"} : y[f] = x[f]
  BY <1>2 DEF Fields, Numbers
<1>7. y.pitch = x.pitch
  BY <1>6 DEF Fields, Numbers
<1> HIDE DEF y
<1>8. p.pitch.target = x.pitch /\ p.time.target = x.time
  BY <1>1, Zenon DEF Planned
<1>9. /\ y.line = [x.line EXCEPT !.plan = plan]
      /\ \A f \in Fields \ {"pitch", "time", "explicit", "line"} : y[f] = x[f]
  BY <1>6 DEF line
<1>10. plan.pitch.target = y.pitch /\ plan.time.target = y.time
  BY <1>4, <1>6, <1>7, <1>8
<1>11. ~x.kind.variable => plan.time = x.line.plan.time
  BY <1>4
<1>12. /\ Driven(y) /\ y.line.plan = plan /\ y.ok = x.ok /\ y.kind = x.kind
       /\ y.flushed = x.flushed /\ y.count = x.count
  BY <1>4, <1>5, <1>9, <1>10, <1>11, ReplannedIs
<1>13. QED
  BY <1>3, <1>12, Zenon DEF plan

(* The pitch that was set last is one the engine may have. *)
Settable(v, kind) == v \in Ratios /\ v * kind.time <= 2 * Frame
Wished(x) == Timeline(x) /\ ~x.kind.variable => Settable(wanted, x.kind)

LEMMA SyncedIs ==
  ASSUME NEW x, Fit(x), Wished(x)
  PROVE  LET y == Synced(x) IN
         /\ Fit(y) /\ y.ok = x.ok /\ y.kind = x.kind /\ y.flushed = x.flushed
         /\ y.count = x.count
<1>1. CASE Timeline(x) /\ ~x.kind.variable /\ ~x.flushed
  <2>1. Synced(x) = GlidePitch(x, wanted)
    BY <1>1, Zenon DEF Synced
  <2>2. wanted \in Ratios /\ wanted * x.kind.time <= 2 * Frame /\ Driven(x)
    BY <1>1, Zenon DEF Wished, Settable, Fit
  <2> DEFINE y == GlidePitch(x, wanted)
  <2>3. /\ Driven(y) /\ y.ok = x.ok /\ y.kind = x.kind /\ y.flushed = x.flushed
        /\ y.count = x.count
        /\ Fit(x) /\ ~x.kind.variable /\ wanted * x.kind.time <= 2 * Frame => Fit(y)
    BY <2>2, GlidePitchIs
  <2> HIDE DEF y
  <2>4. QED
    BY <1>1, <2>1, <2>2, <2>3, Zenon DEF y
<1>2. CASE ~(Timeline(x) /\ ~x.kind.variable /\ ~x.flushed)
  <2>1. Synced(x) = x
    BY <1>2, Zenon DEF Synced
  <2>2. QED
    BY <2>1, Zenon
<1>3. QED
  BY <1>1, <1>2, Zenon

-----------------------------------------------------------------------------
(* Batches of ramps. *)

(* What validate_ramps() finds right with the ramps of an engine of a kind. *)
Sorted(batch) ==
  /\ Len(batch) \in Nat /\ \A i \in 1 .. Len(batch) : batch[i] \in Orders
  /\ \A i \in 1 .. Len(batch) : i > 1 => batch[i].at >= batch[i - 1].at
Allowed(batch, kind) == \A i \in 1 .. Len(batch) : batch[i].of = "time" => kind.variable

(* The first i ramps are those before frame k. *)
Cut(batch, i, k) ==
  i \in 0 .. Len(batch) /\ \A j \in 1 .. Len(batch) : batch[j].at < k <=> j <= i

LEMMA AfterIsSafe ==
  ASSUME NEW p \in Plans
  PROVE  \A n \in Nat : After(p, n) \in Plans /\ (Safe(p) => Safe(After(p, n)))
<1> DEFINE S == {n \in Nat : After(p, n) \in Plans /\ (Safe(p) => Safe(After(p, n)))}
<1>1. 0 \in S
  <2>1. After(p, 0) = p
    BY AfterIs
  <2>2. QED
    BY <2>1
<1>2. ASSUME NEW n \in Nat, n \in S PROVE n + 1 \in S
  <2> DEFINE q == After(p, n)
  <2>1. After(p, n + 1) = TickedPlan(q)
    BY AfterIs
  <2>2. q \in Plans /\ (Safe(p) => Safe(q))
    BY <1>2
  <2> HIDE DEF q
  <2>3. TickedPlan(q) \in Plans /\ (Safe(q) => Safe(TickedPlan(q)))
    BY <2>2, TickedPlanIs
  <2>4. n + 1 \in Nat
    OBVIOUS
  <2>5. QED
    BY <2>1, <2>2, <2>3, <2>4
<1> HIDE DEF S
<1>3. \A n \in Nat : n \in S
  BY <1>1, <1>2, SetInduction
<1>4. QED
  BY <1>3 DEF S

(* The plans that a batch leads through. *)
LEMMA LeadsNext ==
  ASSUME NEW plan \in Plans, NEW batch, Sorted(batch)
  PROVE  /\ Leads(plan, batch)[0] = plan
         /\ \A i \in 1 .. Len(batch) :
              Leads(plan, batch)[i]
                = RampPlan(After(Leads(plan, batch)[i - 1],
                                 batch[i].at - Cursor(batch, i - 1)), batch[i])
         /\ \A i \in 0 .. Len(batch) : Leads(plan, batch)[i] \in Plans
<1> DEFINE led == Leads(plan, batch)
           n == Len(batch)
<1>1. n \in Nat
  BY DEF Sorted
<1>2. PICK f : /\ f[0] = plan
               /\ \A k \in 1 .. n :
                    f[k] = RampPlan(After(f[k - 1], batch[k].at - Cursor(batch, k - 1)),
                                    batch[k])
               /\ Leads(plan, batch) = f
  BY <1>1, LeadsAre, Zenon
<1>3. led[0] = plan
  BY <1>2
<1>4. ASSUME NEW i \in 1 .. n
      PROVE  /\ led[i] = RampPlan(After(led[i - 1], batch[i].at - Cursor(batch, i - 1)),
                                  batch[i])
             /\ batch[i].at - Cursor(batch, i - 1) \in Nat
  <2>1. led[i] = RampPlan(After(led[i - 1], batch[i].at - Cursor(batch, i - 1)), batch[i])
    BY <1>2, Zenon
  <2>2. batch[i].at - Cursor(batch, i - 1) \in Nat
    <3>1. batch[i].at \in Nat
      BY DEF Sorted, Orders
    <3>2. CASE i = 1
      <4>1. Cursor(batch, i - 1) = 0
        BY <3>2 DEF Cursor
      <4>2. QED
        BY <3>1, <4>1
    <3>3. CASE i > 1
      <4>1. i - 1 \in 1 .. n /\ i - 1 # 0
        BY <1>1, <3>3
      <4>2. batch[i - 1].at \in Nat /\ batch[i].at >= batch[i - 1].at
        BY <3>3, <4>1 DEF Sorted, Orders
      <4>3. Cursor(batch, i - 1) = batch[i - 1].at
        BY <4>1 DEF Cursor
      <4>4. QED
        BY <3>1, <4>2, <4>3
    <3>4. QED
      BY <1>1, <3>2, <3>3
  <2>3. QED
    BY <2>1, <2>2
<1> HIDE DEF led
<1> DEFINE S == {i \in Nat : i <= n => led[i] \in Plans}
<1>5. 0 \in S
  BY <1>3
<1>6. ASSUME NEW i \in Nat, i \in S PROVE i + 1 \in S
  <2> SUFFICES ASSUME i + 1 <= n PROVE led[i + 1] \in Plans
    OBVIOUS
  <2>1. i + 1 \in 1 .. n /\ (i + 1) - 1 = i
    BY <1>1
  <2> DEFINE d == batch[i + 1].at - Cursor(batch, i)
  <2>2. led[i + 1] = RampPlan(After(led[i], d), batch[i + 1]) /\ d \in Nat
    BY <1>4, <2>1
  <2> HIDE DEF d
  <2>3. led[i] \in Plans
    BY <1>1, <1>6
  <2>4. After(led[i], d) \in Plans /\ batch[i + 1] \in Orders
    BY <2>1, <2>2, <2>3, AfterIsSafe DEF Sorted
  <2>5. QED
    BY <2>2, <2>4, RampPlanIs
<1> HIDE DEF S
<1>7. \A i \in Nat : i \in S
  BY <1>5, <1>6, SetInduction
<1>8. \A i \in 0 .. n : led[i] \in Plans
  BY <1>1, <1>7 DEF S
<1>9. QED
  BY <1>3, <1>4, <1>8 DEF led

(* Where a frame comes between two ramps, the plan is safe. *)
LEMMA CutIsSafe ==
  ASSUME NEW plan \in Plans, NEW batch, Sorted(batch), SafeThrough(plan, batch),
         NEW i, NEW k \in Nat, Cut(batch, i, k)
  PROVE  Safe(Leads(plan, batch)[i])
<1> DEFINE n == Len(batch)
<1>1. n \in Nat /\ i \in 0 .. n
  BY DEF Sorted, Cut
<1>2. CASE i = 0 \/ i = n
  BY <1>1, <1>2 DEF SafeThrough
<1>3. CASE i # 0 /\ i # n
  <2>1. i \in 1 .. n /\ i + 1 \in 1 .. n
    BY <1>1, <1>3
  <2>2. batch[i].at < k /\ ~(batch[i + 1].at < k)
    BY <2>1 DEF Cut
  <2>3. batch[i].at # batch[i + 1].at
    BY <2>2
  <2>4. QED
    BY <1>1, <2>3 DEF SafeThrough
<1>4. QED
  BY <1>2, <1>3

LEMMA RampIs ==
  ASSUME NEW x, Driven(x), NEW r \in Orders, r.of = "time" => x.kind.variable
  PROVE  LET y == Ramp(x, r) IN
         /\ Driven(y) /\ y.ok = x.ok /\ y.kind = x.kind /\ y.flushed = x.flushed
         /\ y.count = x.count /\ y.line.plan = RampPlan(x.line.plan, r)
<1>1. r.of = "pitch" \/ r.of = "time"
  BY DEF Orders
<1>2. CASE r.of = "pitch"
  BY <1>2, RampPitchIs
<1>3. CASE r.of = "time"
  BY <1>3, RampTimeIs
<1>4. QED
  BY <1>1, <1>2, <1>3

(* The ramps of one offset, k, that take effect on a plan that has followed *)
(* those before.                                                            *)
LEMMA RampedPlan ==
  ASSUME NEW x, Driven(x), NEW batch, Sorted(batch), Allowed(batch, x.kind),
         NEW plan \in Plans, NEW i, NEW k \in Nat, Cut(batch, i, k),
         x.line.plan = After(Leads(plan, batch)[i], k - Cursor(batch, i))
  PROVE  LET y == Ramped(x, batch, k) IN
         /\ Driven(y) /\ y.ok = x.ok /\ y.kind = x.kind /\ y.flushed = x.flushed
         /\ y.count = x.count
         /\ \E m : /\ Cut(batch, m, k + 1)
                   /\ y.line.plan = After(Leads(plan, batch)[m], k - Cursor(batch, m))
<1> DEFINE n == Len(batch)
           led == Leads(plan, batch)
           Upon(m, j) == /\ m \in 0 .. n
                         /\ \A l \in 1 .. n :
                              l <= m <=> batch[l].at < k \/ (batch[l].at = k /\ l <= j)
           Good(z, j) ==
             /\ Driven(z) /\ z.ok = x.ok /\ z.kind = x.kind /\ z.flushed = x.flushed
             /\ z.count = x.count
             /\ \E m : Upon(m, j) /\ z.line.plan = After(led[m], k - Cursor(batch, m))
<1>1. n \in Nat /\ \A l \in 1 .. n : batch[l] \in Orders /\ batch[l].at \in Nat
  BY DEF Sorted, Orders
<1>2. PICK f : /\ f[0] = x
               /\ \A j \in 1 .. n : f[j] = RampAt(f[j - 1], batch[j], k)
               /\ Ramped(x, batch, k) = f[n]
  <2>1. Len(batch) \in Nat
    BY DEF Sorted
  <2>2. \E f : /\ f[0] = x
               /\ \A j \in 1 .. Len(batch) : f[j] = RampAt(f[j - 1], batch[j], k)
               /\ Ramped(x, batch, k) = f[Len(batch)]
    BY <2>1, RampedIs
  <2>3. QED
    BY <2>2
<1>3. /\ led[0] = plan
      /\ \A j \in 1 .. n :
           led[j] = RampPlan(After(led[j - 1], batch[j].at - Cursor(batch, j - 1)), batch[j])
  BY LeadsNext
<1> HIDE DEF led
<1> DEFINE S == {j \in Nat : j <= n => Good(f[j], j)}
<1>4. 0 \in S
  <2>1. Upon(i, 0)
    <3>1. \A l \in 1 .. n : ~(l <= 0)
      OBVIOUS
    <3>2. QED
      BY <3>1 DEF Cut
  <2>2. Good(x, 0)
    BY <2>1 DEF led
  <2>3. QED
    BY <1>2, <2>2
<1>5. ASSUME NEW j \in Nat, j \in S PROVE j + 1 \in S
  <2> SUFFICES ASSUME j + 1 <= n PROVE Good(f[j + 1], j + 1)
    OBVIOUS
  <2> DEFINE y == f[j]
             z == f[j + 1]
             r == batch[j + 1]
  <2>1. j + 1 \in 1 .. n /\ (j + 1) - 1 = j
    BY <1>1
  <2>2. z = RampAt(y, r, k)
    BY <1>2, <2>1
  <2>3. Good(y, j)
    BY <1>1, <1>5
  <2> HIDE DEF y, z
  <2>4. PICK m : Upon(m, j) /\ y.line.plan = After(led[m], k - Cursor(batch, m))
    BY <2>3
  <2>5. /\ Driven(y) /\ y.ok = x.ok /\ y.kind = x.kind /\ y.flushed = x.flushed
        /\ y.count = x.count
    BY <2>3
  <2>6. CASE r.at = k
    <3>1. z = Ramp(y, r)
      BY <2>2, <2>6 DEF RampAt
    <3>2. r \in Orders /\ (r.of = "time" => y.kind.variable)
      BY <1>1, <2>1, <2>5 DEF Allowed
    <3>3. /\ Driven(z) /\ z.ok = y.ok /\ z.kind = y.kind /\ z.flushed = y.flushed
          /\ z.count = y.count /\ z.line.plan = RampPlan(y.line.plan, r)
      BY <2>5, <3>1, <3>2, RampIs
    <3>4. m = j
      <4>1. ~(j + 1 <= m)
        BY <2>1, <2>4, <2>6
      <4>2. j = 0 \/ j <= m
        <5>1. SUFFICES ASSUME j # 0 PROVE j <= m
          OBVIOUS
        <5>2. j \in 1 .. n /\ j + 1 > 1
          BY <1>1, <2>1, <5>1
        <5>3. r.at >= batch[j].at
          BY <2>1, <5>2 DEF Sorted
        <5>4. QED
          BY <1>1, <2>4, <2>6, <5>2, <5>3
      <4>3. QED
        BY <1>1, <2>4, <4>1, <4>2
    <3>5. z.line.plan = After(led[j + 1], k - Cursor(batch, j + 1))
      <4>1. led[j + 1] = RampPlan(After(led[j], k - Cursor(batch, j)), r)
        BY <1>3, <2>1, <2>6
      <4>2. Cursor(batch, j + 1) = k
        BY <2>6 DEF Cursor
      <4>3. After(led[j + 1], k - k) = led[j + 1]
        <5>1. k - k = 0
          OBVIOUS
        <5>2. QED
          BY <5>1, AfterIs
      <4>4. QED
        BY <2>4, <3>3, <3>4, <4>1, <4>2, <4>3
    <3>6. Upon(j + 1, j + 1)
      BY <1>1, <2>1, <2>4, <2>6, <3>4
    <3>7. QED
      BY <2>5, <3>3, <3>5, <3>6 DEF z
  <2>7. CASE r.at # k
    <3>1. z = y
      BY <2>2, <2>7 DEF RampAt
    <3>2. Upon(m, j + 1)
      BY <1>1, <2>1, <2>4, <2>7
    <3>3. QED
      BY <2>4, <2>5, <3>1, <3>2 DEF z
  <2>8. QED
    BY <2>6, <2>7
<1> HIDE DEF S
<1>6. n \in S
  BY <1>1, <1>4, <1>5, SetInduction
<1>7. Good(f[n], n)
  BY <1>1, <1>6 DEF S
<1>8. ASSUME NEW m, Upon(m, n) PROVE Cut(batch, m, k + 1)
  <2>1. ASSUME NEW l \in 1 .. n PROVE batch[l].at < k + 1 <=> l <= m
    <3>1. batch[l].at \in Nat
      BY <1>1
    <3>2. l <= m <=> batch[l].at < k \/ (batch[l].at = k /\ l <= n)
      BY <1>8, <2>1
    <3>3. batch[l].at < k + 1 <=> batch[l].at < k \/ batch[l].at = k
      BY <3>1
    <3>4. l <= n
      BY <2>1
    <3>5. QED
      BY <3>2, <3>3, <3>4
  <2>2. QED
    BY <1>8, <2>1 DEF Cut
<1> HIDE DEF Upon
<1>9. QED
  BY <1>2, <1>7, <1>8, Zenon DEF led

LEMMA CursorIs ==
  ASSUME NEW batch, Sorted(batch), NEW i, NEW k \in Nat, Cut(batch, i, k + 1)
  PROVE  Cursor(batch, i) \in Nat /\ k - Cursor(batch, i) \in Nat
<1>1. CASE i = 0
  BY <1>1 DEF Cursor
<1>2. CASE i # 0
  <2>1. i \in 1 .. Len(batch) /\ i <= i
    BY <1>2 DEF Cut, Sorted
  <2>2. batch[i].at \in Nat /\ batch[i].at < k + 1
    BY <2>1 DEF Cut, Sorted, Orders
  <2>3. Cursor(batch, i) = batch[i].at
    BY <1>2 DEF Cursor
  <2>4. QED
    BY <2>2, <2>3
<1>3. QED
  BY <1>1, <1>2

(* Where a push of a batch has come to after k frames. *)
Follows(x, plan, batch, k) ==
  Timeline(x) =>
    \E m : /\ Cut(batch, m, k)
           /\ x.line.plan = After(Leads(plan, batch)[m], k - Cursor(batch, m))

LEMMA FollowsNothing ==
  ASSUME NEW x, Driven(x), NEW batch, Sorted(batch)
  PROVE  Follows(x, x.line.plan, batch, 0)
<1> DEFINE plan == x.line.plan
<1>1. plan \in Plans
  BY DEF Driven, Based, Chart
<1>2. Cut(batch, 0, 0)
  BY DEF Cut, Sorted, Orders
<1>3. Leads(plan, batch)[0] = plan
  BY <1>1, LeadsNext
<1> HIDE DEF plan
<1>4. 0 - Cursor(batch, 0) = 0
  BY DEF Cursor
<1>5. After(plan, 0) = plan
  BY AfterIs
<1>6. plan = After(Leads(plan, batch)[0], 0 - Cursor(batch, 0))
  BY <1>3, <1>4, <1>5
<1>7. x.line.plan = After(Leads(plan, batch)[0], 0 - Cursor(batch, 0))
  BY <1>6 DEF plan
<1>8. Follows(x, plan, batch, 0)
  BY <1>2, <1>7, Zenon DEF Follows
<1>9. QED
  BY <1>8 DEF plan

(* One frame of a push, with the ramps at its offset. *)
LEMMA FramePushed ==
  ASSUME NEW y, Fit(y), y.ok, ~y.flushed, NEW batch, Sorted(batch),
         Allowed(batch, y.kind), Timeline(y) \/ Len(batch) = 0,
         NEW plan \in Plans, SafeThrough(plan, batch),
         NEW k \in Nat, Follows(y, plan, batch, k), NEW steps \in Nat
  PROVE  LET w == PushOne(Ramped(y, batch, k), steps) IN
         /\ Fit(w) /\ w.kind = y.kind
         /\ w.ok => Follows(w, plan, batch, k + 1)
<1> DEFINE z == Ramped(y, batch, k)
           w == PushOne(z, steps)
           led == Leads(plan, batch)
           To(x, m, n) == /\ Cut(batch, m, k + 1)
                          /\ x.line.plan = After(led[m], n - Cursor(batch, m))
<1>0. Driven(y)
  BY Zenon DEF Fit
<1>1. Driven(y) /\ k + 1 \in Nat
  BY <1>0
<1>2. /\ Fit(z) /\ z.ok /\ z.kind = y.kind /\ ~z.flushed
      /\ Timeline(y) => \E m : To(z, m, k)
  <2>1. CASE Timeline(y)
    <3>1. PICK i : Cut(batch, i, k) /\ y.line.plan = After(led[i], k - Cursor(batch, i))
      BY <2>1 DEF Follows
    <3>0. Cut(batch, i, k) /\ y.line.plan = After(Leads(plan, batch)[i], k - Cursor(batch, i))
      BY <3>1
    <3>2. /\ Driven(z) /\ z.ok = y.ok /\ z.kind = y.kind /\ z.flushed = y.flushed
          /\ z.count = y.count /\ \E m : To(z, m, k)
      BY <1>0, <3>0, RampedPlan, Zenon
    <3> HIDE DEF z
    <3>3. PICK m : To(z, m, k)
      BY <3>2
    <3>4. Safe(led[m])
      BY <1>1, <3>3, CutIsSafe
    <3>5. led[m] \in Plans
      <4>1. m \in 0 .. Len(batch)
        BY <3>3 DEF Cut
      <4>2. QED
        BY <4>1, LeadsNext
    <3>6. k - Cursor(batch, m) \in Nat
      BY <3>3, CursorIs
    <3> HIDE DEF led
    <3>7. Safe(After(led[m], k - Cursor(batch, m)))
      BY <3>4, <3>5, <3>6, AfterIsSafe
    <3>8. Safe(z.line.plan)
      BY <3>3, <3>7
    <3>9. Fit(z)
      BY <3>2, <3>8, Zenon DEF Fit
    <3>10. QED
      BY <3>2, <3>9
  <2>2. CASE ~Timeline(y)
    <3>1. Len(batch) = 0
      BY <2>2
    <3>2. z = y
      <4>1. \E f : /\ f[0] = y
                   /\ \A j \in 1 .. Len(batch) : f[j] = RampAt(f[j - 1], batch[j], k)
                   /\ Ramped(y, batch, k) = f[Len(batch)]
        <5>1. Len(batch) \in Nat
          BY DEF Sorted
        <5>2. QED
          BY <5>1, RampedIs
      <4>2. QED
        BY <3>1, <4>1
    <3> HIDE DEF z
    <3>3. QED
      BY <2>2, <3>2
  <2>3. QED
    BY <2>1, <2>2
<1> HIDE DEF z
<1>3. Driven(z) /\ Running(z)
  BY <1>2, Zenon DEF Fit, Driven
<1>4. /\ Keeps(z, w) /\ (w.ok => Running(w))
      /\ w.ok /\ Timeline(z) => w.line.plan = TickedPlan(z.line.plan)
  BY <1>2, <1>3, PushOneIs
<1> HIDE DEF w
<1>5. Fit(w)
  BY <1>2, <1>3, <1>4, DrivenKeeps
<1>6. w.kind = z.kind
  BY <1>4, Zenon DEF Keeps
<1>7. (Timeline(w) <=> Timeline(y)) /\ (Timeline(z) <=> Timeline(y))
  BY <1>2, <1>6, Zenon DEF Timeline
<1>8. ASSUME w.ok, Timeline(w)
      PROVE  \E m : To(w, m, k + 1)
  <2>1. PICK m : To(z, m, k)
    BY <1>2, <1>7, <1>8
  <2> DEFINE d == k - Cursor(batch, m)
  <2>2. Cursor(batch, m) \in Nat /\ d \in Nat
    BY <2>1, CursorIs
  <2>3. (k + 1) - Cursor(batch, m) = d + 1
    BY <2>2
  <2>4. w.line.plan = TickedPlan(After(led[m], d))
    BY <1>4, <1>7, <1>8, <2>1
  <2> HIDE DEF d, led
  <2>5. w.line.plan = After(led[m], d + 1)
    BY <2>2, <2>4, AfterIs
  <2>6. w.line.plan = After(led[m], (k + 1) - Cursor(batch, m))
    BY <2>3, <2>5
  <2>7. QED
    BY <2>1, <2>6
<1>9. w.ok => Follows(w, plan, batch, k + 1)
  BY <1>8, Zenon DEF Follows
<1>10. QED
  BY <1>2, <1>5, <1>6, <1>9, Zenon DEF w, z

(* A push of a batch, whole or in part: the engine keeps to its stretch.   *)
LEMMA PushFramesFit ==
  ASSUME NEW x, Fit(x), x.ok, NEW batch, Sorted(batch), Allowed(batch, x.kind),
         Timeline(x) \/ Len(batch) = 0, SafeThrough(x.line.plan, batch),
         NEW size \in Nat, NEW steps \in Nat
  PROVE  LET o == PushFrames(x, size, batch, steps) IN
         /\ Fit(o.e) /\ o.e.kind = x.kind /\ o.accepted \in Nat
         /\ o.result # "fault" <=> o.e.ok
         /\ Timeline(x) => \E m : Cut(batch, m, o.accepted)
         /\ o.result = "ok" => Follows(o.e, x.line.plan, batch, size)
<1> DEFINE plan == x.line.plan
           Going(o, k) == /\ Fit(o.e) /\ o.e.kind = x.kind /\ o.e.ok /\ o.accepted = k
                          /\ Follows(o.e, plan, batch, k)
           Good(o, k) ==
             /\ DOMAIN o = {"e", "result", "accepted"}
             /\ Fit(o.e) /\ o.e.kind = x.kind /\ o.accepted \in Nat
             /\ o.result # "fault" <=> o.e.ok
             /\ Timeline(x) => \E m : Cut(batch, m, o.accepted)
             /\ o.result = "ok" => Going(o, k)
<1>1. PICK f : /\ f[0] = Outcome(x, "ok", 0)
               /\ \A k \in 1 .. size : f[k] = PushNext(f[k - 1], batch, steps)
               /\ PushFrames(x, size, batch, steps) = f[size]
  <2>1. PICK f : Pushes(f, x, size, batch, steps)
    BY PushFramesIs
  <2>2. QED
    BY <2>1, Zenon DEF Pushes
<1>2. plan \in Plans
  BY DEF Fit, Driven, Based, Chart
<1>3. Follows(x, plan, batch, 0)
  <2>1. Driven(x)
    BY Zenon DEF Fit
  <2>2. QED
    BY <2>1, FollowsNothing
<1>9. ASSUME NEW y, NEW k, Timeline(x), y.kind = x.kind, Follows(y, plan, batch, k)
      PROVE  \E m : Cut(batch, m, k)
  <2>1. Timeline(y)
    BY <1>9, Zenon DEF Timeline
  <2>2. QED
    BY <1>9, <2>1, Zenon DEF Follows
<1> DEFINE S == {k \in Nat : k <= size => Good(f[k], k)}
<1>4. 0 \in S
  <2> DEFINE o == f[0]
  <2>1. /\ DOMAIN o = {"e", "result", "accepted"} /\ o.e = x /\ o.result = "ok"
        /\ o.accepted = 0
    BY <1>1 DEF Outcome
  <2> HIDE DEF o
  <2>2. Timeline(x) => \E m : Cut(batch, m, 0)
    BY <1>3, <1>9
  <2>4. Good(o, 0)
    BY <1>3, <2>1, <2>2
  <2>3. QED
    BY <2>4 DEF o
<1>5. ASSUME NEW k \in Nat, k \in S PROVE k + 1 \in S
  <2> SUFFICES ASSUME k + 1 <= size PROVE Good(f[k + 1], k + 1)
    OBVIOUS
  <2> DEFINE o == f[k]
             next == f[k + 1]
             y == o.e
  <2>1. next = PushNext(o, batch, steps)
    <3>1. k + 1 \in 1 .. size /\ (k + 1) - 1 = k
      OBVIOUS
    <3>2. f[k + 1] = PushNext(f[(k + 1) - 1], batch, steps)
      BY <1>1, <3>1
    <3>3. QED
      BY <3>1, <3>2
  <2>2. Good(o, k)
    BY <1>5
  <2> HIDE DEF o, next, plan
  <2>3. CASE o.result # "ok"
    <3>1. next = o
      BY <2>1, <2>3 DEF PushNext
    <3>2. QED
      BY <2>2, <2>3, <3>1 DEF next
  <2>4. CASE o.result = "ok" /\ ~CanAccept(o.e)
    <3>1. next = [o EXCEPT !.result = "full"]
      BY <2>1, <2>4, Zenon DEF PushNext
    <3>2. /\ DOMAIN next = {"e", "result", "accepted"} /\ next.e = y
          /\ next.result = "full" /\ next.accepted = o.accepted
      BY <2>2, <3>1
    <3> HIDE DEF next
    <3>3. Good(next, k + 1)
      BY <2>2, <2>4, <3>2
    <3>4. QED
      BY <3>3 DEF next
  <2>5. CASE o.result = "ok" /\ CanAccept(o.e)
    <3> DEFINE w == PushOne(Ramped(y, batch, k), steps)
    <3>1. Going(o, k)
      BY <2>2, <2>5
    <3>2. next = PushDone(w, k)
      <4>1. next = PushDone(PushOne(Ramped(o.e, batch, o.accepted), steps), o.accepted)
        BY <2>1, <2>5, Zenon DEF PushNext
      <4>2. QED
        BY <3>1, <4>1
    <3>3. ~y.flushed
      BY <2>5, Zenon DEF CanAccept
    <3>4. /\ Fit(y) /\ y.ok /\ y.kind = x.kind /\ Follows(y, plan, batch, k)
      BY <3>1
    <3>5. /\ Allowed(batch, y.kind) /\ (Timeline(y) \/ Len(batch) = 0)
          /\ SafeThrough(plan, batch)
      BY <3>4, Zenon DEF Timeline, plan
    <3> HIDE DEF y
    <3>6. /\ Fit(w) /\ w.kind = y.kind
          /\ w.ok => Follows(w, plan, batch, k + 1)
      BY <1>2, <3>3, <3>4, <3>5, FramePushed
    <3> HIDE DEF w
    <3>7. CASE w.ok
      <4>1. next = Outcome(w, "ok", k + 1)
        BY <3>2, <3>7, Zenon DEF PushDone
      <4>2. /\ DOMAIN next = {"e", "result", "accepted"} /\ next.e = w
            /\ next.result = "ok" /\ next.accepted = k + 1
        BY <4>1 DEF Outcome
      <4>5. w.kind = x.kind /\ Follows(w, plan, batch, k + 1)
        BY <3>4, <3>6, <3>7
      <4>6. Timeline(x) => \E m : Cut(batch, m, k + 1)
        BY <1>9, <4>5
      <4>3. Good(next, k + 1)
        BY <3>4, <3>6, <3>7, <4>2, <4>6
      <4>4. QED
        BY <4>3 DEF next
    <3>8. CASE ~w.ok
      <4>1. next = Outcome(w, "fault", k)
        BY <3>2, <3>8, Zenon DEF PushDone
      <4>2. /\ DOMAIN next = {"e", "result", "accepted"} /\ next.e = w
            /\ next.result = "fault" /\ next.accepted = k
        BY <4>1 DEF Outcome
      <4>6. Timeline(x) => \E m : Cut(batch, m, k)
        BY <1>9, <3>4
      <4>3. Good(next, k + 1)
        BY <3>4, <3>6, <3>8, <4>2, <4>6
      <4>4. QED
        BY <4>3 DEF next
    <3>9. QED
      BY <3>7, <3>8
  <2>6. QED
    BY <2>3, <2>4, <2>5
<1> HIDE DEF S
<1>6. size \in S
  BY <1>4, <1>5, SetInduction
<1>7. Good(f[size], size)
  BY <1>6 DEF S
<1>8. QED
  BY <1>1, <1>7

(* Accepting frames: with room at first, at least one is accepted.         *)
LEMMA FullAccepts ==
  ASSUME NEW x, CanAccept(x), NEW batch, NEW size \in Nat, NEW steps, size > 0
  PROVE  ~(/\ PushFrames(x, size, batch, steps).result = "full"
           /\ PushFrames(x, size, batch, steps).accepted = 0)
<1> DEFINE Good(o, k) ==
             /\ DOMAIN o = {"e", "result", "accepted"}
             /\ o.result = "ok" => o.accepted = k /\ (k = 0 => o.e = x)
             /\ o.result = "full" => o.accepted \in Nat \ {0}
<1>1. PICK f : /\ f[0] = Outcome(x, "ok", 0)
               /\ \A k \in 1 .. size : f[k] = PushNext(f[k - 1], batch, steps)
               /\ PushFrames(x, size, batch, steps) = f[size]
  <2>1. PICK f : Pushes(f, x, size, batch, steps)
    BY PushFramesIs
  <2>2. QED
    BY <2>1, Zenon DEF Pushes
<1> DEFINE S == {k \in Nat : k <= size => Good(f[k], k)}
<1>2. 0 \in S
  <2> DEFINE o == f[0]
  <2>1. /\ DOMAIN o = {"e", "result", "accepted"} /\ o.e = x /\ o.result = "ok"
        /\ o.accepted = 0
    BY <1>1 DEF Outcome
  <2> HIDE DEF o
  <2>2. Good(o, 0)
    BY <2>1
  <2>3. QED
    BY <2>2 DEF o
<1>3. ASSUME NEW k \in Nat, k \in S PROVE k + 1 \in S
  <2> SUFFICES ASSUME k + 1 <= size PROVE Good(f[k + 1], k + 1)
    OBVIOUS
  <2> DEFINE o == f[k]
             next == f[k + 1]
  <2>1. next = PushNext(o, batch, steps)
    <3>1. k + 1 \in 1 .. size /\ (k + 1) - 1 = k
      OBVIOUS
    <3>2. f[k + 1] = PushNext(f[(k + 1) - 1], batch, steps)
      BY <1>1, <3>1
    <3>3. QED
      BY <3>1, <3>2
  <2>2. Good(o, k)
    BY <1>3
  <2> HIDE DEF o, next
  <2>3. CASE o.result # "ok"
    <3>1. next = o
      BY <2>1, <2>3 DEF PushNext
    <3>2. QED
      BY <2>2, <2>3, <3>1 DEF next
  <2>4. CASE o.result = "ok" /\ ~CanAccept(o.e)
    <3>1. next = [o EXCEPT !.result = "full"]
      BY <2>1, <2>4, Zenon DEF PushNext
    <3>2. k # 0
      BY <2>2, <2>4
    <3>3. /\ DOMAIN next = {"e", "result", "accepted"} /\ next.result = "full"
          /\ next.accepted = k
      BY <2>2, <2>4, <3>1
    <3>4. Good(next, k + 1)
      BY <3>2, <3>3
    <3>5. QED
      BY <3>4 DEF next
  <2>5. CASE o.result = "ok" /\ CanAccept(o.e)
    <3> DEFINE w == PushOne(Ramped(o.e, batch, o.accepted), steps)
    <3>1. next = PushDone(w, k)
      <4>1. next = PushDone(PushOne(Ramped(o.e, batch, o.accepted), steps), o.accepted)
        BY <2>1, <2>5, Zenon DEF PushNext
      <4>2. QED
        BY <2>2, <2>5, <4>1
    <3> HIDE DEF w
    <3>2. next = Outcome(w, "ok", k + 1) \/ next = Outcome(w, "fault", k)
      BY <3>1, Zenon DEF PushDone
    <3>3. Good(next, k + 1)
      BY <3>2 DEF Outcome
    <3>4. QED
      BY <3>3 DEF next
  <2>6. QED
    BY <2>3, <2>4, <2>5
<1> HIDE DEF S
<1>4. size \in S
  BY <1>2, <1>3, SetInduction
<1>5. Good(f[size], size)
  BY <1>4 DEF S
<1>6. QED
  BY <1>1, <1>5

(* What validate_ramps() makes sure of. *)
LEMMA ValidIs ==
  ASSUME NEW x, NEW batch \in Batches, NEW n \in Nat, ValidateRamps(x, batch, n)
  PROVE  /\ Timeline(x) /\ ~x.flushed /\ Sorted(batch) /\ Allowed(batch, x.kind)
         /\ DOMAIN batch = 1 .. Len(batch)
         /\ \A i \in 1 .. Len(batch) : IF n > 0 THEN batch[i].at < n ELSE batch[i].at = 0
         /\ SafeThrough(Synced(x).line.plan, batch)
<1> DEFINE Given == [at : Nat, of : {"pitch", "time"}, to : Nat, over : Nat]
<1>1. batch \in Seq(Given)
  BY SpectralSizes
<1>2. /\ DOMAIN batch = 1 .. Len(batch) /\ Len(batch) \in Nat
      /\ \A i \in 1 .. Len(batch) : batch[i] \in Given
  <2> HIDE DEF Given
  <2>1. QED
    BY <1>1
<1>3. /\ Timeline(x) /\ ~x.flushed /\ SafeThrough(Synced(x).line.plan, batch)
      /\ \A i \in DOMAIN batch :
           /\ IF n > 0 THEN batch[i].at < n ELSE batch[i].at = 0
           /\ i > 1 => batch[i].at >= batch[i - 1].at
           /\ batch[i].of = "time" => x.kind.variable
           /\ 2 * batch[i].to >= Unit /\ batch[i].to <= 2 * Unit
  BY Zenon DEF ValidateRamps
<1>4. \A i \in 1 .. Len(batch) : batch[i] \in Orders
  BY <1>2, <1>3, SizesAre DEF Orders, Ratios
<1>5. Sorted(batch)
  BY <1>2, <1>3, <1>4 DEF Sorted
<1>6. Allowed(batch, x.kind)
  BY <1>2, <1>3 DEF Allowed
<1>7. QED
  BY <1>2, <1>3, <1>5, <1>6

(* The pitch the mailbox gets: that of the last ramp that took effect.     *)
LEMMA FollowedIs ==
  ASSUME NEW batch, Sorted(batch), DOMAIN batch = 1 .. Len(batch),
         \A i \in 1 .. Len(batch) : batch[i].of = "pitch",
         NEW m, NEW k, Cut(batch, m, k)
  PROVE  Followed(batch, k) = IF m = 0 THEN wanted ELSE batch[m].to
<1> DEFINE done == {i \in DOMAIN batch : batch[i].at < k /\ batch[i].of = "pitch"}
<1>1. done = 1 .. m
  BY DEF Cut, Sorted
<1>2. Followed(batch, k) = IF done = {} THEN wanted
                           ELSE batch[CHOOSE i \in done : \A j \in done : j <= i].to
  BY DEF Followed
<1> HIDE DEF done
<1>3. m \in Nat
  BY DEF Cut, Sorted
<1>4. CASE m = 0
  BY <1>1, <1>2, <1>4
<1>5. CASE m # 0
  <2>1. m \in done /\ \A j \in done : j <= m
    BY <1>1, <1>3, <1>5
  <2>2. \A i \in done : (\A j \in done : j <= i) => i = m
    BY <1>1, <1>3, <2>1
  <2>3. (CHOOSE i \in done : \A j \in done : j <= i) = m
    BY <2>1, <2>2, Zenon
  <2>4. done # {}
    BY <2>1
  <2>5. QED
    BY <1>2, <1>5, <2>3, <2>4
<1>6. QED
  BY <1>4, <1>5

(* Ramps of the pitch leave the time where it is. *)
LEMMA LeadsTime ==
  ASSUME NEW plan \in Plans, plan.time.left = 0, NEW batch, Sorted(batch),
         \A i \in 1 .. Len(batch) : batch[i].of = "pitch"
  PROVE  \A i \in 0 .. Len(batch) : Leads(plan, batch)[i].time = plan.time
<1> DEFINE led == Leads(plan, batch)
           n == Len(batch)
<1>1. ASSUME NEW p \in Plans, p.time = plan.time, NEW d \in Nat
      PROVE  After(p, d).time = plan.time
  <2> DEFINE S == {k \in Nat : After(p, k).time = plan.time}
  <2>1. 0 \in S
    <3>1. After(p, 0) = p
      BY AfterIs
    <3>2. QED
      BY <1>1, <3>1
  <2>2. ASSUME NEW k \in Nat, k \in S PROVE k + 1 \in S
    <3> DEFINE q == After(p, k)
    <3>1. After(p, k + 1) = TickedPlan(q)
      BY AfterIs
    <3>2. q \in Plans
      BY AfterIsSafe
    <3>3. q.time = plan.time
      BY <2>2
    <3> HIDE DEF q
    <3>4. TickedPlan(q).time = q.time
      BY <3>2, <3>3, TickedPlanIs
    <3>5. QED
      BY <3>1, <3>3, <3>4
  <2> HIDE DEF S
  <2>3. d \in S
    BY <1>1, <2>1, <2>2, SetInduction
  <2>4. QED
    BY <2>3 DEF S
<1>2. n \in Nat
  BY DEF Sorted
<1>3. /\ led[0] = plan
      /\ \A i \in 1 .. n :
           led[i] = RampPlan(After(led[i - 1], batch[i].at - Cursor(batch, i - 1)), batch[i])
      /\ \A i \in 0 .. n : led[i] \in Plans
  BY LeadsNext
<1> HIDE DEF led
<1> DEFINE S == {i \in Nat : i <= n => led[i].time = plan.time}
<1>4. 0 \in S
  BY <1>3
<1>5. ASSUME NEW i \in Nat, i \in S PROVE i + 1 \in S
  <2> SUFFICES ASSUME i + 1 <= n PROVE led[i + 1].time = plan.time
    OBVIOUS
  <2> DEFINE d == batch[i + 1].at - Cursor(batch, i)
             r == batch[i + 1]
             q == After(led[i], d)
  <2>1. i + 1 \in 1 .. n /\ (i + 1) - 1 = i /\ i \in 0 .. n
    BY <1>2
  <2>2. led[i + 1] = RampPlan(q, r)
    BY <1>3, <2>1
  <2>3. r \in Orders /\ r.of = "pitch"
    BY <2>1 DEF Sorted
  <2>4. d \in Nat
    <3>1. r.at \in Nat
      BY <2>3 DEF Orders
    <3>2. CASE i = 0
      <4>1. Cursor(batch, i) = 0
        BY <3>2 DEF Cursor
      <4>2. QED
        BY <3>1, <4>1
    <3>3. CASE i > 0
      <4>1. i \in 1 .. n /\ i + 1 > 1
        BY <2>1, <3>3
      <4>2. batch[i].at \in Nat /\ r.at >= batch[i].at
        BY <2>1, <4>1 DEF Sorted, Orders
      <4>3. Cursor(batch, i) = batch[i].at
        BY <3>3 DEF Cursor
      <4>4. QED
        BY <3>1, <4>2, <4>3
    <3>4. QED
      BY <3>2, <3>3
  <2>5. led[i].time = plan.time /\ led[i] \in Plans
    BY <1>3, <1>5, <2>1
  <2> HIDE DEF d, r
  <2>6. q \in Plans /\ q.time = plan.time
    BY <1>1, <2>4, <2>5, AfterIsSafe
  <2> HIDE DEF q
  <2>7. RampPlan(q, r).time = q.time
    BY <2>3, <2>6, RampPlanIs
  <2>8. QED
    BY <2>2, <2>6, <2>7
<1> HIDE DEF S
<1>6. \A i \in Nat : i \in S
  BY <1>4, <1>5, SetInduction
<1>7. QED
  BY <1>2, <1>6 DEF S, led

(* ... and where it ends it could have been set as well. *)
LEMMA LedIsSettable ==
  ASSUME NEW kind \in Kinds, NEW plan \in Plans, plan.time = Steady(kind.time),
         NEW batch, Sorted(batch), \A i \in 1 .. Len(batch) : batch[i].of = "pitch",
         SafeThrough(plan, batch), NEW k \in Nat, NEW m, Cut(batch, m, k), m # 0
  PROVE  Settable(batch[m].to, kind)
<1> DEFINE q == Leads(plan, batch)[m]
           to == batch[m].to
           time == kind.time
<1>1. m \in 1 .. Len(batch) /\ m \in 0 .. Len(batch)
  BY DEF Cut, Sorted
<1>2. time \in Ratios
  BY SpectralSizes DEF Ratios
<1>3. batch[m] \in Orders /\ batch[m].of = "pitch" /\ to \in Ratios
  BY <1>1 DEF Sorted, Orders
<1>4. plan.time.left = 0 /\ Reach(plan.time) = time
  BY <1>2, SteadyIs DEF Steady
<1>5. q \in Plans /\ q.time = plan.time
  BY <1>1, <1>4, LeadsNext, LeadsTime
<1>6. Safe(q)
  BY CutIsSafe
<1>7. q.pitch.target = to
  <2> DEFINE p == After(Leads(plan, batch)[m - 1], batch[m].at - Cursor(batch, m - 1))
  <2>1. q = RampPlan(p, batch[m])
    BY <1>1, LeadsNext
  <2>2. p \in Plans
    <3>1. m - 1 \in 0 .. Len(batch)
      BY <1>1 DEF Sorted
    <3>2. Leads(plan, batch)[m - 1] \in Plans
      BY <3>1, LeadsNext
    <3>3. batch[m].at - Cursor(batch, m - 1) \in Nat
      <4>1. batch[m].at \in Nat
        BY <1>3 DEF Orders
      <4>2. CASE m = 1
        <5>1. Cursor(batch, m - 1) = 0
          BY <4>2 DEF Cursor
        <5>2. QED
          BY <4>1, <5>1
      <4>3. CASE m > 1
        <5>1. m - 1 \in 1 .. Len(batch) /\ m - 1 # 0
          BY <1>1, <4>3 DEF Sorted
        <5>2. batch[m - 1].at \in Nat /\ batch[m].at >= batch[m - 1].at
          BY <1>1, <4>3, <5>1 DEF Sorted, Orders
        <5>3. Cursor(batch, m - 1) = batch[m - 1].at
          BY <5>1 DEF Cursor
        <5>4. QED
          BY <4>1, <5>2, <5>3
      <4>4. QED
        BY <1>1, <4>2, <4>3
    <3>4. QED
      BY <3>2, <3>3, AfterIsSafe
  <2> HIDE DEF p, q
  <2>3. QED
    BY <1>3, <2>1, <2>2, RampPlanIs
<1> HIDE DEF q
<1>8. Reach(q.pitch) * Reach(q.time) <= 2 * Frame
  BY <1>5, <1>6, SafeIs
<1>9. Reach(q.time) = time
  BY <1>4, <1>5
<1> DEFINE a == Reach(q.pitch)
<1>10. a \in Nat /\ to <= a
  <2> DEFINE r == q.pitch
  <2>1. r \in Ramps
    BY <1>5 DEF Plans
  <2>2. r.target = to
    BY <1>7
  <2> HIDE DEF r, to
  <2>3. Reach(r) \in Nat /\ r.target <= Reach(r)
    BY <2>1 DEF Ramps, Reach, Greater, Ratios
  <2>4. QED
    BY <2>2, <2>3 DEF r
<1> HIDE DEF a, to, time
<1>11. a * time <= 2 * Frame
  <2> DEFINE b == Reach(q.time)
  <2>1. a * b <= 2 * Frame
    BY <1>8 DEF a
  <2>2. b = time
    BY <1>9
  <2> HIDE DEF b
  <2>3. QED
    BY <2>1, <2>2
<1>12. to * time <= a * time /\ to * time \in Nat
  <2>1. to \in Nat /\ time \in Nat /\ time <= time
    BY <1>2, <1>3 DEF Ratios
  <2>2. QED
    BY <1>10, <2>1, ProductGrows
<1>13. \A i, j \in Int : i * j \in Int
  OBVIOUS
<1>14. a * time \in Int
  BY <1>2, <1>10, <1>13 DEF Ratios
<1>15. to * time <= 2 * Frame
  BY <1>11, <1>12, <1>14, SizesAre
<1>16. QED
  BY <1>3, <1>15 DEF Settable, to, time

-----------------------------------------------------------------------------
(* Realtime calls. *)

LEMMA LatencyIs ==
  ASSUME NEW kind \in Kinds
  PROVE  Latency(kind) \in Int
<1> DEFINE pitch == IF kind.timeline THEN Unit \div 2 ELSE kind.pitch
           x == (N \div 2 + Half + 4) * Unit
<1>1. Unit \in Nat \ {0} /\ Unit % 2 = 0
  BY SpectralSizes
<1>2. Unit \div 2 \in Nat \ {0}
  BY <1>1
<1>3. kind.pitch \in Nat \ {0}
  BY <1>1, SpectralSizes
<1>4. pitch \in Nat \ {0}
  BY <1>2, <1>3, Zenon
<1>5. N \in Nat /\ Half \in Nat /\ Hop \in Nat /\ N \div 2 \in Nat
  BY SizesAre
<1>6. \A i, j \in Int : i * j \in Int
  OBVIOUS
<1>7. x \in Int
  <2>1. N \div 2 + Half + 4 \in Int
    BY <1>5
  <2>2. QED
    BY <1>1, <1>6, <2>1
<1> HIDE DEF x
<1>8. Latency(kind) = N \div 2 + 2 * Hop + 2 + Ceil(x, pitch)
  BY Zenon DEF Latency, x
<1> HIDE DEF pitch
<1>9. Ceil(x, pitch) \in Int
  BY <1>4, <1>7 DEF Ceil
<1> HIDE DEF Ceil
<1>10. QED
  BY <1>5, <1>8, <1>9

(* Frames without ramps. *)
LEMMA PlainIs ==
  /\ Sorted(<<>>) /\ Len(<<>>) = 0
  /\ \A kind : Allowed(<<>>, kind)
  /\ \A plan \in Plans : Safe(plan) => SafeThrough(plan, <<>>)
  /\ \A x, k, plan : plan \in Plans /\ k \in Nat /\ Timeline(x)
                       /\ Follows(x, plan, <<>>, k) => x.line.plan = After(plan, k)
<1>1. Len(<<>>) = 0
  OBVIOUS
<1>2. Sorted(<<>>)
  BY <1>1 DEF Sorted
<1>3. ASSUME NEW kind PROVE Allowed(<<>>, kind)
  BY <1>1 DEF Allowed
<1>4. ASSUME NEW plan \in Plans PROVE Leads(plan, <<>>)[0] = plan
  BY <1>2, LeadsNext
<1>5. ASSUME NEW plan \in Plans, Safe(plan) PROVE SafeThrough(plan, <<>>)
  <2>1. \A i \in 0 .. Len(<<>>) : i = 0
    BY <1>1
  <2>2. Safe(Leads(plan, <<>>)[0])
    BY <1>4, <1>5
  <2>3. QED
    BY <2>1, <2>2, Zenon DEF SafeThrough
<1>6. ASSUME NEW x, NEW k \in Nat, NEW plan \in Plans, Timeline(x),
             Follows(x, plan, <<>>, k)
      PROVE  x.line.plan = After(plan, k)
  <2>1. PICK m : /\ Cut(<<>>, m, k)
                 /\ x.line.plan = After(Leads(plan, <<>>)[m], k - Cursor(<<>>, m))
    BY <1>6, Zenon DEF Follows
  <2>2. m = 0
    BY <1>1, <2>1 DEF Cut
  <2>3. k - Cursor(<<>>, m) = k
    BY <2>2 DEF Cursor
  <2>4. QED
    BY <1>4, <2>1, <2>2, <2>3
<1>7. QED
  BY <1>1, <1>2, <1>3, <1>5, <1>6

(* A block so far. *)
Block(r) ==
  DOMAIN r = {"e", "silence", "under", "ok", "at"} /\ r.silence \in Int /\ r.at \in Nat
Sound(r, kind) ==
  Block(r) /\ Fit(r.e) /\ r.e.kind = kind /\ (r.ok => r.e.ok)

LEMMA ChunkIs ==
  ASSUME NEW r, NEW kind, Sound(r, kind), r.ok, NEW n \in Nat, NEW steps \in Nat
  PROVE  LET c == Chunk(r, n, steps) IN
         /\ Sound(c, kind)
         /\ c.ok => c.at = r.at + n
         /\ c.ok /\ Timeline(r.e) => c.e.line.plan = After(r.e.line.plan, n)
<1> DEFINE o == PushFrames(r.e, n, <<>>, steps)
           zero == Lesser(n, r.silence)
           c == Chunk(r, n, steps)
           p == r.e.line.plan
<1>1. /\ Block(r) /\ Fit(r.e) /\ r.e.kind = kind /\ r.e.ok
      /\ r.silence \in Int /\ r.at \in Nat
  BY DEF Sound, Block
<1>2. p \in Plans /\ Safe(p)
  BY <1>1 DEF Fit, Driven, Based, Chart
<1>3. /\ Sorted(<<>>) /\ Len(<<>>) = 0 /\ Allowed(<<>>, r.e.kind)
      /\ SafeThrough(p, <<>>)
  BY <1>2, PlainIs
<1>4. /\ Fit(o.e) /\ o.e.kind = kind /\ (o.result # "fault" <=> o.e.ok)
      /\ o.result = "ok" => Follows(o.e, p, <<>>, n)
  BY <1>1, <1>3, PushFramesFit
<1>5. zero \in Int /\ n - zero \in Int
  <2>1. zero \in Int
    BY <1>1 DEF Lesser
  <2> HIDE DEF zero
  <2>2. QED
    BY <2>1
<1>6. c = ChunkPulled(r, o, n, zero)
  BY Zenon DEF Chunk
<1> HIDE DEF o, zero, c
<1>7. CASE o.result # "ok"
  <2> DEFINE no == FALSE
             out == o.e
  <2>1. c = [r EXCEPT !.e = out, !.ok = no]
    BY <1>6, <1>7, Zenon DEF ChunkPulled
  <2>2. ~no
    OBVIOUS
  <2> HIDE DEF no, out
  <2>3. /\ DOMAIN c = DOMAIN r /\ c.silence = r.silence /\ c.at = r.at
        /\ c.e = out /\ c.ok = no
    BY <1>1, <2>1 DEF Block
  <2>4. Sound(c, kind) /\ ~c.ok
    BY <1>1, <1>4, <2>2, <2>3 DEF Sound, Block, out
  <2>5. QED
    BY <2>4 DEF c
<1>8. CASE o.result = "ok"
  <2> DEFINE yes == TRUE
             out == PullSome(o.e, n - zero)
             under == r.under \/ o.e.count < n - zero
             left == r.silence - zero
             at == r.at + n
  <2>1. c = [e |-> out, silence |-> left, under |-> under, ok |-> yes, at |-> at]
    BY <1>6, <1>8, Zenon DEF ChunkPulled
  <2>2. yes /\ left \in Int /\ at \in Nat
    BY <1>1, <1>5
  <2>3. /\ Fit(out) /\ out.kind = kind /\ out.ok /\ out.line.plan = o.e.line.plan
    <3> DEFINE y == o.e
    <3>1. Driven(y) /\ Based(y) /\ Fit(y) /\ y.ok /\ y.kind = kind
      BY <1>4, <1>8, Zenon DEF Fit, Driven
    <3>2. Delivers(y, out)
      BY <1>5, <3>1, PullSomeDelivers
    <3> HIDE DEF y, out
    <3>3. Fit(out) /\ out.kind = y.kind /\ out.line = y.line /\ out.ok = y.ok
      BY <3>1, <3>2, DrivenDelivered, DeliversKeeps
    <3>4. QED
      BY <3>1, <3>3 DEF y
  <2> HIDE DEF yes, out, under, left, at
  <2>4. /\ DOMAIN c = {"e", "silence", "under", "ok", "at"} /\ c.e = out
        /\ c.silence = left /\ c.ok = yes /\ c.at = at
    BY <2>1
  <2>5. Sound(c, kind) /\ c.ok
    BY <2>2, <2>3, <2>4 DEF Sound, Block
  <2>6. ASSUME Timeline(r.e) PROVE c.e.line.plan = After(p, n)
    <3>1. Timeline(o.e)
      BY <1>1, <1>4, <2>6, Zenon DEF Timeline
    <3>2. o.e.line.plan = After(p, n)
      BY <1>2, <1>4, <1>8, <3>1, PlainIs
    <3>3. QED
      BY <2>3, <2>4, <3>2
  <2>7. c.at = r.at + n
    BY <2>4 DEF at
  <2>8. QED
    BY <2>5, <2>6, <2>7 DEF c
<1>9. QED
  BY <1>7, <1>8

LEMMA UptoIs ==
  ASSUME NEW r, NEW kind, Sound(r, kind), NEW at \in Int, NEW steps \in Nat
  PROVE  Sound(Upto(r, at, steps), kind)
<1>1. CASE r.ok /\ at > r.at
  <2>1. Upto(r, at, steps) = Chunk(r, at - r.at, steps)
    BY <1>1, Zenon DEF Upto
  <2>2. at - r.at \in Nat
    BY <1>1 DEF Sound, Block
  <2>3. QED
    BY <1>1, <2>1, <2>2, ChunkIs
<1>2. CASE ~(r.ok /\ at > r.at)
  <2>1. Upto(r, at, steps) = r
    BY <1>2, Zenon DEF Upto
  <2>2. QED
    BY <2>1
<1>3. QED
  BY <1>1, <1>2

(* An event at its offset. *)
LEMMA HeardIs ==
  ASSUME NEW r, Block(r), NEW event, NEW explicit
  PROVE  LET h == Heard(r, event, explicit) IN
         /\ ~r.ok => h = r
         /\ r.ok => /\ Block(h) /\ h.ok = r.ok /\ h.at = r.at
                    /\ explicit => h.e = Ramp(r.e, event)
                    /\ ~explicit => h.e = GlidePitch(r.e, event.to)
<1> DEFINE y == IF explicit THEN Ramp(r.e, event) ELSE GlidePitch(r.e, event.to)
           h == Heard(r, event, explicit)
<1>1. ~r.ok => h = r
  BY Zenon DEF Heard
<1>2. ASSUME r.ok PROVE h = [r EXCEPT !.e = y]
  <2> DEFINE G(x) == IF explicit THEN Ramp(x, event) ELSE GlidePitch(x, event.to)
  <2>1. h = [r EXCEPT !.e = G(@)]
    BY <1>2, Zenon DEF Heard
  <2>2. y = G(r.e)
    BY Zenon
  <2> HIDE DEF G, y, h
  <2>3. [r EXCEPT !.e = G(@)] = [r EXCEPT !.e = G(r.e)]
    BY DEF Block
  <2>4. QED
    BY <2>1, <2>2, <2>3
<1>3. /\ explicit => y = Ramp(r.e, event)
      /\ ~explicit => y = GlidePitch(r.e, event.to)
  BY Zenon
<1> HIDE DEF y, h
<1>4. ASSUME r.ok PROVE Block(h) /\ h.ok = r.ok /\ h.at = r.at /\ h.e = y
  BY <1>2, <1>4 DEF Block
<1>5. QED
  BY <1>1, <1>3, <1>4, Zenon DEF h

(* A block whose events set the pitch. *)
LEMMA GlidingIsFit ==
  ASSUME NEW kind, ~kind.variable, NEW r, Sound(r, kind), NEW n \in Nat, NEW batch,
         Len(batch) \in Nat,
         \A i \in 1 .. Len(batch) : batch[i].at \in Nat /\ Settable(batch[i].to, kind),
         NEW steps \in Nat, NEW explicit, ~explicit
  PROVE  Sound(RealtimeBlock(r, n, batch, steps, explicit), kind)
<1> DEFINE m == Len(batch)
<1>1. PICK f : Hears(f, r, n, batch, steps, explicit)
  BY RealtimeIs
<1>2. /\ f[0] = r
      /\ \A k \in 1 .. m : f[k] = Heard(Upto(f[k - 1], batch[k].at, steps), batch[k], explicit)
      /\ RealtimeBlock(r, n, batch, steps, explicit) = Upto(f[m], n, steps)
  BY <1>1, Zenon DEF Hears
<1> DEFINE S == {k \in Nat : k <= m => Sound(f[k], kind)}
<1>3. 0 \in S
  BY <1>2
<1>4. ASSUME NEW k \in Nat, k \in S PROVE k + 1 \in S
  <2> SUFFICES ASSUME k + 1 <= m PROVE Sound(f[k + 1], kind)
    OBVIOUS
  <2> DEFINE y == f[k]
             event == batch[k + 1]
             u == Upto(y, event.at, steps)
             z == f[k + 1]
             x == u.e
             v == event.to
  <2>1. k + 1 \in 1 .. m /\ (k + 1) - 1 = k
    OBVIOUS
  <2>2. z = Heard(u, event, explicit)
    BY <1>2, <2>1
  <2>3. Sound(y, kind)
    BY <1>4
  <2>4. event.at \in Int /\ Settable(v, kind)
    BY <2>1
  <2> HIDE DEF y, event, z
  <2>5. Sound(u, kind)
    BY <2>3, <2>4, UptoIs
  <2> HIDE DEF u
  <2>6. CASE ~u.ok
    <3>1. z = u
      BY <2>2, <2>5, <2>6, HeardIs DEF Sound
    <3>2. QED
      BY <2>5, <3>1 DEF z
  <2>7. CASE u.ok
    <3>1. Block(z) /\ z.ok = u.ok /\ z.e = GlidePitch(x, v)
      BY <2>2, <2>5, <2>7, HeardIs DEF Sound
    <3>2. Fit(x) /\ x.kind = kind /\ x.ok
      BY <2>5, <2>7 DEF Sound
    <3>3. v \in Ratios /\ v * kind.time <= 2 * Frame
      BY <2>4 DEF Settable
    <3>4. Driven(x)
      BY <3>2, Zenon DEF Fit
    <3> HIDE DEF x, v
    <3>5. /\ Fit(GlidePitch(x, v)) /\ GlidePitch(x, v).kind = kind /\ GlidePitch(x, v).ok
      BY <3>2, <3>3, <3>4, GlidePitchIs
    <3>6. Sound(z, kind)
      BY <3>1, <3>5 DEF Sound
    <3>7. QED
      BY <3>6 DEF z
  <2>8. QED
    BY <2>6, <2>7
<1> HIDE DEF S
<1>5. m \in S
  BY <1>3, <1>4, SetInduction
<1>6. Sound(f[m], kind)
  BY <1>5 DEF S
<1>7. QED
  BY <1>2, <1>6, UptoIs

(* A block whose events are ramps. *)
LEMMA RampingIsFit ==
  ASSUME NEW kind, NEW r, Sound(r, kind), r.at = 0, Timeline(r.e), NEW n \in Nat,
         NEW batch, Sorted(batch), Allowed(batch, kind),
         SafeThrough(r.e.line.plan, batch),
         NEW steps \in Nat, NEW explicit, explicit
  PROVE  Sound(RealtimeBlock(r, n, batch, steps, explicit), kind)
<1> DEFINE m == Len(batch)
           plan == r.e.line.plan
           led == Leads(plan, batch)
           Good(z, k) ==
             /\ Block(z) /\ Driven(z.e) /\ z.e.kind = kind
             /\ ~z.ok => Fit(z.e)
             /\ z.ok => z.e.ok /\ z.at = Cursor(batch, k) /\ z.e.line.plan = led[k]
<1>0. m \in Nat
  BY DEF Sorted
<1>1. PICK f : Hears(f, r, n, batch, steps, explicit)
  BY <1>0, RealtimeIs
<1>2. /\ f[0] = r
      /\ \A k \in 1 .. m : f[k] = Heard(Upto(f[k - 1], batch[k].at, steps), batch[k], explicit)
      /\ RealtimeBlock(r, n, batch, steps, explicit) = Upto(f[m], n, steps)
  BY <1>1, Zenon DEF Hears
<1>3. /\ Block(r) /\ Fit(r.e) /\ r.e.kind = kind /\ (r.ok => r.e.ok) /\ Driven(r.e)
      /\ kind.timeline
  BY Zenon DEF Sound, Fit, Timeline
<1>4. plan \in Plans
  BY <1>3 DEF Driven, Based, Chart
<1>5. /\ led[0] = plan
      /\ \A i \in 1 .. m :
           led[i] = RampPlan(After(led[i - 1], batch[i].at - Cursor(batch, i - 1)), batch[i])
      /\ \A i \in 0 .. m : led[i] \in Plans
  BY <1>4, LeadsNext
<1>6. \A i \in 0 .. m :
        i = 0 \/ i = m \/ batch[i].at # batch[i + 1].at => Safe(led[i])
  BY Zenon DEF SafeThrough
<1> HIDE DEF led
<1> DEFINE S == {k \in Nat : k <= m => Good(f[k], k)}
<1>7. 0 \in S
  <2>1. Cursor(batch, 0) = 0
    BY DEF Cursor
  <2>2. Good(r, 0)
    BY <1>3, <1>5, <2>1
  <2>3. QED
    BY <1>2, <2>2
<1>8. ASSUME NEW k \in Nat, k \in S PROVE k + 1 \in S
  <2> SUFFICES ASSUME k + 1 <= m PROVE Good(f[k + 1], k + 1)
    OBVIOUS
  <2> DEFINE y == f[k]
             event == batch[k + 1]
             u == Upto(y, event.at, steps)
             z == f[k + 1]
             x == u.e
             past == Cursor(batch, k)
  <2>1. k + 1 \in 1 .. m /\ (k + 1) - 1 = k /\ k \in 0 .. m
    BY <1>0
  <2>2. z = Heard(u, event, explicit)
    BY <1>2, <2>1
  <2>3. Good(y, k)
    BY <1>0, <1>8
  <2>4. event \in Orders /\ event.at \in Nat /\ (event.of = "time" => kind.variable)
    BY <2>1 DEF Sorted, Allowed, Orders
  <2>5. /\ past \in Nat /\ past <= event.at
        /\ k # 0 => past = batch[k].at
    <3>1. CASE k = 0
      <4>1. past = 0
        BY <3>1 DEF Cursor
      <4>2. QED
        BY <2>4, <3>1, <4>1
    <3>2. CASE k # 0
      <4>1. k \in 1 .. m /\ k + 1 > 1
        BY <1>0, <3>2
      <4>2. past = batch[k].at
        BY <3>2 DEF Cursor
      <4>3. batch[k].at \in Nat /\ event.at >= batch[k].at
        BY <2>1, <4>1 DEF Sorted, Orders
      <4>4. QED
        BY <2>4, <4>2, <4>3
    <3>3. QED
      BY <3>1, <3>2
  <2>6. led[k + 1] = RampPlan(After(led[k], event.at - past), event)
    BY <1>5, <2>1
  <2>7. event.at # past => Safe(led[k])
    <3>1. CASE k = 0
      BY <1>6, <2>1, <3>1
    <3>2. CASE k # 0
      BY <1>6, <2>1, <2>5, <3>2
    <3>3. QED
      BY <3>1, <3>2
  <2>8. Cursor(batch, k + 1) = event.at
    BY DEF Cursor
  <2> HIDE DEF y, event, z, past
  (* Up to the event. *)
  <2>9. /\ Block(u) /\ Driven(u.e) /\ u.e.kind = kind
        /\ ~u.ok => Fit(u.e)
        /\ u.ok => /\ u.e.ok /\ u.at = event.at
                   /\ u.e.line.plan = After(led[k], event.at - past)
    <3>1. CASE ~y.ok
      <4>1. u = y
        BY <3>1, Zenon DEF Upto
      <4> HIDE DEF u
      <4>2. QED
        BY <2>3, <3>1, <4>1
    <3>2. CASE y.ok /\ event.at = past
      <4>1. y.at = past
        BY <2>3, <3>2 DEF past
      <4>2. ~(event.at > y.at)
        BY <2>5, <3>2, <4>1
      <4>3. u = y
        BY <4>2, Zenon DEF Upto
      <4>4. event.at - past = 0
        BY <2>5, <3>2
      <4>5. After(led[k], event.at - past) = led[k]
        BY <4>4, AfterIs
      <4> HIDE DEF u
      <4>6. QED
        BY <2>3, <3>2, <4>1, <4>3, <4>5
    <3>3. CASE y.ok /\ event.at # past
      <4> DEFINE d == event.at - past
      <4>1. y.at = past
        BY <2>3, <3>3 DEF past
      <4>2. event.at > y.at /\ event.at - y.at = d /\ d \in Nat /\ y.at + d = event.at
        BY <2>4, <2>5, <3>3, <4>1
      <4>3. u = Chunk(y, d, steps)
        <5>1. u = Chunk(y, event.at - y.at, steps)
          BY <3>3, <4>2, Zenon DEF Upto
        <5>2. QED
          BY <4>2, <5>1
      <4>4. Safe(y.e.line.plan)
        BY <2>3, <2>7, <3>3
      <4>5. Fit(y.e)
        BY <2>3, <4>4 DEF Fit
      <4>6. Sound(y, kind)
        BY <2>3, <3>3, <4>5 DEF Sound
      <4>7. Timeline(y.e)
        BY <1>3, <2>3 DEF Timeline
      <4> HIDE DEF d, u
      <4>8. /\ Sound(u, kind)
            /\ u.ok => u.at = y.at + d
            /\ u.ok => u.e.line.plan = After(y.e.line.plan, d)
        BY <3>3, <4>2, <4>3, <4>6, <4>7, ChunkIs
      <4>9. y.e.line.plan = led[k]
        BY <2>3, <3>3
      <4>10. Block(u) /\ Fit(u.e) /\ u.e.kind = kind /\ (u.ok => u.e.ok)
        BY <4>8 DEF Sound
      <4>11. Driven(u.e)
        BY <4>10, Zenon DEF Fit
      <4>12. QED
        BY <4>2, <4>8, <4>9, <4>10, <4>11 DEF d
    <3>4. QED
      BY <3>1, <3>2, <3>3
  <2> HIDE DEF u
  <2>10. CASE ~u.ok
    <3>1. z = u
      BY <2>2, <2>9, <2>10, HeardIs
    <3>2. QED
      BY <2>9, <2>10, <3>1 DEF z
  <2>11. CASE u.ok
    <3>1. Block(z) /\ z.ok = u.ok /\ z.at = u.at /\ z.e = Ramp(x, event)
      BY <2>2, <2>9, <2>11, HeardIs
    <3>2. Driven(x) /\ x.kind = kind /\ x.ok
      BY <2>9, <2>11
    <3>3. x.line.plan = After(led[k], event.at - past)
      BY <2>9, <2>11
    <3> HIDE DEF x
    <3> DEFINE w == Ramp(x, event)
    <3>4. Driven(w) /\ w.ok /\ w.kind = kind /\ w.line.plan = RampPlan(x.line.plan, event)
      BY <2>4, <3>2, RampIs
    <3> HIDE DEF w
    <3>5. z.e = w /\ z.at = event.at /\ z.ok
      BY <2>9, <2>11, <3>1 DEF w
    <3>6. w.line.plan = led[k + 1]
      BY <2>6, <3>3, <3>4
    <3>7. Good(z, k + 1)
      BY <2>8, <3>1, <3>4, <3>5, <3>6
    <3>8. QED
      BY <3>7 DEF z
  <2>12. QED
    BY <2>10, <2>11
<1> HIDE DEF S
<1>9. m \in S
  BY <1>0, <1>7, <1>8, SetInduction
<1>10. Good(f[m], m)
  BY <1>0, <1>9 DEF S
<1>11. Safe(led[m])
  BY <1>0, <1>6
<1>12. Sound(f[m], kind)
  <2> DEFINE z == f[m]
  <2>1. Good(z, m)
    BY <1>10
  <2> HIDE DEF z
  <2>2. z.ok => Fit(z.e)
    BY <1>11, <2>1 DEF Fit
  <2>3. Sound(z, kind)
    BY <2>1, <2>2 DEF Sound
  <2>4. QED
    BY <2>3 DEF z
<1>13. Sound(Upto(f[m], n, steps), kind)
  <2> DEFINE z == f[m]
  <2>1. Sound(z, kind) /\ n \in Int
    BY <1>12
  <2> HIDE DEF z
  <2>2. Sound(Upto(z, n, steps), kind)
    BY <2>1, UptoIs
  <2>3. QED
    BY <2>2 DEF z
<1>14. QED
  BY <1>2, <1>13, Zenon

-----------------------------------------------------------------------------
(* The inductive invariant: the engine, failed or not, keeps to its        *)
(* stretch, what the mailbox holds may be set, and a stream that did not    *)
(* fault has an engine that did not fail.                                   *)
Keeping ==
  /\ Fit(e) /\ (~fault => e.ok)
  /\ Timeline(e) /\ ~e.kind.variable => Settable(wanted, e.kind)
  /\ silence \in Int

LEMMA Commute == \A m, n \in Int : m * n = n * m /\ m * n \in Int
OBVIOUS

LEMMA KindIs ==
  ASSUME NEW kind \in Kinds
  PROVE  /\ kind.time \in Ratios /\ kind.pitch \in Ratios
         /\ kind.pitch * kind.time <= 2 * Frame
         /\ kind.scheduled => ~kind.variable
<1>1. kind.time \in Ratios /\ kind.pitch \in Ratios /\ kind.time * kind.pitch <= 2 * Frame
  BY SpectralSizes DEF Ratios
<1>2. kind.pitch * kind.time = kind.time * kind.pitch
  BY <1>1, Commute DEF Ratios
<1>3. kind.scheduled => ~kind.variable
  BY SpectralSizes
<1>4. QED
  BY <1>1, <1>2, <1>3

(* A plan that stays where it is. *)
LEMMA SteadyIsSafe ==
  ASSUME NEW pitch \in Ratios, NEW time \in Ratios, pitch * time <= 2 * Frame
  PROVE  Safe([pitch |-> Steady(pitch), time |-> Steady(time)])
<1> DEFINE p == [pitch |-> Steady(pitch), time |-> Steady(time)]
<1>1. /\ Steady(pitch) \in Ramps /\ Reach(Steady(pitch)) = pitch
      /\ Steady(time) \in Ramps /\ Reach(Steady(time)) = time
  BY SteadyIs
<1>2. p \in Plans /\ p.pitch = Steady(pitch) /\ p.time = Steady(time)
  BY <1>1 DEF Plans
<1> HIDE DEF p
<1>3. Reach(p.pitch) = pitch /\ Reach(p.time) = time
  BY <1>1, <1>2
<1>4. Reach(p.pitch) * Reach(p.time) <= 2 * Frame
  BY <1>3
<1>5. QED
  BY <1>2, <1>4, SafeIs DEF p

(* Where a safe plan is and where it heads are safe. *)
LEMMA SafePlan ==
  ASSUME NEW p \in Plans, Safe(p)
  PROVE  /\ p.pitch.value * p.time.value <= 2 * Frame
         /\ p.pitch.target * p.time.target <= 2 * Frame
<1> DEFINE a == p.pitch
           b == p.time
           c == Reach(a)
           d == Reach(b)
<1>1. a \in Ramps /\ b \in Ramps
  BY DEF Plans
<1>2. c * d <= 2 * Frame
  BY SafeIs
<1> HIDE DEF a, b
<1>3. /\ c \in Nat /\ a.value \in Nat /\ a.target \in Nat
      /\ a.value <= c /\ a.target <= c
  BY <1>1 DEF Ramps, Ratios, Reach, Greater
<1>4. /\ d \in Nat /\ b.value \in Nat /\ b.target \in Nat
      /\ b.value <= d /\ b.target <= d
  BY <1>1 DEF Ramps, Ratios, Reach, Greater
<1> HIDE DEF c, d
<1>5. a.value * b.value <= c * d /\ a.value * b.value \in Nat
  BY <1>3, <1>4, ProductGrows
<1>6. a.target * b.target <= c * d /\ a.target * b.target \in Nat
  BY <1>3, <1>4, ProductGrows
<1>7. c * d \in Int
  BY <1>3, <1>4, Commute
<1>8. a.value * b.value <= 2 * Frame /\ a.target * b.target <= 2 * Frame
  BY <1>2, <1>5, <1>6, <1>7, SizesAre
<1>9. QED
  BY <1>8 DEF a, b

LEMMA StartsFit ==
  ASSUME NEW kind \in Kinds, NEW time \in Ratios, NEW pitch \in Ratios,
         ~kind.variable => time = kind.time, pitch * time <= 2 * Frame
  PROVE  LET x == Fresh(kind, time, pitch) IN Fit(x) /\ x.ok /\ x.kind = kind
<1> DEFINE x == Fresh(kind, time, pitch)
<1>1. /\ Driven(x) /\ x.ok /\ x.kind = kind
      /\ x.line.plan = [pitch |-> Steady(pitch), time |-> Steady(time)]
  BY FreshIs
<1> HIDE DEF x
<1>2. Safe(x.line.plan)
  BY <1>1, SteadyIsSafe
<1>3. QED
  BY <1>1, <1>2 DEF Fit, x

LEMMA InitKeeping == Init => Keeping
<1> SUFFICES ASSUME Init PROVE Keeping
  OBVIOUS
<1>1. PICK kind \in Kinds : /\ e = Made(kind) /\ fault = FALSE
                            /\ wanted = kind.pitch /\ silence = Latency(kind)
  BY Zenon DEF Init
<1>2. /\ kind.time \in Ratios /\ kind.pitch \in Ratios
      /\ kind.pitch * kind.time <= 2 * Frame
  BY KindIs
<1>3. Fit(e) /\ e.ok /\ e.kind = kind
  <2>1. e = Fresh(kind, kind.time, kind.pitch)
    BY <1>1, Zenon DEF Made
  <2>2. QED
    BY <1>2, <2>1, StartsFit
<1>4. Settable(wanted, e.kind)
  BY <1>1, <1>2, <1>3 DEF Settable
<1>5. silence \in Int
  BY <1>1, LatencyIs
<1>6. QED
  BY <1>3, <1>4, <1>5, Zenon DEF Keeping

(* The engine after the mailbox was read. *)
LEMMA SyncedKeeps ==
  ASSUME Keeping
  PROVE  LET x == Synced(e) IN
         /\ Fit(x) /\ x.ok = e.ok /\ x.kind = e.kind /\ x.flushed = e.flushed
         /\ x.count = e.count /\ x.line.plan \in Plans
         /\ ~e.kind.variable => x.line.plan.time = Steady(e.kind.time)
<1> DEFINE x == Synced(e)
<1>1. Fit(e) /\ Wished(e)
  BY Zenon DEF Keeping, Wished
<1>2. /\ Fit(x) /\ x.ok = e.ok /\ x.kind = e.kind /\ x.flushed = e.flushed
      /\ x.count = e.count
  BY <1>1, SyncedIs
<1> HIDE DEF x
<1>3. Based(x) /\ Planned(x)
  BY <1>2, Zenon DEF Fit, Driven
<1>4. x.line.plan \in Plans
  BY <1>3 DEF Based, Chart
<1>5. ~e.kind.variable => x.line.plan.time = Steady(e.kind.time)
  BY <1>2, <1>3, Zenon DEF Planned
<1>6. QED
  BY <1>2, <1>4, <1>5 DEF x

(* A step that leaves an engine which is fit for the mailbox keeps it all. *)
LEMMA KeepingIf ==
  ASSUME Fit(e'), ~fault' => e'.ok,
         Timeline(e') /\ ~e'.kind.variable => Settable(wanted', e'.kind),
         silence' \in Int
  PROVE  Keeping'
BY Zenon DEF Keeping, Fit, Driven, Based, Typed, Begun, Planned, Running, InMap, Safe,
             Timeline, Settable

(* The mailbox after the ramps before frame k took effect. *)
LEMMA FollowedKeeps ==
  ASSUME NEW kind \in Kinds, ~kind.variable, Settable(wanted, kind),
         NEW plan \in Plans, plan.time = Steady(kind.time),
         NEW batch, Sorted(batch), DOMAIN batch = 1 .. Len(batch), Allowed(batch, kind),
         SafeThrough(plan, batch), NEW k \in Nat, NEW m, Cut(batch, m, k)
  PROVE  Settable(Followed(batch, k), kind)
<1>1. \A i \in 1 .. Len(batch) : batch[i].of = "pitch"
  BY DEF Allowed, Sorted, Orders
<1>2. Followed(batch, k) = IF m = 0 THEN wanted ELSE batch[m].to
  BY <1>1, FollowedIs
<1>3. CASE m = 0
  BY <1>2, <1>3
<1>4. CASE m # 0
  <2>1. Settable(batch[m].to, kind)
    BY <1>1, <1>4, LedIsSettable
  <2>2. QED
    BY <1>2, <1>4, <2>1
<1>5. QED
  BY <1>3, <1>4

LEMMA PushKeeps ==
  ASSUME Keeping, NEW n \in Blocks[e.kind], Push(n)
  PROVE  Keeping'
<1> DEFINE x == Synced(e)
           o == PushFrames(x, n, <<>>, 1)
<1>1. /\ Fit(x) /\ x.ok = e.ok /\ x.kind = e.kind /\ x.line.plan \in Plans
  BY SyncedKeeps
<1>2. /\ ~fault /\ e' = o.e /\ fault' = (o.result = "fault")
      /\ wanted' = wanted /\ silence' = silence
  BY Zenon DEF Push, Unchanged
<1>3. x.ok
  BY <1>1, <1>2, Zenon DEF Keeping
<1>4. n \in Nat
  <2>1. e.kind \in Kinds
    BY Zenon DEF Keeping, Fit, Driven
  <2>2. QED
    BY <2>1, SpectralSizes
<1> HIDE DEF x
<1>5. /\ Sorted(<<>>) /\ Len(<<>>) = 0 /\ Allowed(<<>>, x.kind)
      /\ SafeThrough(x.line.plan, <<>>)
  <2>1. Safe(x.line.plan)
    BY <1>1, Zenon DEF Fit
  <2>2. QED
    BY <1>1, <2>1, PlainIs
<1>6. Fit(o.e) /\ o.e.kind = x.kind /\ (o.result # "fault" <=> o.e.ok)
  BY <1>1, <1>3, <1>4, <1>5, PushFramesFit
<1> HIDE DEF o
<1>7. Fit(e') /\ e'.kind = e.kind /\ (~fault' => e'.ok)
  BY <1>1, <1>2, <1>6, Zenon
<1>8. Timeline(e') /\ ~e'.kind.variable => Settable(wanted', e'.kind)
  BY <1>2, <1>7, Zenon DEF Keeping, Timeline
<1>9. silence' \in Int
  BY <1>2 DEF Keeping
<1>10. QED
  BY <1>7, <1>8, <1>9, KeepingIf

(* Ramps without frames. *)
LEMMA RampedAlone ==
  ASSUME NEW x, Fit(x), NEW batch, Sorted(batch), Allowed(batch, x.kind), Timeline(x),
         SafeThrough(x.line.plan, batch)
  PROVE  LET y == Ramped(x, batch, 0) IN
         /\ Fit(y) /\ y.ok = x.ok /\ y.kind = x.kind
         /\ \E m : Cut(batch, m, 1)
<1> DEFINE plan == x.line.plan
           led == Leads(plan, batch)
           y == Ramped(x, batch, 0)
           To(m) == /\ Cut(batch, m, 0 + 1)
                    /\ y.line.plan = After(led[m], 0 - Cursor(batch, m))
<1>1. Driven(x)
  BY Zenon DEF Fit
<1>2. plan \in Plans
  BY <1>1 DEF Driven, Based, Chart
<1>3. PICK i : Cut(batch, i, 0) /\ x.line.plan = After(led[i], 0 - Cursor(batch, i))
  BY <1>1, FollowsNothing DEF Follows
<1>4. /\ Driven(y) /\ y.ok = x.ok /\ y.kind = x.kind /\ y.flushed = x.flushed
      /\ y.count = x.count
      /\ \E m : To(m)
  <2> DEFINE none == 0
             z == Ramped(x, batch, none)
  <2>1. none \in Nat /\ Cut(batch, i, none)
          /\ x.line.plan = After(Leads(plan, batch)[i], none - Cursor(batch, i))
    BY <1>3
  <2>2. y = z /\ none = 0
    OBVIOUS
  <2> HIDE DEF none
  <2>3. /\ Driven(z) /\ z.ok = x.ok /\ z.kind = x.kind /\ z.flushed = x.flushed
        /\ z.count = x.count
        /\ \E m : /\ Cut(batch, m, none + 1)
                  /\ z.line.plan = After(Leads(plan, batch)[m], none - Cursor(batch, m))
    <3> HIDE DEF plan, z
    <3>1. plan \in Plans /\ x.line.plan = After(Leads(plan, batch)[i], none - Cursor(batch, i))
      BY <1>2, <2>1 DEF plan
    <3>2. QED
      BY <1>1, <2>1, <3>1, RampedPlan DEF z
  <2> HIDE DEF z, y
  <2>4. QED
    BY <2>2, <2>3
<1> HIDE DEF y
<1>5. PICK m : To(m)
  BY <1>4
<1>6. 0 + 1 = 1 /\ 0 \in Nat /\ 1 \in Nat
  OBVIOUS
<1>7. Safe(led[m])
  BY <1>2, <1>5, <1>6, CutIsSafe
<1>8. led[m] \in Plans
  <2>1. m \in 0 .. Len(batch)
    BY <1>5 DEF Cut
  <2>2. QED
    BY <1>2, <2>1, LeadsNext
<1>9. 0 - Cursor(batch, m) \in Nat
  BY <1>5, <1>6, CursorIs
<1> HIDE DEF led
<1>10. Safe(y.line.plan)
  BY <1>5, <1>7, <1>8, <1>9, AfterIsSafe
<1>11. Fit(y)
  BY <1>4, <1>10, Zenon DEF Fit
<1>12. Cut(batch, m, 1)
  BY <1>5, <1>6
<1>13. QED
  BY <1>4, <1>11, <1>12 DEF y

LEMMA PushRampsKeeps ==
  ASSUME Keeping, NEW n \in Blocks[e.kind] \cup {0}, NEW batch \in Batches,
         PushRamps(n, batch)
  PROVE  Keeping'
<1> DEFINE x == Synced(e)
           plan == x.line.plan
           alone == Outcome(Ramped(x, batch, 0), "ok", 0)
           full == Outcome(e, "full", 0)
           some == PushFrames(x, n, batch, 1)
           kind == e.kind
           Settles(k) == ~kind.variable => Settable(Followed(batch, k), kind)
<1>1. /\ Fit(x) /\ x.ok = e.ok /\ x.kind = kind /\ plan \in Plans
      /\ ~kind.variable => plan.time = Steady(kind.time)
  BY SyncedKeeps
<1>2. /\ ~fault /\ ValidateRamps(e, batch, n) /\ RampsPushed(n, batch)
      /\ silence' = silence
  BY Zenon DEF PushRamps, Unchanged
<1>3. e.ok /\ kind \in Kinds
  BY <1>2, Zenon DEF Keeping, Fit, Driven
<1>4. n \in Nat
  BY <1>3, SpectralSizes
<1>5. /\ Timeline(e) /\ ~e.flushed /\ Sorted(batch) /\ Allowed(batch, kind)
      /\ DOMAIN batch = 1 .. Len(batch)
      /\ SafeThrough(plan, batch)
  BY <1>2, <1>4, ValidIs
<1>6. ~kind.variable => Settable(wanted, kind)
  BY <1>5, Zenon DEF Keeping
<1> HIDE DEF x, plan
<1>7. ASSUME NEW k \in Nat, NEW m, Cut(batch, m, k) PROVE Settles(k)
  <2> HIDE DEF kind
  <2>1. QED
    BY <1>1, <1>3, <1>5, <1>6, <1>7, FollowedKeeps
<1>8. Timeline(x)
  BY <1>1, <1>5, Zenon DEF Timeline
<1> DEFINE o == IF n = 0 THEN alone ELSE IF ~CanAccept(e) THEN full ELSE some
           k == IF n = 0 THEN 1 ELSE o.accepted
<1>9. e' = o.e /\ fault' = (o.result = "fault") /\ wanted' = Followed(batch, k)
  BY <1>2, Zenon DEF RampsPushed, x
<1>10. /\ Fit(o.e) /\ o.e.kind = kind /\ (o.result # "fault" => o.e.ok)
       /\ Settles(k)
  <2>1. CASE n = 0
    <3>1. o = alone /\ k = 1
      BY <2>1, Zenon
    <3> DEFINE y == Ramped(x, batch, 0)
    <3>2. Fit(y) /\ y.ok = x.ok /\ y.kind = x.kind /\ \E m : Cut(batch, m, 1)
      BY <1>1, <1>5, <1>8, RampedAlone DEF plan
    <3> HIDE DEF y
    <3>3. alone.e = y
      BY DEF Outcome, y
    <3>4. Settles(1)
      BY <1>7, <3>2
    <3> HIDE DEF Settles, alone, o, k
    <3>5. QED
      BY <1>1, <1>3, <3>1, <3>2, <3>3, <3>4
  <2>2. CASE n # 0 /\ ~CanAccept(e)
    <3>1. o = full /\ k = o.accepted
      BY <2>2, Zenon
    <3>2. full.e = e /\ full.result = "full" /\ full.accepted = 0
      BY DEF Outcome
    <3>3. Cut(batch, 0, 0)
      BY <1>5 DEF Cut, Sorted, Orders
    <3>4. Settles(0)
      BY <1>7, <3>3
    <3>5. Fit(e)
      BY Zenon DEF Keeping
    <3> HIDE DEF Settles, full, o, k
    <3>6. QED
      BY <1>3, <3>1, <3>2, <3>4, <3>5
  <2>3. CASE n # 0 /\ CanAccept(e)
    <3>1. o = some /\ k = o.accepted
      BY <2>3, Zenon
    <3>2. /\ Fit(some.e) /\ some.e.kind = x.kind /\ some.accepted \in Nat
          /\ some.result # "fault" <=> some.e.ok
          /\ Timeline(x) => \E m : Cut(batch, m, some.accepted)
      BY <1>1, <1>3, <1>4, <1>5, <1>8, PushFramesFit DEF plan
    <3> HIDE DEF some
    <3>3. Settles(some.accepted)
      BY <1>7, <1>8, <3>2
    <3> HIDE DEF Settles, o, k
    <3>4. QED
      BY <1>1, <3>1, <3>2, <3>3
  <2>4. QED
    BY <2>1, <2>2, <2>3
<1> HIDE DEF o, k
<1>11. Fit(e') /\ e'.kind = kind /\ (~fault' => e'.ok)
  BY <1>9, <1>10, Zenon
<1>12. Timeline(e') /\ ~e'.kind.variable => Settable(wanted', e'.kind)
  BY <1>9, <1>10, <1>11, Zenon
<1>13. silence' \in Int
  BY <1>2 DEF Keeping
<1>14. QED
  BY <1>11, <1>12, <1>13, KeepingIf

LEMMA PullKeeps ==
  ASSUME Keeping, NEW n \in Pulls, Pull(n)
  PROVE  Keeping'
<1> DEFINE x == Synced(e)
           y == PullSome(x, n)
<1>1. Fit(x) /\ x.ok = e.ok /\ x.kind = e.kind
  BY SyncedKeeps
<1>2. /\ ~fault /\ e' = y /\ fault' = fault /\ wanted' = wanted /\ silence' = silence
  BY Zenon DEF Pull, Unchanged
<1> HIDE DEF x
<1>3. n \in Int
  BY SpectralSizes
<1>4. Driven(x) /\ Based(x)
  BY <1>1, Zenon DEF Fit, Driven
<1>5. Delivers(x, y)
  BY <1>3, <1>4, PullSomeDelivers
<1> HIDE DEF y
<1>6. Fit(y) /\ y.kind = x.kind /\ y.ok = x.ok
  BY <1>1, <1>4, <1>5, DrivenDelivered, DeliversKeeps
<1>7. Fit(e') /\ e'.kind = e.kind /\ (~fault' => e'.ok)
  BY <1>1, <1>2, <1>6, Zenon DEF Keeping
<1>8. Timeline(e') /\ ~e'.kind.variable => Settable(wanted', e'.kind)
  BY <1>2, <1>7, Zenon DEF Keeping, Timeline
<1>9. silence' \in Int
  BY <1>2 DEF Keeping
<1>10. QED
  BY <1>7, <1>8, <1>9, KeepingIf

LEMMA FlushKeeps ==
  ASSUME Keeping, Flush
  PROVE  Keeping'
<1> DEFINE x == Synced(e)
           y == FlushAll(x)
<1>1. Fit(x) /\ x.ok = e.ok /\ x.kind = e.kind
  BY SyncedKeeps
<1>2. /\ ~fault /\ e' = y /\ fault' = ~y.ok /\ wanted' = wanted /\ silence' = silence
  BY Zenon DEF Flush, Unchanged
<1> HIDE DEF x
<1>3. x.ok
  BY <1>1, <1>2, Zenon DEF Keeping
<1>4. Fit(y) /\ y.kind = x.kind
  BY <1>1, <1>3, FlushAllIsFit
<1> HIDE DEF y
<1>5. Fit(e') /\ e'.kind = e.kind /\ (~fault' => e'.ok)
  BY <1>1, <1>2, <1>4, Zenon
<1>6. Timeline(e') /\ ~e'.kind.variable => Settable(wanted', e'.kind)
  BY <1>2, <1>5, Zenon DEF Keeping, Timeline
<1>7. silence' \in Int
  BY <1>2 DEF Keeping
<1>8. QED
  BY <1>5, <1>6, <1>7, KeepingIf

(* A realtime block, with events or with ramps. *)
Plays(n, batch, steps, explicit) ==
  \A r : /\ Sound(r, e.kind) /\ r.at = 0 /\ r.e = Synced(e)
         /\ n \in Nat /\ steps \in Nat /\ ~e.kind.variable
         => Sound(RealtimeBlock(r, n, batch, steps, explicit), e.kind)

LEMMA RealtimeKeeps ==
  ASSUME Keeping, NEW n \in Blocks[e.kind], NEW batch, NEW steps \in FrameSteps,
         NEW explicit, Realtime(n, batch, steps, explicit),
         ~e.kind.variable /\ Timeline(e) => Settable(Followed(batch, n), e.kind),
         Plays(n, batch, steps, explicit)
  PROVE  Keeping'
<1> DEFINE x == Synced(e)
           kind == e.kind
           no == FALSE
           yes == TRUE
           r == [e |-> x, silence |-> silence, under |-> no, ok |-> yes, at |-> 0]
           o == RealtimeBlock(r, n, batch, steps, explicit)
<1>1. Fit(x) /\ x.ok = e.ok /\ x.kind = kind
  BY SyncedKeeps
<1>2. /\ ~fault /\ Scheduled(e) /\ e' = o.e /\ fault' = ~o.ok
      /\ wanted' = Followed(batch, n) /\ silence' = o.silence
  BY Zenon DEF Realtime
<1>3. e.ok /\ kind \in Kinds
  BY <1>2, Zenon DEF Keeping, Fit, Driven
<1>4. n \in Nat /\ steps \in Nat /\ ~kind.variable
  BY <1>2, <1>3, SpectralSizes, KindIs DEF Scheduled
<1> HIDE DEF x, no, yes
<1>5. /\ DOMAIN r = {"e", "silence", "under", "ok", "at"} /\ r.silence = silence
      /\ r.at = 0 /\ r.e = x
  OBVIOUS
<1> HIDE DEF r
<1>6. Sound(r, kind)
  <2>1. Fit(r.e) /\ r.e.kind = kind /\ (r.ok => r.e.ok)
    BY <1>1, <1>3, <1>5, Zenon
  <2>2. Block(r)
    BY <1>5 DEF Block, Keeping
  <2>3. QED
    BY <2>1, <2>2 DEF Sound
<1>7. Sound(o, kind)
  <2>1. Plays(n, batch, steps, explicit)
    OBVIOUS
  <2>2. r.at = 0 /\ r.e = Synced(e)
    BY <1>5 DEF x
  <2>3. QED
    BY <1>4, <1>6, <2>1, <2>2, Zenon DEF Plays
<1> HIDE DEF o
<1>8. Fit(o.e) /\ o.e.kind = kind /\ (o.ok => o.e.ok) /\ o.silence \in Int
  BY <1>7 DEF Sound, Block
<1>9. Fit(e') /\ e'.kind = kind /\ (~fault' => e'.ok)
  BY <1>2, <1>8, Zenon
<1>10. Timeline(e') /\ ~e'.kind.variable => Settable(wanted', e'.kind)
  BY <1>2, <1>9, Zenon DEF Timeline
<1>11. silence' \in Int
  BY <1>2, <1>8
<1>12. QED
  BY <1>9, <1>10, <1>11, KeepingIf

LEMMA ProcessRealtimeKeeps ==
  ASSUME Keeping, NEW n \in Blocks[e.kind], NEW batch \in Batches \cup {<<>>},
         NEW steps \in FrameSteps, ProcessRealtime(n, batch, steps)
  PROVE  Keeping'
<1> DEFINE kind == e.kind
           no == FALSE
           Given == [at : Nat, of : {"pitch", "time"}, to : Nat, over : Nat]
<1>1. /\ Scheduled(e) /\ Realtime(n, batch, steps, FALSE)
      /\ \A i \in DOMAIN batch :
           /\ batch[i].of = "pitch" /\ PitchTaken(batch[i].to) /\ batch[i].at < n
           /\ i > 1 => batch[i].at >= batch[i - 1].at
  BY Zenon DEF ProcessRealtime, Realtime
<1>2. kind \in Kinds /\ n \in Nat
  <2>1. kind \in Kinds
    BY Zenon DEF Keeping, Fit, Driven
  <2>2. QED
    BY <2>1, SpectralSizes
<1>3. /\ DOMAIN batch = 1 .. Len(batch) /\ Len(batch) \in Nat
      /\ \A i \in 1 .. Len(batch) : batch[i] \in Given
  <2>1. Batches \subseteq Seq(Given)
    BY SpectralSizes
  <2> HIDE DEF Given
  <2>2. <<>> \in Seq(Given)
    OBVIOUS
  <2>3. batch \in Seq(Given)
    BY <2>1, <2>2
  <2>4. QED
    BY <2>3
<1>4. \A i \in 1 .. Len(batch) : Settable(batch[i].to, kind)
  <2>1. ASSUME NEW i \in 1 .. Len(batch) PROVE Settable(batch[i].to, kind)
    <3> DEFINE v == batch[i].to
    <3>1. v \in Nat /\ PitchTaken(v)
      BY <1>1, <1>3, <2>1
    <3> HIDE DEF v
    <3>2. v \in Ratios /\ kind.time * v <= 2 * Frame
      BY <3>1, SizesAre DEF PitchTaken, Ratios
    <3>3. kind.time \in Nat
      BY <1>2, KindIs DEF Ratios
    <3>4. v * kind.time = kind.time * v
      BY <3>1, <3>3, Commute
    <3>5. Settable(v, kind)
      BY <3>2, <3>4 DEF Settable
    <3>6. QED
      BY <3>5 DEF v
  <2>2. QED
    BY <2>1
<1>5. Sorted(batch)
  <2>1. \A i \in 1 .. Len(batch) : batch[i] \in Orders
    BY <1>3, <1>4 DEF Orders, Settable
  <2>2. QED
    BY <1>1, <1>3, <2>1 DEF Sorted
<1>6. ASSUME ~kind.variable, Timeline(e) PROVE Settable(Followed(batch, n), kind)
  <2>1. Cut(batch, Len(batch), n)
    BY <1>1, <1>3 DEF Cut
  <2>2. \A i \in 1 .. Len(batch) : batch[i].of = "pitch"
    BY <1>1, <1>3
  <2>3. Followed(batch, n) = IF Len(batch) = 0 THEN wanted ELSE batch[Len(batch)].to
    BY <1>3, <1>5, <2>1, <2>2, FollowedIs
  <2>4. CASE Len(batch) = 0
    <3>1. Settable(wanted, kind)
      BY <1>6, Zenon DEF Keeping
    <3>2. QED
      BY <2>3, <2>4, <3>1
  <2>5. CASE Len(batch) # 0
    <3>1. Len(batch) \in 1 .. Len(batch)
      BY <1>3, <2>5
    <3>2. QED
      BY <1>4, <2>3, <2>5, <3>1
  <2>6. QED
    BY <2>4, <2>5
<1>7. ~no /\ Realtime(n, batch, steps, no)
  BY <1>1
<1> HIDE DEF no, kind
<1>8. \A i \in 1 .. Len(batch) : batch[i].at \in Nat /\ Settable(batch[i].to, kind)
  BY <1>4, <1>5 DEF Sorted, Orders
<1>9. ASSUME NEW r, Sound(r, kind), n \in Nat, steps \in Nat, ~kind.variable
      PROVE  Sound(RealtimeBlock(r, n, batch, steps, no), kind)
  BY <1>3, <1>7, <1>8, <1>9, GlidingIsFit
<1>10. Plays(n, batch, steps, no)
  BY <1>9 DEF Plays, kind
<1>11. ~e.kind.variable /\ Timeline(e) => Settable(Followed(batch, n), e.kind)
  BY <1>6 DEF kind
<1>12. QED
  BY <1>7, <1>10, <1>11, RealtimeKeeps

LEMMA ProcessRealtimeRampsKeeps ==
  ASSUME Keeping, NEW n \in Blocks[e.kind], NEW batch \in Batches,
         NEW steps \in FrameSteps, ProcessRealtimeRamps(n, batch, steps)
  PROVE  Keeping'
<1> DEFINE kind == e.kind
           x == Synced(e)
           plan == x.line.plan
           yes == TRUE
<1>1. Realtime(n, batch, steps, TRUE) /\ ValidateRamps(e, batch, n)
  BY Zenon DEF ProcessRealtimeRamps
<1>2. kind \in Kinds
  BY Zenon DEF Keeping, Fit, Driven
<1>3. n \in Nat /\ n > 0
  BY <1>2, SpectralSizes
<1>4. /\ Timeline(e) /\ Sorted(batch) /\ Allowed(batch, kind)
      /\ DOMAIN batch = 1 .. Len(batch)
      /\ \A i \in 1 .. Len(batch) : batch[i].at < n
      /\ SafeThrough(plan, batch)
  <2>1. /\ Timeline(e) /\ Sorted(batch) /\ Allowed(batch, kind)
        /\ DOMAIN batch = 1 .. Len(batch)
        /\ \A i \in 1 .. Len(batch) : IF n > 0 THEN batch[i].at < n ELSE batch[i].at = 0
        /\ SafeThrough(plan, batch)
    BY <1>1, <1>3, ValidIs
  <2>2. QED
    BY <1>3, <2>1
<1>5. x.kind = kind /\ plan \in Plans /\ (~kind.variable => plan.time = Steady(kind.time))
  BY SyncedKeeps
<1> HIDE DEF plan, x
<1>6. ASSUME ~kind.variable PROVE Settable(Followed(batch, n), kind)
  <2>1. Cut(batch, Len(batch), n)
    BY <1>4 DEF Cut, Sorted
  <2>2. Settable(wanted, kind)
    BY <1>4, <1>6, Zenon DEF Keeping
  <2> HIDE DEF kind
  <2>3. QED
    BY <1>2, <1>3, <1>4, <1>5, <1>6, <2>1, <2>2, FollowedKeeps
<1>7. yes /\ Realtime(n, batch, steps, yes)
  BY <1>1
<1>8. Timeline(x)
  BY <1>4, <1>5, Zenon DEF Timeline
<1> HIDE DEF yes, kind
<1>9. ASSUME NEW r, Sound(r, kind), r.at = 0, r.e = x, n \in Nat, steps \in Nat
      PROVE  Sound(RealtimeBlock(r, n, batch, steps, yes), kind)
  <2>1. Timeline(r.e) /\ SafeThrough(r.e.line.plan, batch)
    BY <1>4, <1>8, <1>9 DEF plan
  <2>2. QED
    BY <1>4, <1>7, <1>9, <2>1, RampingIsFit
<1>10. Plays(n, batch, steps, yes)
  BY <1>9 DEF Plays, kind, x
<1>11. ~e.kind.variable /\ Timeline(e) => Settable(Followed(batch, n), e.kind)
  BY <1>6 DEF kind
<1>12. QED
  BY <1>7, <1>10, <1>11, RealtimeKeeps

LEMMA SetPitchKeeps ==
  ASSUME Keeping, NEW v \in Pitches, SetPitch(v)
  PROVE  Keeping'
<1>1. /\ PitchTaken(v) /\ wanted' = v /\ e' = e /\ fault' = fault
      /\ silence' = silence
  BY Zenon DEF SetPitch, Unchanged
<1>2. v \in Nat
  BY SpectralSizes
<1>3. e.kind \in Kinds
  BY Zenon DEF Keeping, Fit, Driven
<1>4. v \in Ratios /\ e.kind.time * v <= 2 * Frame
  BY <1>1, <1>2, SizesAre DEF PitchTaken, Ratios
<1>5. e.kind.time \in Nat
  BY <1>3, KindIs DEF Ratios
<1>6. v * e.kind.time = e.kind.time * v
  BY <1>2, <1>5, Commute
<1>7. Settable(v, e.kind)
  BY <1>4, <1>6 DEF Settable
<1>8. Fit(e') /\ e'.kind = e.kind /\ (~fault' => e'.ok)
  BY <1>1, Zenon DEF Keeping
<1>9. silence' \in Int
  BY <1>1 DEF Keeping
<1>10. Settable(wanted', e'.kind)
  BY <1>1, <1>7, Zenon
<1>11. QED
  BY <1>8, <1>9, <1>10, KeepingIf

LEMMA ResetKeeps ==
  ASSUME Keeping, Reset
  PROVE  Keeping'
<1> DEFINE kind == e.kind
           x == Fresh(kind, e.time, e.pitch)
           y == Synced(x)
<1>1. /\ e' = y /\ fault' = FALSE /\ silence' = Latency(kind) /\ wanted' = wanted
  BY Zenon DEF Reset
<1>2. Fit(e) /\ Based(e) /\ kind \in Kinds /\ Planned(e) /\ Safe(e.line.plan)
  BY Zenon DEF Keeping, Fit, Driven
<1>3. e.time \in Ratios /\ e.pitch \in Ratios /\ e.line.plan \in Plans
  BY <1>2 DEF Based, Chart
<1>4. e.pitch * e.time <= 2 * Frame
  <2> DEFINE p == e.line.plan
  <2>1. p.pitch.target = e.pitch /\ p.time.target = e.time
    BY <1>2, Zenon DEF Planned
  <2>2. p \in Plans /\ Safe(p)
    BY <1>2, <1>3
  <2> HIDE DEF p
  <2>3. p.pitch.target * p.time.target <= 2 * Frame
    BY <2>2, SafePlan
  <2>4. QED
    BY <2>1, <2>3
<1>5. ASSUME ~kind.variable PROVE e.time = kind.time
  <2>1. e.line.plan.time = Steady(kind.time) /\ e.line.plan.time.target = e.time
    BY <1>2, <1>5, Zenon DEF Planned
  <2>2. Steady(kind.time).target = kind.time
    BY DEF Steady
  <2>3. QED
    BY <2>1, <2>2
<1>6. Fit(x) /\ x.ok /\ x.kind = kind
  BY <1>2, <1>3, <1>4, <1>5, StartsFit
<1> HIDE DEF x
<1>7. Wished(x)
  BY <1>6, Zenon DEF Wished, Keeping, Timeline
<1>8. Fit(y) /\ y.ok = x.ok /\ y.kind = x.kind
  BY <1>6, <1>7, SyncedIs
<1> HIDE DEF y
<1>9. Fit(e') /\ e'.kind = kind /\ (~fault' => e'.ok)
  BY <1>1, <1>6, <1>8, Zenon
<1>10. Timeline(e') /\ ~e'.kind.variable => Settable(wanted', e'.kind)
  BY <1>1, <1>9, Zenon DEF Keeping, Timeline
<1>11. silence' \in Int
  BY <1>1, <1>2, LatencyIs
<1>12. QED
  BY <1>9, <1>10, <1>11, KeepingIf

LEMMA NextKeeps == Keeping /\ [Next]_vars => Keeping'
<1> SUFFICES ASSUME Keeping, [Next]_vars PROVE Keeping'
  OBVIOUS
<1>1. ASSUME NEW n \in Blocks[e.kind], Push(n) PROVE Keeping'
  BY <1>1, PushKeeps
<1>2. ASSUME NEW n \in Blocks[e.kind] \cup {0}, NEW batch \in Batches,
             PushRamps(n, batch)
      PROVE  Keeping'
  BY <1>2, PushRampsKeeps
<1>3. ASSUME NEW n \in Pulls, Pull(n) PROVE Keeping'
  BY <1>3, PullKeeps
<1>4. CASE Flush
  BY <1>4, FlushKeeps
<1>5. ASSUME NEW n \in Blocks[e.kind], NEW batch \in Batches \cup {<<>>},
             NEW steps \in FrameSteps, ProcessRealtime(n, batch, steps)
      PROVE  Keeping'
  BY <1>5, ProcessRealtimeKeeps
<1>6. ASSUME NEW n \in Blocks[e.kind], NEW batch \in Batches,
             NEW steps \in FrameSteps, ProcessRealtimeRamps(n, batch, steps)
      PROVE  Keeping'
  BY <1>6, ProcessRealtimeRampsKeeps
<1>7. ASSUME NEW v \in Pitches, SetPitch(v) PROVE Keeping'
  BY <1>7, SetPitchKeeps
<1>8. CASE Reset
  BY <1>8, ResetKeeps
<1>9. CASE UNCHANGED vars
  <2>1. e' = e /\ fault' = fault /\ wanted' = wanted /\ silence' = silence
    BY <1>9 DEF vars
  <2>2. Fit(e') /\ (~fault' => e'.ok)
        /\ (Timeline(e') /\ ~e'.kind.variable => Settable(wanted', e'.kind))
        /\ silence' \in Int
    BY <2>1, Zenon DEF Keeping
  <2>3. QED
    BY <2>2, KeepingIf
<1>10. QED
  BY <1>1, <1>2, <1>3, <1>4, <1>5, <1>6, <1>7, <1>8, <1>9, Zenon DEF Next

(* Always: the engine keeps to its stretch, the map holds what its frames  *)
(* ask for while it has not failed, and the mailbox holds a pitch that the  *)
(* engine may be set to.                                                    *)
THEOREM StretchKept == Spec => []Keeping
<1>1. Init => Keeping
  BY InitKeeping
<1>2. Keeping /\ [Next]_vars => Keeping'
  BY NextKeeps
<1>3. QED
  BY <1>1, <1>2, PTL DEF Spec

(* StretchBounded (Spectral.tla): the stretch that frames are laid out with *)
(* is never above two (pv_automation.inc:20), for every batch of ramps,     *)
(* every size of the rings and every number of frames of a call.            *)
THEOREM StretchIsBounded == Spec => []StretchBounded
<1>1. Keeping => StretchBounded
  <2> SUFFICES ASSUME Keeping PROVE StretchBounded
    OBVIOUS
  <2> DEFINE p == e.line.plan
  <2>1. Based(e) /\ Safe(p)
    BY Zenon DEF Keeping, Fit, Driven
  <2>2. p \in Plans
    BY <2>1 DEF Based, Chart
  <2>3. p.pitch.value * p.time.value <= 2 * Frame
    BY <2>1, <2>2, SafePlan
  <2>4. QED
    BY <2>3 DEF StretchBounded
<1>2. QED
  BY <1>1, StretchKept, PTL

-----------------------------------------------------------------------------
(* Refusals. *)

(* No ramp is before the first frame. *)
LEMMA FollowedNothing ==
  ASSUME NEW batch \in Batches
  PROVE  Followed(batch, 0) = wanted
<1> DEFINE Given == [at : Nat, of : {"pitch", "time"}, to : Nat, over : Nat]
           done == {i \in DOMAIN batch : batch[i].at < 0 /\ batch[i].of = "pitch"}
<1>1. batch \in Seq(Given)
  BY SpectralSizes
<1>2. \A i \in DOMAIN batch : batch[i] \in Given
  <2> HIDE DEF Given
  <2>1. QED
    BY <1>1
<1>3. done = {}
  BY <1>2
<1> HIDE DEF done
<1>4. Followed(batch, 0) = IF done = {} THEN wanted
                           ELSE batch[CHOOSE i \in done : \A j \in done : j <= i].to
  BY Zenon DEF Followed, done
<1>5. QED
  BY <1>3, <1>4

(* Room for a frame is there or not whatever the mailbox holds. *)
LEMMA SyncedAccepts ==
  ASSUME Keeping
  PROVE  CanAccept(Synced(e)) <=> CanAccept(e)
<1>1. Synced(e).flushed = e.flushed /\ Synced(e).count = e.count
  BY SyncedKeeps
<1>2. QED
  BY <1>1, Zenon DEF CanAccept

LEMMA RefusalStep ==
  ASSUME Keeping, NEW n \in Nat, NEW batch \in Batches, RampsPushed(n, batch),
         last' = <<"full", 0>>
  PROVE  e' = e /\ wanted' = wanted
<1> DEFINE x == Synced(e)
           alone == Outcome(Ramped(x, batch, 0), "ok", 0)
           full == Outcome(e, "full", 0)
           some == PushFrames(x, n, batch, 1)
           o == IF n = 0 THEN alone ELSE IF ~CanAccept(e) THEN full ELSE some
           k == IF n = 0 THEN 1 ELSE o.accepted
<1>1. /\ e' = o.e /\ last' = <<o.result, o.accepted>> /\ wanted' = Followed(batch, k)
  BY Zenon DEF RampsPushed
<1>2. o.result = "full" /\ o.accepted = 0
  <2> HIDE DEF o
  <2>1. <<o.result, o.accepted>> = <<"full", 0>>
    BY <1>1
  <2>2. QED
    BY <2>1
<1>3. n # 0
  <2>1. SUFFICES ASSUME n = 0 PROVE FALSE
    OBVIOUS
  <2>2. o = alone
    BY <2>1, Zenon
  <2>3. alone.result = "ok"
    BY DEF Outcome
  <2> HIDE DEF o, alone
  <2>4. QED
    BY <1>2, <2>2, <2>3
<1>4. ~CanAccept(e)
  <2>1. SUFFICES ASSUME CanAccept(e) PROVE FALSE
    OBVIOUS
  <2>2. o = some
    BY <1>3, <2>1, Zenon
  <2>3. CanAccept(x) /\ n > 0
    BY <1>3, <2>1, SyncedAccepts
  <2> HIDE DEF x
  <2>4. ~(some.result = "full" /\ some.accepted = 0)
    BY <2>3, FullAccepts
  <2> HIDE DEF o, some
  <2>5. QED
    BY <1>2, <2>2, <2>4
<1>5. o = full /\ k = o.accepted
  BY <1>3, <1>4, Zenon
<1>6. full.e = e
  BY DEF Outcome
<1> HIDE DEF o, k, full
<1>7. e' = e /\ wanted' = Followed(batch, 0)
  BY <1>1, <1>2, <1>5, <1>6
<1>8. QED
  BY <1>7, FollowedNothing

(* RefusalKeeps (Spectral.tla): a push with ramps that was refused for want *)
(* of room left the engine and the mailbox as they were, even the ramps at  *)
(* offset zero (automation_api.inc:64).                                     *)
THEOREM RefusalIsClean == Spec => RefusalKeeps
<1> DEFINE Clean == last' = <<"full", 0>> => e' = e /\ wanted' = wanted
<1>1. Keeping /\ [Next]_vars => [Clean]_vars
  <2> SUFFICES ASSUME Keeping, [Next]_vars PROVE Clean
    OBVIOUS
  <2> SUFFICES ASSUME last' = <<"full", 0>>, ~(UNCHANGED vars)
      PROVE  e' = e /\ wanted' = wanted
    BY DEF vars
  <2>1. ASSUME last' = <<"none", 0>> PROVE FALSE
    <3>1. <<"full", 0>> = <<"none", 0>>
      BY <2>1
    <3>2. QED
      BY <3>1
  <2>2. ASSUME NEW n \in Blocks[e.kind] \cup {0}, NEW batch \in Batches,
               PushRamps(n, batch)
        PROVE  e' = e /\ wanted' = wanted
    <3>1. RampsPushed(n, batch)
      BY <2>2, Zenon DEF PushRamps
    <3>2. n \in Nat
      <4>1. e.kind \in Kinds
        BY Zenon DEF Keeping, Fit, Driven
      <4>2. QED
        BY <4>1, SpectralSizes
    <3>3. QED
      BY <3>1, <3>2, RefusalStep
  <2>3. ASSUME NEW n, Push(n) PROVE FALSE
    BY <2>1, <2>3, Zenon DEF Push, Quiet
  <2>4. ASSUME NEW n, Pull(n) PROVE FALSE
    BY <2>1, <2>4, Zenon DEF Pull, Quiet
  <2>5. ASSUME Flush PROVE FALSE
    BY <2>1, <2>5, Zenon DEF Flush, Quiet
  <2>6. ASSUME NEW n, NEW batch, NEW steps, NEW explicit,
               Realtime(n, batch, steps, explicit)
        PROVE  FALSE
    BY <2>1, <2>6, Zenon DEF Realtime, Quiet
  <2>7. ASSUME NEW n, NEW batch, NEW steps, ProcessRealtime(n, batch, steps)
        PROVE  FALSE
    <3>1. Realtime(n, batch, steps, FALSE)
      BY <2>7, Zenon DEF ProcessRealtime
    <3>2. QED
      BY <2>6, <3>1, Zenon
  <2>8. ASSUME NEW n, NEW batch, NEW steps, ProcessRealtimeRamps(n, batch, steps)
        PROVE  FALSE
    <3>1. Realtime(n, batch, steps, TRUE)
      BY <2>8, Zenon DEF ProcessRealtimeRamps
    <3>2. QED
      BY <2>6, <3>1, Zenon
  <2>9. ASSUME NEW v, SetPitch(v) PROVE FALSE
    BY <2>1, <2>9, Zenon DEF SetPitch, Quiet
  <2>10. ASSUME Reset PROVE FALSE
    BY <2>1, <2>10, Zenon DEF Reset, Quiet
  <2>11. QED
    BY <2>2, <2>3, <2>4, <2>5, <2>7, <2>8, <2>9, <2>10, Zenon DEF Next
<1>2. QED
  BY <1>1, StretchKept, PTL DEF Spec, RefusalKeeps
=============================================================================
