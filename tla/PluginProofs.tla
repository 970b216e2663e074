---------------------------- MODULE PluginProofs ----------------------------
(***************************************************************************)
(* Theorems about the plugin around the library, for every list of events  *)
(* a block may bring and every number of calls of the host and the user.   *)
(***************************************************************************)
EXTENDS Plugin, SequenceTheorems, NaturalsInduction, WellFoundedInduction, TLAPS

-----------------------------------------------------------------------------
(* Natural numbers. *)

(* A set of natural numbers has a least one. *)
LEMMA LeastOf ==
  ASSUME NEW S, S \subseteq Nat, S # {}
  PROVE  \E x \in S : \A y \in S : x <= y
<1>1. IsWellFoundedOn(OpToRel(<, Nat), Nat)
  BY NatLessThanWellFounded, Zenon
<1>2. PICK x \in S : \A y \in S : ~(<<y, x>> \in OpToRel(<, Nat))
  BY <1>1, WFMin, Zenon
<1>3. \A y \in S : ~(y < x)
  BY <1>2, Zenon DEF OpToRel
<1>4. QED
  BY <1>3

(* A set with zero and every successor holds all of them. *)
LEMMA SetInduction ==
  ASSUME NEW S, 0 \in S, \A n \in Nat : n \in S => n + 1 \in S
  PROVE  \A n \in Nat : n \in S
<1> SUFFICES ASSUME Nat \ S # {} PROVE FALSE
  OBVIOUS
<1>1. PICK x \in Nat \ S : \A y \in Nat \ S : x <= y
  BY LeastOf
<1>2. x # 0 /\ x - 1 \in Nat /\ (x - 1) + 1 = x /\ ~(x <= x - 1)
  BY <1>1
<1>3. x - 1 \in S
  BY <1>1, <1>2
<1>4. QED
  BY <1>1, <1>2, <1>3

(* The last of some positions. *)
LEMMA LastOf ==
  ASSUME NEW n \in Nat, NEW S, S \subseteq 1 .. n, S # {}
  PROVE  \E k \in S : \A j \in S : j <= k
<1> DEFINE T == {m \in Nat : n - m \in S}
<1>1. T # {} /\ T \subseteq Nat
  <2>1. PICK k \in S : k \in 1 .. n
    OBVIOUS
  <2>2. n - k \in Nat /\ n - (n - k) = k
    BY <2>1
  <2>3. QED
    BY <2>1, <2>2
<1>2. PICK m \in T : \A y \in T : m <= y
  BY <1>1, LeastOf
<1>3. n - m \in S
  BY <1>2
<1>4. \A j \in S : j <= n - m
  <2> SUFFICES ASSUME NEW j \in S PROVE j <= n - m
    OBVIOUS
  <2>1. j \in 1 .. n /\ n - j \in Nat /\ n - (n - j) = j
    OBVIOUS
  <2>2. n - j \in T
    BY <2>1
  <2>3. m <= n - j /\ m \in Nat
    BY <1>2, <2>2
  <2>4. QED
    BY <2>1, <2>3
<1>5. QED
  BY <1>3, <1>4

-----------------------------------------------------------------------------
(* Values and groups of changes. *)

ParamNames == {"Formant", "Backend", "Policy"}

ConfigNames == {"Backend", "Policy"}

Change == [index : ParamNames, value : {0, 1}]

GroupLists == Seq([at : Nat, changes : Seq(Change)])

(* Values are what each parameter has. *)
LEMMA ValuesAre ==
  /\ Values = [ParamNames -> {0, 1}]
  /\ Defaults \in Values /\ Valid(Defaults)
  /\ \A v \in Values : DOMAIN v = ParamNames
  /\ ConfigNames \subseteq ParamNames
  /\ DOMAIN Defaults = ParamNames
<1>1. ASSUME NEW v \in Values PROVE v \in [ParamNames -> {0, 1}]
  BY DEF Values, ParamNames
<1>2. ASSUME NEW v \in [ParamNames -> {0, 1}] PROVE v \in Values
  BY DEF Values, ParamNames
<1>3. Defaults \in Values /\ Valid(Defaults) /\ ConfigNames \subseteq ParamNames
  BY DEF Values, Defaults, Valid, ParamNames, ConfigNames
<1>4. QED
  BY <1>1, <1>2, <1>3

(* What no change names stays as it is. *)
LEMMA WithElsewhere ==
  ASSUME NEW v \in Values, NEW changes, NEW p \in ParamNames,
         \A k \in DOMAIN changes : changes[k].index # p
  PROVE  With(v, changes)[p] = v[p]
<1>1. {k \in DOMAIN changes : changes[k].index = p} = {}
  OBVIOUS
<1>2. DOMAIN v = ParamNames
  BY ValuesAre
<1>3. QED
  BY <1>1, <1>2 DEF With

(* Changed values are values. *)
LEMMA WithType ==
  ASSUME NEW v \in Values, NEW changes \in Seq(Change)
  PROVE  With(v, changes) \in Values
<1> SUFFICES ASSUME NEW p \in ParamNames PROVE With(v, changes)[p] \in {0, 1}
  BY ValuesAre DEF With
<1> DEFINE of == {k \in DOMAIN changes : changes[k].index = p}
<1>1. DOMAIN v = ParamNames /\ v[p] \in {0, 1}
  BY ValuesAre
<1>2. With(v, changes)[p]
        = IF of = {} THEN v[p]
          ELSE changes[CHOOSE k \in of : \A j \in of : j <= k].value
  BY <1>1 DEF With
<1>3. Len(changes) \in Nat /\ of \subseteq 1 .. Len(changes)
  BY LenProperties
<1>4. CASE of = {}
  BY <1>1, <1>2, <1>4
<1>5. CASE of # {}
  <2>1. \E k \in of : \A j \in of : j <= k
    BY <1>3, <1>5, LastOf
  <2> DEFINE m == CHOOSE k \in of : \A j \in of : j <= k
  <2>2. m \in of
    BY <2>1
  <2> HIDE DEF m
  <2>3. changes[m] \in Change
    BY <1>3, <2>2
  <2>4. changes[m].value \in {0, 1}
    BY <2>3 DEF Change
  <2>5. With(v, changes)[p] = changes[m].value
    BY <1>2, <1>5 DEF m
  <2>6. QED
    BY <2>4, <2>5
<1>6. QED
  BY <1>4, <1>5

(* The function that After() takes its result from: v and the first n      *)
(* groups, one after the other.                                            *)
Trail(f, v, groups, n) ==
  f = [k \in 0 .. n |-> IF k = 0 THEN v ELSE With(f[k - 1], groups[k].changes)]

(* There is one of every length. *)
LEMMA TrailExists ==
  ASSUME NEW v, NEW groups, NEW n \in Nat
  PROVE  \E f : Trail(f, v, groups, n)
<1> DEFINE S == {m \in Nat : \E f : Trail(f, v, groups, m)}
<1>1. 0 \in S
  <2>1. Trail([k \in 0 .. 0 |-> v], v, groups, 0)
    BY DEF Trail
  <2>2. QED
    BY <2>1
<1>2. ASSUME NEW m \in Nat, m \in S PROVE m + 1 \in S
  <2>1. PICK f : Trail(f, v, groups, m)
    BY <1>2
  <2> DEFINE h == [k \in 0 .. m + 1 |->
                     IF k = m + 1 THEN With(f[m], groups[m + 1].changes) ELSE f[k]]
             g == [k \in 0 .. m + 1 |->
                     IF k = 0 THEN v ELSE With(h[k - 1], groups[k].changes)]
  <2>2. ASSUME NEW k \in 0 .. m + 1 PROVE h[k] = g[k]
    <3>1. CASE k = 0
      BY <2>1, <3>1 DEF Trail
    <3>2. CASE k = m + 1
      <4>1. k - 1 = m /\ m \in 0 .. m + 1 /\ m # m + 1 /\ k # 0
        BY <3>2
      <4>2. h[k - 1] = f[m]
        BY <4>1
      <4>3. QED
        BY <3>2, <4>1, <4>2
    <3>3. CASE k # 0 /\ k # m + 1
      <4>1. k - 1 \in 0 .. m /\ k \in 0 .. m
        BY <3>3
      <4>2. h[k - 1] = f[k - 1] /\ h[k] = f[k]
        BY <3>3, <4>1
      <4>3. f[k] = With(f[k - 1], groups[k].changes)
        BY <2>1, <3>3, <4>1 DEF Trail
      <4>4. QED
        BY <3>3, <4>2, <4>3
    <3>4. QED
      BY <3>1, <3>2, <3>3
  <2>3. h = g
    BY <2>2
  <2>4. Trail(h, v, groups, m + 1)
    BY <2>3, Zenon DEF Trail
  <2> HIDE DEF h
  <2>5. QED
    BY <2>4
<1> HIDE DEF S
<1>3. n \in S
  BY <1>1, <1>2, SetInduction
<1>4. QED
  BY <1>3 DEF S

(* Two of them agree where both are. *)
LEMMA TrailUnique ==
  ASSUME NEW v, NEW groups, NEW n \in Nat, NEW m \in Nat, NEW f, NEW g,
         Trail(f, v, groups, n), Trail(g, v, groups, m), NEW j \in Nat,
         j <= n, j <= m
  PROVE  f[j] = g[j]
<1> DEFINE S == {i \in Nat : i <= n /\ i <= m => f[i] = g[i]}
<1>1. 0 \in S
  BY DEF Trail
<1>2. ASSUME NEW i \in Nat, i \in S PROVE i + 1 \in S
  <2> SUFFICES ASSUME i + 1 <= n, i + 1 <= m PROVE f[i + 1] = g[i + 1]
    OBVIOUS
  <2>1. f[i] = g[i] /\ (i + 1) - 1 = i /\ i + 1 # 0
        /\ i + 1 \in 0 .. n /\ i + 1 \in 0 .. m
    BY <1>2
  <2>2. f[i + 1] = With(f[i], groups[i + 1].changes)
    BY <2>1 DEF Trail
  <2>3. g[i + 1] = With(g[i], groups[i + 1].changes)
    BY <2>1 DEF Trail
  <2>4. QED
    BY <2>1, <2>2, <2>3
<1> HIDE DEF S
<1>3. j \in S
  BY <1>1, <1>2, SetInduction
<1>4. QED
  BY <1>3 DEF S

(* So the values after some groups are what the recursion says. *)
LEMMA AfterIs ==
  ASSUME NEW v, NEW groups, NEW n \in Nat
  PROVE  /\ After(v, groups, 0) = v
         /\ After(v, groups, n + 1) = With(After(v, groups, n), groups[n + 1].changes)
<1>1. \A m \in Nat : \E f : Trail(f, v, groups, m) /\ After(v, groups, m) = f[m]
  <2> SUFFICES ASSUME NEW m \in Nat
               PROVE  \E f : Trail(f, v, groups, m) /\ After(v, groups, m) = f[m]
    OBVIOUS
  <2> DEFINE f == CHOOSE f : Trail(f, v, groups, m)
  <2>1. Trail(f, v, groups, m)
    BY TrailExists
  <2>2. After(v, groups, m) = f[m]
    BY DEF After, Trail
  <2>3. QED
    BY <2>1, <2>2
<1>2. After(v, groups, 0) = v
  <2>1. PICK f : Trail(f, v, groups, 0) /\ After(v, groups, 0) = f[0]
    BY <1>1
  <2>2. QED
    BY <2>1 DEF Trail
<1>3. PICK f : Trail(f, v, groups, n) /\ After(v, groups, n) = f[n]
  BY <1>1
<1>4. PICK g : Trail(g, v, groups, n + 1) /\ After(v, groups, n + 1) = g[n + 1]
  BY <1>1
<1>5. f[n] = g[n]
  BY <1>3, <1>4, TrailUnique
<1>6. g[n + 1] = With(g[n], groups[n + 1].changes)
  <2>1. n + 1 \in 0 .. n + 1 /\ n + 1 # 0 /\ (n + 1) - 1 = n
    OBVIOUS
  <2>2. QED
    BY <1>4, <2>1 DEF Trail
<1>7. QED
  BY <1>2, <1>3, <1>4, <1>5, <1>6

(* Applying the first group leaves the rest to apply. *)
LEMMA AfterTail ==
  ASSUME NEW v, NEW groups \in GroupLists, groups # <<>>, NEW n \in Nat,
         n <= Len(Tail(groups))
  PROVE  After(With(v, Head(groups).changes), Tail(groups), n)
           = After(v, groups, n + 1)
<1> DEFINE w == With(v, Head(groups).changes)
           t == Tail(groups)
           S == {m \in Nat : m <= Len(t) => After(w, t, m) = After(v, groups, m + 1)}
<1>1. /\ Len(t) \in Nat /\ groups[1] = Head(groups)
      /\ \A i \in 1 .. Len(t) : t[i] = groups[i + 1]
  <2>1. /\ t \in GroupLists /\ \A i \in 1 .. Len(t) : t[i] = groups[i + 1]
    BY HeadTailProperties DEF GroupLists
  <2>2. groups[1] = Head(groups) /\ Len(t) \in Nat
    BY <2>1, LenProperties DEF GroupLists
  <2>3. QED
    BY <2>1, <2>2
<1>2. 0 \in S
  <2>1. After(w, t, 0) = w
    BY AfterIs
  <2>2. After(v, groups, 0 + 1) = With(After(v, groups, 0), groups[0 + 1].changes)
    BY AfterIs
  <2>3. After(v, groups, 0) = v
    BY AfterIs
  <2>4. QED
    BY <1>1, <2>1, <2>2, <2>3
<1>3. ASSUME NEW m \in Nat, m \in S PROVE m + 1 \in S
  <2> SUFFICES ASSUME m + 1 <= Len(t)
               PROVE  After(w, t, m + 1) = After(v, groups, (m + 1) + 1)
    OBVIOUS
  <2>1. After(w, t, m) = After(v, groups, m + 1)
    BY <1>1, <1>3
  <2>2. After(w, t, m + 1) = With(After(w, t, m), t[m + 1].changes)
    BY AfterIs
  <2>3. After(v, groups, (m + 1) + 1)
          = With(After(v, groups, m + 1), groups[(m + 1) + 1].changes)
    BY AfterIs
  <2>4. t[m + 1] = groups[(m + 1) + 1]
    BY <1>1
  <2>5. QED
    BY <2>1, <2>2, <2>3, <2>4
<1> HIDE DEF S
<1>4. n \in S
  BY <1>2, <1>3, SetInduction
<1>5. QED
  BY <1>4 DEF S

(* What is left of valid groups is valid on what the first has made. *)
LEMMA RestValid ==
  ASSUME NEW v \in Values, NEW groups \in GroupLists, groups # <<>>,
         GroupsValid(v, groups)
  PROVE  LET w == With(v, Head(groups).changes) IN
           /\ w \in Values /\ Valid(w) /\ GroupsValid(w, Tail(groups))
           /\ Head(groups).changes \in Seq(Change)
           /\ Tail(groups) \in GroupLists
<1> DEFINE w == With(v, Head(groups).changes)
           t == Tail(groups)
<1>1. /\ Len(groups) \in Nat \ {0} /\ t \in GroupLists
      /\ Len(t) = Len(groups) - 1 /\ Len(t) \in Nat
      /\ Head(groups) \in [at : Nat, changes : Seq(Change)]
  BY EmptySeq, HeadTailProperties, LenProperties DEF GroupLists
<1>2. Head(groups).changes \in Seq(Change)
  BY <1>1
<1>3. w \in Values
  BY <1>2, WithType
<1>4. ASSUME NEW n \in Nat, n <= Len(t) PROVE Valid(After(w, t, n))
  <2>1. n + 1 \in 1 .. Len(groups)
    BY <1>1, <1>4
  <2>2. Valid(After(v, groups, n + 1))
    BY <2>1 DEF GroupsValid
  <2>3. QED
    BY <1>4, <2>2, AfterTail
<1>5. Valid(w)
  <2>1. After(w, t, 0) = w
    BY AfterIs
  <2>2. QED
    BY <1>1, <1>4, <2>1
<1>6. GroupsValid(w, t)
  BY <1>1, <1>4 DEF GroupsValid
<1>7. QED
  BY <1>1, <1>2, <1>3, <1>5, <1>6

(* The same of some valid values, and of any. *)
LEMMA AfterType ==
  ASSUME NEW v \in Values, NEW groups \in GroupLists, NEW n \in Nat,
         n <= Len(groups)
  PROVE  After(v, groups, n) \in Values
<1> DEFINE S == {m \in Nat : m <= Len(groups) => After(v, groups, m) \in Values}
<1>1. Len(groups) \in Nat
  BY LenProperties DEF GroupLists
<1>2. 0 \in S
  BY AfterIs
<1>3. ASSUME NEW m \in Nat, m \in S PROVE m + 1 \in S
  <2> SUFFICES ASSUME m + 1 <= Len(groups)
               PROVE  After(v, groups, m + 1) \in Values
    OBVIOUS
  <2>1. After(v, groups, m) \in Values
    BY <1>1, <1>3
  <2>2. m + 1 \in 1 .. Len(groups)
    BY <1>1
  <2>3. groups[m + 1] \in [at : Nat, changes : Seq(Change)]
    BY <2>2, ElementOfSeq DEF GroupLists
  <2>4. groups[m + 1].changes \in Seq(Change)
    BY <2>3
  <2>5. With(After(v, groups, m), groups[m + 1].changes) \in Values
    BY <2>1, <2>4, WithType
  <2>6. QED
    BY <2>5, AfterIs
<1> HIDE DEF S
<1>4. n \in S
  BY <1>2, <1>3, SetInduction
<1>5. QED
  BY <1>4 DEF S

-----------------------------------------------------------------------------
(* Types and control. *)

Calls ==
  [op : {"none", "edit", "restore", "flush", "check", "callback", "process",
         "reset"},
   pc : {"idle", "load", "store", "run"},
   left : Seq(ParamNames), values : Values, todo : GroupLists]

(* What a call of a thread may be at each of its steps. *)
CallFits(t, c) ==
  /\ c.pc = "idle" => c.op = "none"
  /\ c.pc = "load" =>
       c.op \in {"edit", "flush", "check", "callback", "process", "reset"}
  /\ c.pc = "store" => c.op \in {"edit", "restore", "flush", "process"}
  /\ c.pc = "run" => c.op = "process" /\ c.left = <<>>
  /\ c.op \in {"process", "reset"} => t = "audio"
  /\ c.op = "reset" => live
  /\ c.op = "edit" /\ c.pc = "load" =>
       Len(c.todo) = 1 /\ Len(c.todo[1].changes) = 1

(* Type correctness, and the control of the calls. *)
PluginTypes ==
  /\ live \in BOOLEAN /\ overlap \in BOOLEAN
  /\ targets \in Values /\ audio \in Values /\ configuration \in Values
  /\ active \in BOOLEAN /\ fault \in BOOLEAN /\ processing \in BOOLEAN
  /\ known \in BOOLEAN /\ callback \in BOOLEAN /\ restart \in BOOLEAN
  /\ lapsed \in BOOLEAN /\ split \in BOOLEAN
  /\ call \in [Threads -> Calls]
  /\ \A t \in Threads : CallFits(t, call[t])

(* A thread comes to another step of its calls. *)
LEMMA CallChanges ==
  ASSUME PluginTypes, NEW t \in Threads, NEW c \in Calls,
         CallFits(t, c), call' = [call EXCEPT ![t] = c], UNCHANGED kind
  PROVE  /\ call' \in [Threads -> Calls] /\ call'[t] = c
         /\ \A o \in Threads : o # t => call'[o] = call[o]
         /\ \A o \in Threads : CallFits(o, call[o])'
<1>1. call \in [Threads -> Calls] /\ \A o \in Threads : CallFits(o, call[o])
  BY DEF PluginTypes
<1>2. /\ call' \in [Threads -> Calls] /\ call'[t] = c
      /\ \A o \in Threads : o # t => call'[o] = call[o]
  BY <1>1
<1>3. ASSUME NEW o \in Threads PROVE CallFits(o, call[o])'
  <2>1. CallFits(o, call'[o])
    BY <1>1, <1>2
  <2>2. QED
    BY <2>1 DEF CallFits, kind
<1>4. QED
  BY <1>2, <1>3

(* The lists of parameters. *)
LEMMA Lists ==
  /\ Params \in Seq(ParamNames) /\ Config \in Seq(ParamNames)
  /\ {Params[i] : i \in DOMAIN Params} = ParamNames
  /\ {Config[i] : i \in DOMAIN Config} = ConfigNames
  /\ Params # <<>> /\ Config # <<>>
  BY DEF Params, Config, ParamNames, ConfigNames

(* A thread that begins to read. *)
LEMMA ReadsFits ==
  ASSUME PluginTypes, NEW t \in Threads, NEW list \in {Params, Config},
         NEW todo \in GroupLists, UNCHANGED kind,
         NEW op \in {"edit", "flush", "check", "callback", "process", "reset"},
         op \in {"process", "reset"} => t = "audio",
         op = "reset" => live,
         op = "edit" => Len(todo) = 1 /\ Len(todo[1].changes) = 1,
         Reads(t, op, list, todo)
  PROVE  /\ call' \in [Threads -> Calls]
         /\ call'[t] = [op |-> op, pc |-> "load", left |-> list,
                        values |-> Defaults, todo |-> todo]
         /\ \A o \in Threads : o # t => call'[o] = call[o]
         /\ \A o \in Threads : CallFits(o, call[o])'
<1> DEFINE c == [op |-> op, pc |-> "load", left |-> list,
                 values |-> Defaults, todo |-> todo]
<1>1. c \in Calls
  BY Lists, ValuesAre DEF Calls
<1>2. CallFits(t, c)
  BY DEF CallFits
<1>3. call' = [call EXCEPT ![t] = c]
  BY DEF Reads
<1> HIDE DEF c
<1>4. QED
  BY <1>1, <1>2, <1>3, CallChanges DEF c

(* A thread that begins to store. *)
LEMMA StoresFits ==
  ASSUME PluginTypes, NEW t \in Threads, NEW list \in Seq(ParamNames),
         NEW v \in Values, NEW todo \in GroupLists, UNCHANGED kind,
         NEW op \in {"edit", "restore", "flush", "process"},
         op = "process" => t = "audio",
         Stores(t, op, list, v, todo)
  PROVE  /\ call' \in [Threads -> Calls]
         /\ call'[t] = [op |-> op, pc |-> "store", left |-> list,
                        values |-> v, todo |-> todo]
         /\ \A o \in Threads : o # t => call'[o] = call[o]
         /\ \A o \in Threads : CallFits(o, call[o])'
<1> DEFINE c == [op |-> op, pc |-> "store", left |-> list, values |-> v,
                 todo |-> todo]
<1>1. c \in Calls
  BY DEF Calls
<1>2. CallFits(t, c)
  BY DEF CallFits
<1>3. call' = [call EXCEPT ![t] = c]
  BY DEF Stores
<1> HIDE DEF c
<1>4. QED
  BY <1>1, <1>2, <1>3, CallChanges DEF c

(* A thread whose call ends. *)
LEMMA ReturnsFits ==
  ASSUME PluginTypes, NEW t \in Threads, UNCHANGED kind, Returns(t)
  PROVE  /\ call' \in [Threads -> Calls] /\ call'[t] = Idle
         /\ \A o \in Threads : o # t => call'[o] = call[o]
         /\ \A o \in Threads : CallFits(o, call[o])'
<1>1. Idle \in Calls
  <2>1. <<>> \in Seq(ParamNames) /\ <<>> \in GroupLists
    BY DEF GroupLists
  <2>2. QED
    BY <2>1, ValuesAre DEF Calls, Idle
<1>2. CallFits(t, Idle)
  BY DEF CallFits, Idle
<1>3. QED
  BY <1>1, <1>2, CallChanges DEF Returns

(* The names of some changes. *)
LEMMA NamesType ==
  ASSUME NEW changes \in Seq(Change)
  PROVE  /\ Names(changes) \in Seq(ParamNames)
         /\ Len(Names(changes)) = Len(changes)
         /\ DOMAIN Names(changes) = DOMAIN changes
         /\ \A k \in DOMAIN changes : Names(changes)[k] = changes[k].index
<1>1. /\ Len(changes) \in Nat /\ DOMAIN changes = 1 .. Len(changes)
      /\ \A k \in 1 .. Len(changes) : changes[k].index \in ParamNames
  <2>1. ASSUME NEW k \in 1 .. Len(changes) PROVE changes[k].index \in ParamNames
    <3>1. changes[k] \in Change
      BY ElementOfSeq
    <3>2. QED
      BY <3>1 DEF Change
  <2>2. QED
    BY <2>1, LenProperties
<1> DEFINE n == Len(changes)
           e(k) == changes[k].index
<1>2. Names(changes) = [k \in 1 .. n |-> e(k)]
  BY <1>1 DEF Names
<1>3. n \in Nat /\ \A k \in 1 .. n : e(k) \in ParamNames
  BY <1>1
<1> HIDE DEF n, e
<1>4. [k \in 1 .. n |-> e(k)] \in Seq(ParamNames)
      /\ Len([k \in 1 .. n |-> e(k)]) = n
  BY <1>3
<1>5. QED
  BY <1>1, <1>2, <1>4 DEF n, e

(* A thread that reads a parameter. *)
LEMMA LoadFits ==
  ASSUME PluginTypes, NEW t \in Threads, Load(t)
  PROVE  /\ PluginTypes' /\ call[t].left # <<>> /\ call[t].pc = "load"
         /\ Head(call[t].left) \in ParamNames
         /\ call'[t] = [call[t] EXCEPT !.left = Tail(@),
                          !.values = [@ EXCEPT ![Head(call[t].left)]
                                                 = targets[Head(call[t].left)]]]
         /\ \A o \in Threads : o # t => call'[o] = call[o]
<1> DEFINE p == Head(call[t].left)
           v == [call[t].values EXCEPT ![p] = targets[p]]
           c == [call[t] EXCEPT !.left = Tail(@), !.values = v]
<1>1. /\ call[t].pc = "load" /\ call[t].left # <<>>
      /\ call' = [call EXCEPT ![t].left = Tail(@), ![t].values[p] = targets[p]]
      /\ UNCHANGED <<kind, targets, lifecycle, fault, audio, callback, restart,
                     edits, history>>
  BY DEF Load
<1>2. call[t] \in Calls /\ CallFits(t, call[t]) /\ call \in [Threads -> Calls]
  BY DEF PluginTypes
<1>3. p \in ParamNames /\ Tail(call[t].left) \in Seq(ParamNames)
  <2>1. call[t].left \in Seq(ParamNames)
    BY <1>2 DEF Calls
  <2>2. QED
    BY <1>1, <2>1, HeadTailProperties
<1>4. v \in Values
  <2>1. call[t].values \in [ParamNames -> {0, 1}] /\ targets \in [ParamNames -> {0, 1}]
    BY <1>2, ValuesAre DEF Calls, PluginTypes
  <2>2. QED
    BY <1>3, <2>1, ValuesAre
<1>5. call' = [call EXCEPT ![t] = c]
  BY <1>1, <1>2
<1>6. c \in Calls /\ c = [call[t] EXCEPT !.left = Tail(@), !.values = v]
  BY <1>2, <1>3, <1>4 DEF Calls
<1>7. CallFits(t, c)
  BY <1>1, <1>2 DEF CallFits, Calls
<1> HIDE DEF c, v
<1>8. /\ call' \in [Threads -> Calls] /\ call'[t] = c
      /\ \A o \in Threads : o # t => call'[o] = call[o]
      /\ \A o \in Threads : CallFits(o, call[o])'
  BY <1>1, <1>5, <1>6, <1>7, CallChanges
<1>9. PluginTypes'
  BY <1>1, <1>8 DEF PluginTypes, kind, lifecycle, history
<1>10. QED
  BY <1>1, <1>3, <1>6, <1>8, <1>9 DEF v

(* A thread that stores a parameter. *)
LEMMA StoreFits ==
  ASSUME PluginTypes, NEW t \in Threads, Store(t)
  PROVE  /\ PluginTypes' /\ call[t].left # <<>> /\ call[t].pc = "store"
         /\ Head(call[t].left) \in ParamNames
         /\ targets' = [targets EXCEPT ![Head(call[t].left)]
                                         = call[t].values[Head(call[t].left)]]
         /\ call'[t] = [call[t] EXCEPT !.left = Tail(@)]
         /\ \A o \in Threads : o # t => call'[o] = call[o]
<1> DEFINE p == Head(call[t].left)
           c == [call[t] EXCEPT !.left = Tail(@)]
<1>1. /\ call[t].pc = "store" /\ call[t].left # <<>>
      /\ targets' = [targets EXCEPT ![p] = call[t].values[p]]
      /\ call' = [call EXCEPT ![t].left = Tail(@)]
      /\ UNCHANGED <<kind, lifecycle, fault, audio, callback, restart, edits,
                     history>>
  BY DEF Store
<1>2. call[t] \in Calls /\ CallFits(t, call[t]) /\ call \in [Threads -> Calls]
  BY DEF PluginTypes
<1>3. p \in ParamNames /\ Tail(call[t].left) \in Seq(ParamNames)
  <2>1. call[t].left \in Seq(ParamNames)
    BY <1>2 DEF Calls
  <2>2. QED
    BY <1>1, <2>1, HeadTailProperties
<1>4. targets' \in Values
  <2>1. call[t].values \in [ParamNames -> {0, 1}] /\ targets \in [ParamNames -> {0, 1}]
    BY <1>2, ValuesAre DEF Calls, PluginTypes
  <2>2. QED
    BY <1>1, <1>3, <2>1, ValuesAre
<1>5. call' = [call EXCEPT ![t] = c]
  BY <1>1, <1>2
<1>6. c \in Calls
  BY <1>2, <1>3 DEF Calls
<1>7. CallFits(t, c)
  BY <1>1, <1>2 DEF CallFits, Calls
<1> HIDE DEF c
<1>8. /\ call' \in [Threads -> Calls] /\ call'[t] = c
      /\ \A o \in Threads : o # t => call'[o] = call[o]
      /\ \A o \in Threads : CallFits(o, call[o])'
  BY <1>1, <1>5, <1>6, <1>7, CallChanges
<1>9. PluginTypes'
  BY <1>1, <1>4, <1>8 DEF PluginTypes, kind, lifecycle, history
<1>10. QED
  BY <1>1, <1>3, <1>8, <1>9 DEF c

-----------------------------------------------------------------------------
(* What each step does to the calls. *)

Reading(op, list, todo) ==
  [op |-> op, pc |-> "load", left |-> list, values |-> Defaults, todo |-> todo]

Storing(op, list, v, todo) ==
  [op |-> op, pc |-> "store", left |-> list, values |-> v, todo |-> todo]

(* The other thread stays where it is. *)
Only(t) == \A o \in Threads : o # t => call'[o] = call[o]

(* The threads. *)
LEMMA TwoThreads ==
  "main" \in Threads /\ "audio" \in Threads
  /\ \A t \in Threads : t = "main" \/ t = "audio"
  BY DEF Threads

(* Lists of groups: none, and one without a change. *)
LEMMA SmallLists ==
  /\ <<>> \in GroupLists
  /\ \A c \in Seq(Change) :
       /\ <<[at |-> 0, changes |-> c]>> \in GroupLists
       /\ Len(<<[at |-> 0, changes |-> c]>>) = 1
       /\ <<[at |-> 0, changes |-> c]>>[1].changes = c
  /\ <<>> \in Seq(Change)
  /\ \A i \in ParamNames : \A v \in {0, 1} :
       <<[index |-> i, value |-> v]>> \in Seq(Change)
       /\ Len(<<[index |-> i, value |-> v]>>) = 1
<1>1. <<>> \in GroupLists /\ <<>> \in Seq(Change)
  BY DEF GroupLists
<1>2. ASSUME NEW c \in Seq(Change)
      PROVE  /\ <<[at |-> 0, changes |-> c]>> \in GroupLists
             /\ Len(<<[at |-> 0, changes |-> c]>>) = 1
             /\ <<[at |-> 0, changes |-> c]>>[1].changes = c
  <2> DEFINE g == [at |-> 0, changes |-> c]
  <2>1. g \in [at : Nat, changes : Seq(Change)] /\ g.changes = c
    OBVIOUS
  <2> HIDE DEF g
  <2>2. <<g>> \in GroupLists /\ Len(<<g>>) = 1 /\ <<g>>[1] = g
    BY <2>1 DEF GroupLists
  <2>3. QED
    BY <2>1, <2>2 DEF g
<1>3. ASSUME NEW i \in ParamNames, NEW v \in {0, 1}
      PROVE  <<[index |-> i, value |-> v]>> \in Seq(Change)
             /\ Len(<<[index |-> i, value |-> v]>>) = 1
  <2> DEFINE g == [index |-> i, value |-> v]
  <2>1. g \in Change
    BY DEF Change
  <2> HIDE DEF g
  <2>2. <<g>> \in Seq(Change) /\ Len(<<g>>) = 1
    BY <2>1
  <2>3. QED
    BY <2>2 DEF g
<1>4. QED
  BY <1>1, <1>2, <1>3

(* The lists of a block are lists of groups. *)
LEMMA BatchesAre ==
  \A groups \in Batches : groups \in GroupLists
<1>1. DOMAIN Defaults = ParamNames
  BY ValuesAre
<1>2. QED
  BY <1>1, PluginAssumption DEF GroupLists, Change

(* What the rest of the types depend on. *)
LEMMA TypesKept ==
  ASSUME PluginTypes, UNCHANGED kind, targets' \in Values, audio' \in Values,
         configuration' \in Values, active' \in BOOLEAN, fault' \in BOOLEAN,
         processing' \in BOOLEAN, known' \in BOOLEAN, callback' \in BOOLEAN,
         restart' \in BOOLEAN, lapsed' \in BOOLEAN, split' \in BOOLEAN,
         call' \in [Threads -> Calls],
         \A o \in Threads : CallFits(o, call[o])'
  PROVE  PluginTypes'
<1>1. live' \in BOOLEAN /\ overlap' \in BOOLEAN
  BY DEF PluginTypes, kind
<1>2. QED
  BY <1>1 DEF PluginTypes

(* An edit begins to read all targets. *)
LEMMA EditFits ==
  ASSUME PluginTypes, Edit
  PROVE  /\ PluginTypes' /\ Only("main") /\ call["main"].pc = "idle"
         /\ May("main") /\ Unshared /\ UNCHANGED <<callback, restart>>
         /\ \E todo \in GroupLists :
              /\ Len(todo) = 1 /\ Len(todo[1].changes) = 1
              /\ call'["main"] = Reading("edit", Params, todo)
<1>1. PICK i \in DOMAIN Defaults, v \in {0, 1} :
        Reads("main", "edit", Params,
              <<[at |-> 0, changes |-> <<[index |-> i, value |-> v]>>]>>)
  BY DEF Edit
<1> DEFINE todo == <<[at |-> 0, changes |-> <<[index |-> i, value |-> v]>>]>>
<1>2. /\ todo \in GroupLists /\ Len(todo) = 1 /\ Len(todo[1].changes) = 1
  BY ValuesAre, SmallLists
<1>3. Reads("main", "edit", Params, todo)
  BY <1>1
<1> HIDE DEF todo
<1>4. /\ May("main") /\ Unshared /\ UNCHANGED <<callback, restart>>
  BY DEF Edit
<1>5. UNCHANGED kind
  BY <1>4 DEF Unshared
<1>6. /\ call' \in [Threads -> Calls]
      /\ call'["main"] = Reading("edit", Params, todo)
      /\ Only("main")
      /\ \A o \in Threads : CallFits(o, call[o])'
  BY <1>2, <1>3, <1>5, ReadsFits, TwoThreads DEF Only, Reading
<1>7. PluginTypes'
  BY <1>4, <1>5, <1>6, TypesKept
     DEF PluginTypes, Unshared, lifecycle, history
<1>8. QED
  BY <1>2, <1>4, <1>6, <1>7 DEF May, IsIdle

(* A state that is restored is valid, and every target is stored. *)
LEMMA RestoreFits ==
  ASSUME PluginTypes, Restore
  PROVE  /\ PluginTypes' /\ Only("main") /\ call["main"].pc = "idle"
         /\ May("main") /\ Unshared /\ UNCHANGED <<callback, restart>>
         /\ \E v \in Values :
              Valid(v) /\ call'["main"] = Storing("restore", Params, v, <<>>)
<1>1. PICK v \in Values : Valid(v) /\ Stores("main", "restore", Params, v, <<>>)
  BY DEF Restore
<1>2. /\ May("main") /\ Unshared /\ UNCHANGED <<callback, restart>>
  BY DEF Restore
<1>3. UNCHANGED kind
  BY <1>2 DEF Unshared
<1>4. /\ call' \in [Threads -> Calls]
      /\ call'["main"] = Storing("restore", Params, v, <<>>)
      /\ Only("main")
      /\ \A o \in Threads : CallFits(o, call[o])'
  BY <1>1, <1>3, StoresFits, TwoThreads, Lists, SmallLists DEF Only, Storing
<1>5. PluginTypes'
  BY <1>2, <1>3, <1>4, TypesKept
     DEF PluginTypes, Unshared, lifecycle, history
<1>6. QED
  BY <1>1, <1>2, <1>4, <1>5 DEF May, IsIdle

(* A flush begins to read all targets. *)
LEMMA FlushFits ==
  ASSUME PluginTypes, NEW t \in Threads, FlushCall(t)
  PROVE  /\ PluginTypes' /\ Only(t) /\ call[t].pc = "idle"
         /\ May(t) /\ Unshared /\ UNCHANGED <<callback, restart>>
         /\ \E groups \in GroupLists :
              call'[t] = Reading("flush", Params, groups)
<1>1. PICK groups \in Batches : Reads(t, "flush", Params, groups)
  BY DEF FlushCall
<1>2. /\ May(t) /\ Unshared /\ UNCHANGED <<callback, restart>>
  BY DEF FlushCall
<1>3. UNCHANGED kind
  BY <1>2 DEF Unshared
<1>4. groups \in GroupLists
  BY BatchesAre
<1>5. /\ call' \in [Threads -> Calls]
      /\ call'[t] = Reading("flush", Params, groups)
      /\ Only(t)
      /\ \A o \in Threads : CallFits(o, call[o])'
  BY <1>1, <1>3, <1>4, ReadsFits DEF Only, Reading
<1>6. PluginTypes'
  BY <1>2, <1>3, <1>5, TypesKept
     DEF PluginTypes, Unshared, lifecycle, history
<1>7. QED
  BY <1>2, <1>4, <1>5, <1>6 DEF May, IsIdle

(* A request that is valid begins to store, another ends. *)
LEMMA RequestFits ==
  ASSUME PluginTypes, NEW t \in Threads, Request(t)
  PROVE  LET c == call[t]
             next == After(c.values, c.todo, Len(c.todo))
         IN /\ PluginTypes' /\ Only(t) /\ c.pc = "load" /\ c.left = <<>>
            /\ c.op \in {"edit", "flush"}
            /\ Unshared /\ UNCHANGED <<callback, restart>>
            /\ \/ call'[t] = Idle
               \/ /\ Valid(next) /\ c.op = "edit"
                  /\ call'[t] = Storing("edit", Names(c.todo[1].changes), next, <<>>)
               \/ /\ Valid(next) /\ c.op = "flush"
                  /\ call'[t] = Storing("flush", Params, next, <<>>)
<1> DEFINE c == call[t]
           next == After(c.values, c.todo, Len(c.todo))
<1>1. /\ c.pc = "load" /\ c.left = <<>> /\ c.op \in {"edit", "flush"}
      /\ Unshared /\ UNCHANGED <<callback, restart>>
  BY DEF Request, At
<1>2. UNCHANGED kind
  BY <1>1 DEF Unshared
<1>3. c \in Calls /\ CallFits(t, c)
  BY DEF PluginTypes
<1>4. c.values \in Values /\ c.todo \in GroupLists
  BY <1>3 DEF Calls
<1>5. next \in Values
  <2> DEFINE v == c.values
             g == c.todo
  <2>1. v \in Values /\ g \in GroupLists
    BY <1>4
  <2> HIDE DEF v, g
  <2>2. Len(g) \in Nat
    BY <2>1, LenProperties DEF GroupLists
  <2>3. After(v, g, Len(g)) \in Values
    BY <2>1, <2>2, AfterType
  <2>4. QED
    BY <2>3 DEF v, g
<1>6. CASE ~Valid(next)
  <2>1. Returns(t)
    BY <1>6 DEF Request
  <2>2. /\ call' \in [Threads -> Calls] /\ call'[t] = Idle /\ Only(t)
        /\ \A o \in Threads : CallFits(o, call[o])'
    BY <1>2, <2>1, ReturnsFits DEF Only
  <2>3. PluginTypes'
    BY <1>1, <1>2, <2>2, TypesKept
     DEF PluginTypes, Unshared, lifecycle, history
  <2>4. QED
    BY <1>1, <2>2, <2>3
<1>7. CASE Valid(next) /\ c.op = "edit"
  <2>1. Stores(t, "edit", Names(c.todo[1].changes), next, <<>>)
    BY <1>7 DEF Request
  <2>2. c.todo[1].changes \in Seq(Change)
    <3>1. 1 \in 1 .. Len(c.todo)
      BY <1>1, <1>3, <1>7 DEF CallFits
    <3>2. c.todo[1] \in [at : Nat, changes : Seq(Change)]
      BY <1>4, <3>1, ElementOfSeq DEF GroupLists
    <3>3. QED
      BY <3>2
  <2>3. Names(c.todo[1].changes) \in Seq(ParamNames)
    BY <2>2, NamesType
  <2> DEFINE list == Names(c.todo[1].changes)
  <2> HIDE DEF next, list
  <2>4. /\ call' \in [Threads -> Calls] /\ Only(t)
        /\ call'[t] = Storing("edit", list, next, <<>>)
        /\ \A o \in Threads : CallFits(o, call[o])'
    <3>1. Stores(t, "edit", list, next, <<>>) /\ list \in Seq(ParamNames)
      BY <2>1, <2>3 DEF list
    <3>2. <<>> \in GroupLists
      BY SmallLists
    <3>3. QED
      BY <1>2, <1>5, <3>1, <3>2, StoresFits DEF Only, Storing
  <2>5. PluginTypes'
    BY <1>1, <1>2, <2>4, TypesKept
     DEF PluginTypes, Unshared, lifecycle, history
  <2>6. QED
    BY <1>1, <1>7, <2>4, <2>5 DEF next, list
<1>8. CASE Valid(next) /\ c.op = "flush"
  <2>1. Stores(t, "flush", Params, next, <<>>)
    BY <1>8 DEF Request
  <2> HIDE DEF next
  <2>2. /\ call' \in [Threads -> Calls] /\ Only(t)
        /\ call'[t] = Storing("flush", Params, next, <<>>)
        /\ \A o \in Threads : CallFits(o, call[o])'
    <3>1. <<>> \in GroupLists /\ Params \in Seq(ParamNames)
      BY SmallLists, Lists
    <3>2. QED
      BY <1>2, <1>5, <2>1, <3>1, StoresFits DEF Only, Storing
  <2>3. PluginTypes'
    BY <1>1, <1>2, <2>2, TypesKept
     DEF PluginTypes, Unshared, lifecycle, history
  <2>4. QED
    BY <1>1, <1>8, <2>2, <2>3 DEF next
<1>9. QED
  BY <1>1, <1>6, <1>7, <1>8

(* What is stored is checked while the plugin is active. *)
LEMMA StoredFits ==
  ASSUME PluginTypes, NEW t \in Threads, Stored(t)
  PROVE  /\ PluginTypes' /\ Only(t)
         /\ call[t].op \in {"edit", "restore", "flush"}
         /\ call[t].pc = "store" /\ call[t].left = <<>>
         /\ Unshared /\ UNCHANGED <<callback, restart>>
         /\ \/ active /\ call'[t] = Reading("check", Config, <<>>)
            \/ ~active /\ call'[t] = Idle
<1>1. /\ call[t].op \in {"edit", "restore", "flush"}
      /\ call[t].pc = "store" /\ call[t].left = <<>>
      /\ Unshared /\ UNCHANGED <<callback, restart>>
  BY DEF Stored, At
<1>2. UNCHANGED kind
  BY <1>1 DEF Unshared
<1>3. CASE active
  <2>1. Reads(t, "check", Config, <<>>)
    BY <1>3 DEF Stored
  <2>2. /\ call' \in [Threads -> Calls] /\ Only(t)
        /\ call'[t] = Reading("check", Config, <<>>)
        /\ \A o \in Threads : CallFits(o, call[o])'
    BY <1>2, <2>1, ReadsFits, SmallLists DEF Only, Reading
  <2>3. PluginTypes'
    BY <1>1, <1>2, <2>2, TypesKept
     DEF PluginTypes, Unshared, lifecycle, history
  <2>4. QED
    BY <1>1, <1>3, <2>2, <2>3
<1>4. CASE ~active
  <2>1. Returns(t)
    BY <1>4 DEF Stored
  <2>2. /\ call' \in [Threads -> Calls] /\ call'[t] = Idle /\ Only(t)
        /\ \A o \in Threads : CallFits(o, call[o])'
    BY <1>2, <2>1, ReturnsFits DEF Only
  <2>3. PluginTypes'
    BY <1>1, <1>2, <2>2, TypesKept
     DEF PluginTypes, Unshared, lifecycle, history
  <2>4. QED
    BY <1>1, <1>4, <2>2, <2>3
<1>5. QED
  BY <1>3, <1>4

(* A check that finds a staged configuration asks. *)
LEMMA CheckedFits ==
  ASSUME PluginTypes, NEW t \in Threads, Checked(t)
  PROVE  LET needs == ~SameConfiguration(call[t].values, configuration) IN
         /\ PluginTypes' /\ Only(t) /\ call'[t] = Idle
         /\ call[t].op \in {"check", "callback"}
         /\ call[t].pc = "load" /\ call[t].left = <<>>
         /\ UNCHANGED <<kind, targets, lifecycle, fault, audio, split>>
         /\ lapsed' = (lapsed /\ t = "main")
         /\ callback' = (callback \/ (needs /\ live /\ call[t].op = "check"))
         /\ restart' = (restart \/ (needs /\ (live => call[t].op = "callback")))
<1>1. /\ call[t].op \in {"check", "callback"}
      /\ call[t].pc = "load" /\ call[t].left = <<>> /\ Returns(t)
      /\ UNCHANGED <<kind, targets, lifecycle, fault, audio, split>>
      /\ lapsed' = (lapsed /\ t = "main")
  BY Zenon DEF Checked, At
<1>2. LET needs == ~SameConfiguration(call[t].values, configuration) IN
        /\ callback' = (callback \/ (needs /\ live /\ call[t].op = "check"))
        /\ restart' = (restart \/ (needs /\ (live => call[t].op = "callback")))
  BY Zenon DEF Checked
<1>3. UNCHANGED kind
  BY <1>1
<1>4. /\ call' \in [Threads -> Calls] /\ call'[t] = Idle /\ Only(t)
      /\ \A o \in Threads : CallFits(o, call[o])'
  BY <1>1, <1>3, ReturnsFits DEF Only
<1>5. callback' \in BOOLEAN /\ restart' \in BOOLEAN /\ lapsed' \in BOOLEAN
  BY <1>1, <1>2, Zenon
<1>6. PluginTypes'
  BY <1>1, <1>3, <1>4, <1>5, TypesKept
     DEF PluginTypes, lifecycle
<1>7. QED
  BY <1>1, <1>2, <1>4, <1>6, Zenon

(* The callback begins to read the configuration. *)
LEMMA CallbackFits ==
  ASSUME PluginTypes, Callback
  PROVE  /\ PluginTypes' /\ Only("main") /\ call["main"].pc = "idle"
         /\ May("main") /\ Unshared /\ UNCHANGED restart /\ callback' = FALSE
         /\ \/ active /\ call'["main"] = Reading("callback", Config, <<>>)
            \/ ~active /\ call' = call
<1>1. /\ May("main") /\ Unshared /\ UNCHANGED restart /\ callback' = FALSE
      /\ call["main"].pc = "idle"
  BY DEF Callback, May, IsIdle
<1>2. UNCHANGED kind
  BY <1>1 DEF Unshared
<1>3. CASE active
  <2>1. Reads("main", "callback", Config, <<>>)
    BY <1>3 DEF Callback
  <2>2. /\ call' \in [Threads -> Calls] /\ Only("main")
        /\ call'["main"] = Reading("callback", Config, <<>>)
        /\ \A o \in Threads : CallFits(o, call[o])'
    BY <1>2, <2>1, ReadsFits, SmallLists, TwoThreads DEF Only, Reading
  <2>3. PluginTypes'
    BY <1>1, <1>2, <2>2, TypesKept
     DEF PluginTypes, Unshared, lifecycle, history
  <2>4. QED
    BY <1>1, <1>3, <2>2, <2>3
<1>4. CASE ~active
  <2>1. call' = call
    BY <1>4 DEF Callback
  <2>2. PluginTypes'
    BY <1>1, <2>1 DEF PluginTypes, CallFits, Unshared, lifecycle, kind, history
  <2>3. QED
    BY <1>1, <1>4, <2>1, <2>2 DEF Only
<1>5. QED
  BY <1>3, <1>4

(* The calls stay where they are. *)
LEMMA CallsKept ==
  ASSUME PluginTypes, UNCHANGED <<kind, call>>
  PROVE  /\ call' \in [Threads -> Calls]
         /\ \A o \in Threads : CallFits(o, call[o])'
  BY DEF PluginTypes, CallFits, kind

(* Activation takes the targets, when no call is under way. *)
LEMMA ActivateFits ==
  ASSUME PluginTypes, Activate
  PROVE  /\ PluginTypes' /\ Quiet /\ Valid(targets) /\ active' = TRUE
         /\ configuration' = targets /\ audio' = targets /\ fault' = FALSE
         /\ AnnounceLatency /\ lapsed' = FALSE /\ split' = FALSE
         /\ UNCHANGED <<kind, targets, processing, callback, restart, call>>
<1>1. /\ Quiet /\ Valid(targets) /\ active' = TRUE
      /\ configuration' = targets /\ audio' = targets /\ fault' = FALSE
      /\ AnnounceLatency /\ lapsed' = FALSE /\ split' = FALSE
      /\ UNCHANGED <<kind, targets, processing, callback, restart, call>>
  BY DEF Activate
<1>2. known' \in BOOLEAN
  BY <1>1 DEF AnnounceLatency, PluginTypes
<1>3. PluginTypes'
  BY <1>1, <1>2, CallsKept, TypesKept DEF PluginTypes, history
<1>4. QED
  BY <1>1, <1>3

(* Deactivation leaves the calls and the engine's values alone. *)
LEMMA DeactivateFits ==
  ASSUME PluginTypes, Deactivate
  PROVE  /\ PluginTypes' /\ active' = FALSE
         /\ UNCHANGED <<kind, targets, configuration, audio, known, announced,
                        told, callback, call, history>>
<1>1. /\ active' = FALSE /\ processing' = FALSE /\ fault' = FALSE
      /\ restart' = FALSE
      /\ UNCHANGED <<kind, targets, configuration, audio, known, announced,
                     told, callback, call, history>>
  BY DEF Deactivate
<1>2. PluginTypes'
  BY <1>1, CallsKept, TypesKept DEF PluginTypes, history
<1>3. QED
  BY <1>1, <1>2

(* Nothing but the host's wish to process changes. *)
LEMMA ProcessingFits ==
  ASSUME PluginTypes, Processing
  PROVE  /\ PluginTypes'
         /\ UNCHANGED <<kind, targets, active, configuration, known, announced,
                        told, fault, audio, callback, restart, call, history>>
<1>1. /\ processing' = (active /\ ~processing)
      /\ UNCHANGED <<kind, targets, active, configuration, known, announced,
                     told, fault, audio, callback, restart, call, history>>
  BY DEF Processing
<1>2. processing' \in BOOLEAN
  BY <1>1, Zenon
<1>3. PluginTypes'
  BY <1>1, <1>2, CallsKept, TypesKept DEF PluginTypes, history
<1>4. QED
  BY <1>1, <1>3

(* A block begins to read all targets. *)
LEMMA ProcessFits ==
  ASSUME PluginTypes, NEW groups \in Batches, Process(groups)
  PROVE  /\ PluginTypes' /\ Only("audio") /\ call["audio"].pc = "idle"
         /\ May("audio") /\ Same /\ UNCHANGED <<targets, fault, audio>>
         /\ call'["audio"] = Reading("process", Params, groups)
<1>1. /\ May("audio") /\ Same /\ UNCHANGED <<targets, fault, audio>>
      /\ Reads("audio", "process", Params, groups)
  BY DEF Process
<1>2. UNCHANGED kind
  BY <1>1 DEF Same
<1>3. /\ call' \in [Threads -> Calls] /\ Only("audio")
      /\ call'["audio"] = Reading("process", Params, groups)
      /\ \A o \in Threads : CallFits(o, call[o])'
  BY <1>1, <1>2, BatchesAre, ReadsFits, TwoThreads DEF Only, Reading
<1>4. PluginTypes'
  BY <1>1, <1>2, <1>3, TypesKept
     DEF PluginTypes, Same, lifecycle, history
<1>5. QED
  BY <1>1, <1>3, <1>4 DEF May, IsIdle

(* A block is accepted with all its groups, or refused. *)
LEMMA DecideFits ==
  ASSUME PluginTypes, Decide
  PROVE  LET c == call["audio"]
             start == Start(Requested)
             base == IF live THEN Requested ELSE start
         IN /\ PluginTypes' /\ Only("audio")
            /\ c.op = "process" /\ c.pc = "load" /\ c.left = <<>>
            /\ Same /\ UNCHANGED <<targets, fault>>
            /\ \/ /\ Accepted(base, c.todo) /\ Accepts(start)
                  /\ audio' = start
                  /\ call'["audio"] = [c EXCEPT !.pc = "run", !.values = base]
               \/ call'["audio"] = Idle /\ audio' = audio
<1> DEFINE c == call["audio"]
           start == Start(Requested)
           base == IF live THEN Requested ELSE start
<1>1. /\ c.op = "process" /\ c.pc = "load" /\ c.left = <<>>
      /\ Same /\ UNCHANGED <<targets, fault>>
  BY DEF Decide, At
<1>2. UNCHANGED kind
  BY <1>1 DEF Same
<1>3. c \in Calls /\ CallFits("audio", c)
  BY TwoThreads DEF PluginTypes
<1>4. Requested \in Values /\ start \in Values /\ base \in Values
  BY <1>3 DEF Calls, PluginTypes, Requested, Start
<1>5. CASE Accepted(base, c.todo) /\ Accepts(start)
  <2>1. /\ audio' = start
        /\ call' = [call EXCEPT !["audio"].pc = "run", !["audio"].values = base]
    BY <1>5, Zenon DEF Decide
  <2> DEFINE d == [c EXCEPT !.pc = "run", !.values = base]
  <2> HIDE DEF base, start
  <2>2. d \in Calls /\ CallFits("audio", d)
    BY <1>1, <1>3, <1>4 DEF Calls, CallFits
  <2>3. call' = [call EXCEPT !["audio"] = d]
    <3>1. call \in [Threads -> Calls]
      BY DEF PluginTypes
    <3>2. QED
      BY <1>3, <2>1, <3>1, TwoThreads
  <2> HIDE DEF d
  <2>4. /\ call' \in [Threads -> Calls] /\ Only("audio") /\ call'["audio"] = d
        /\ \A o \in Threads : CallFits(o, call[o])'
    BY <1>2, <2>2, <2>3, CallChanges, TwoThreads DEF Only
  <2>5. PluginTypes'
    BY <1>1, <1>2, <1>4, <2>1, <2>4, TypesKept
     DEF PluginTypes, Same, lifecycle, history
  <2>6. QED
    BY <1>1, <1>5, <2>1, <2>4, <2>5 DEF d, base, start
<1>6. CASE ~(Accepted(base, c.todo) /\ Accepts(start))
  <2>1. Returns("audio") /\ UNCHANGED audio
    BY <1>6, Zenon DEF Decide
  <2>2. /\ call' \in [Threads -> Calls] /\ call'["audio"] = Idle /\ Only("audio")
        /\ \A o \in Threads : CallFits(o, call[o])'
    BY <1>2, <2>1, ReturnsFits, TwoThreads DEF Only
  <2>3. PluginTypes'
    BY <1>1, <1>2, <2>1, <2>2, TypesKept
     DEF PluginTypes, Same, lifecycle, history
  <2>4. QED
    BY <1>1, <2>1, <2>2, <2>3
<1>7. QED
  BY <1>5, <1>6

(* A failure ends the block. *)
LEMMA SegmentFailsFits ==
  ASSUME PluginTypes, SegmentFails
  PROVE  /\ PluginTypes' /\ Only("audio") /\ call["audio"].pc = "run"
         /\ call["audio"].op = "process"
         /\ fault' = TRUE /\ lapsed' = (lapsed \/ live) /\ call'["audio"] = Idle
         /\ UNCHANGED <<kind, targets, lifecycle, audio, callback, restart,
                        split>>
<1>1. /\ call["audio"].pc = "run" /\ fault' = TRUE /\ Returns("audio")
      /\ call["audio"].op = "process" /\ lapsed' = (lapsed \/ live)
      /\ UNCHANGED <<kind, targets, lifecycle, audio, callback, restart, split>>
  BY DEF SegmentFails, At
<1>2. /\ call' \in [Threads -> Calls] /\ call'["audio"] = Idle /\ Only("audio")
      /\ \A o \in Threads : CallFits(o, call[o])'
  BY <1>1, ReturnsFits, TwoThreads DEF Only
<1>3. PluginTypes'
  BY <1>1, <1>2, TypesKept DEF PluginTypes, lifecycle
<1>4. QED
  BY <1>1, <1>2, <1>3

(* A group is applied, and begins to be published. *)
LEMMA GroupFits ==
  ASSUME PluginTypes, Group
  PROVE  LET c == call["audio"]
             changes == Head(c.todo).changes
             next == With(IF live THEN c.values ELSE audio, changes)
         IN /\ PluginTypes' /\ Only("audio")
            /\ c.op = "process" /\ c.pc = "run" /\ c.todo # <<>>
            /\ changes \in Seq(Change)
            /\ Same /\ UNCHANGED <<targets, fault>>
            /\ audio' = IF ~live \/ SameConfiguration(next, configuration)
                        THEN next ELSE audio
            /\ call'["audio"] = Storing("process", Names(changes), next, Tail(c.todo))
<1> DEFINE c == call["audio"]
           changes == Head(c.todo).changes
           next == With(IF live THEN c.values ELSE audio, changes)
<1>1. /\ c.op = "process" /\ c.pc = "run" /\ c.todo # <<>>
      /\ Same /\ UNCHANGED <<targets, fault>>
      /\ audio' = IF ~live \/ SameConfiguration(next, configuration)
                  THEN next ELSE audio
      /\ Stores("audio", "process", Names(changes), next, Tail(c.todo))
  BY Zenon DEF Group, At
<1>2. UNCHANGED kind
  BY <1>1 DEF Same
<1>3. c.values \in Values /\ c.todo \in GroupLists /\ audio \in Values
  BY TwoThreads DEF PluginTypes, Calls
<1>4. changes \in Seq(Change) /\ Tail(c.todo) \in GroupLists
  <2> DEFINE g == c.todo
  <2>1. g \in GroupLists /\ g # <<>>
    BY <1>1, <1>3
  <2> HIDE DEF g
  <2>2. Head(g) \in [at : Nat, changes : Seq(Change)] /\ Tail(g) \in GroupLists
    BY <2>1, HeadTailProperties DEF GroupLists
  <2>3. Head(g).changes \in Seq(Change) /\ Tail(g) \in GroupLists
    BY <2>2
  <2>4. QED
    BY <2>3 DEF g
<1>5. next \in Values
  <2> HIDE DEF changes
  <2>1. (IF live THEN c.values ELSE audio) \in Values
    BY <1>3
  <2>2. QED
    BY <1>4, <2>1, WithType
<1>6. Names(changes) \in Seq(ParamNames)
  BY <1>4, NamesType
<1> DEFINE list == Names(changes)
           rest == Tail(c.todo)
<1>7. /\ call' \in [Threads -> Calls] /\ Only("audio")
      /\ call'["audio"] = Storing("process", list, next, rest)
      /\ \A o \in Threads : CallFits(o, call[o])'
  <2> HIDE DEF list, rest, next
  <2>1. /\ list \in Seq(ParamNames) /\ rest \in GroupLists
        /\ Stores("audio", "process", list, next, rest)
    BY <1>1, <1>4, <1>6 DEF list, rest
  <2>2. QED
    BY <1>2, <1>5, <2>1, StoresFits, TwoThreads DEF Only, Storing
<1>8. audio' \in Values
  <2> HIDE DEF next
  <2>1. QED
    BY <1>1, <1>3, <1>5
<1>9. PluginTypes'
  BY <1>1, <1>2, <1>7, <1>8, TypesKept
     DEF PluginTypes, Same, lifecycle, history
<1>10. QED
  BY <1>1, <1>4, <1>7, <1>9, Zenon

(* A group is published. *)
LEMMA GroupDoneFits ==
  ASSUME PluginTypes, GroupDone
  PROVE  LET c == call["audio"] IN
         /\ PluginTypes' /\ Only("audio")
         /\ c.op = "process" /\ c.pc = "store" /\ c.left = <<>>
         /\ call'["audio"] = [c EXCEPT !.pc = "run"]
         /\ Same /\ UNCHANGED <<targets, fault, audio>>
<1> DEFINE c == call["audio"]
           d == [c EXCEPT !.pc = "run"]
<1>1. /\ c.op = "process" /\ c.pc = "store" /\ c.left = <<>>
      /\ call' = [call EXCEPT !["audio"].pc = "run"]
      /\ Same /\ UNCHANGED <<targets, fault, audio>>
  BY DEF GroupDone, At
<1>2. UNCHANGED kind
  BY <1>1 DEF Same
<1>3. /\ c \in Calls /\ CallFits("audio", c) /\ call \in [Threads -> Calls]
  BY TwoThreads DEF PluginTypes
<1>4. d \in Calls /\ CallFits("audio", d)
  BY <1>1, <1>3 DEF Calls, CallFits
<1>5. call' = [call EXCEPT !["audio"] = d]
  BY <1>1, <1>3, TwoThreads
<1> HIDE DEF d
<1>6. /\ call' \in [Threads -> Calls] /\ Only("audio") /\ call'["audio"] = d
      /\ \A o \in Threads : CallFits(o, call[o])'
  BY <1>2, <1>4, <1>5, CallChanges, TwoThreads DEF Only
<1>7. PluginTypes'
  BY <1>1, <1>2, <1>6, TypesKept
     DEF PluginTypes, Same, lifecycle, history
<1>8. QED
  BY <1>1, <1>6, <1>7 DEF d

(* A block ends with a check in CLAP. *)
LEMMA ProcessEndsFits ==
  ASSUME PluginTypes, ProcessEnds
  PROVE  /\ PluginTypes' /\ Only("audio")
         /\ call["audio"].op = "process" /\ call["audio"].pc = "run"
         /\ Same /\ UNCHANGED <<targets, fault, audio>>
         /\ \/ live /\ call'["audio"] = Reading("check", Config, <<>>)
            \/ ~live /\ call'["audio"] = Idle
<1>1. /\ call["audio"].op = "process" /\ call["audio"].pc = "run"
      /\ Same /\ UNCHANGED <<targets, fault, audio>>
  BY DEF ProcessEnds, At
<1>2. UNCHANGED kind
  BY <1>1 DEF Same
<1>3. CASE live
  <2>1. Reads("audio", "check", Config, <<>>)
    BY <1>3 DEF ProcessEnds
  <2>2. /\ call' \in [Threads -> Calls] /\ Only("audio")
        /\ call'["audio"] = Reading("check", Config, <<>>)
        /\ \A o \in Threads : CallFits(o, call[o])'
    BY <1>2, <2>1, ReadsFits, SmallLists, TwoThreads DEF Only, Reading
  <2>3. PluginTypes'
    BY <1>1, <1>2, <2>2, TypesKept
     DEF PluginTypes, Same, lifecycle, history
  <2>4. QED
    BY <1>1, <1>3, <2>2, <2>3
<1>4. CASE ~live
  <2>1. Returns("audio")
    BY <1>4 DEF ProcessEnds
  <2>2. /\ call' \in [Threads -> Calls] /\ call'["audio"] = Idle /\ Only("audio")
        /\ \A o \in Threads : CallFits(o, call[o])'
    BY <1>2, <2>1, ReturnsFits, TwoThreads DEF Only
  <2>3. PluginTypes'
    BY <1>1, <1>2, <2>2, TypesKept
     DEF PluginTypes, Same, lifecycle, history
  <2>4. QED
    BY <1>1, <1>4, <2>2, <2>3
<1>5. QED
  BY <1>3, <1>4

(* A reset begins to read the configuration. *)
LEMMA ResetFits ==
  ASSUME PluginTypes, Reset
  PROVE  /\ PluginTypes' /\ Only("audio") /\ call["audio"].pc = "idle"
         /\ live /\ May("audio")
         /\ Same /\ UNCHANGED <<targets, fault, audio>>
         /\ call'["audio"] = Reading("reset", Config, <<>>)
<1>1. /\ live /\ May("audio")
      /\ Same /\ UNCHANGED <<targets, fault, audio>>
      /\ Reads("audio", "reset", Config, <<>>)
  BY DEF Reset
<1>2. UNCHANGED kind
  BY <1>1 DEF Same
<1>3. /\ call' \in [Threads -> Calls] /\ Only("audio")
      /\ call'["audio"] = Reading("reset", Config, <<>>)
      /\ \A o \in Threads : CallFits(o, call[o])'
  BY <1>1, <1>2, SmallLists, ReadsFits, TwoThreads DEF Only, Reading
<1>4. PluginTypes'
  BY <1>1, <1>2, <1>3, TypesKept
     DEF PluginTypes, Same, lifecycle, history
<1>5. QED
  BY <1>1, <1>3, <1>4 DEF May, IsIdle

(* It goes on when the configuration was the engine's. *)
LEMMA ResetReadsFits ==
  ASSUME PluginTypes, ResetReads
  PROVE  LET c == call["audio"] IN
         /\ PluginTypes' /\ Only("audio")
         /\ c.op = "reset" /\ c.pc = "load" /\ c.left = <<>> /\ c.todo = <<>>
         /\ Same /\ UNCHANGED <<targets, audio>>
         /\ \/ call'["audio"] = Idle
            \/ /\ SameConfiguration(c.values, configuration)
               /\ \E todo \in GroupLists :
                    todo # <<>> /\ call'["audio"] = Reading("reset", Params, todo)
<1> DEFINE c == call["audio"]
           todo == <<[at |-> 0, changes |-> <<>>]>>
<1>1. /\ c.op = "reset" /\ c.pc = "load" /\ c.left = <<>> /\ c.todo = <<>>
      /\ Same /\ UNCHANGED <<targets, audio>>
  BY DEF ResetReads, At
<1>2. UNCHANGED kind
  BY <1>1 DEF Same
<1>3. live
  BY <1>1, TwoThreads DEF PluginTypes, CallFits
<1>4. CASE SameConfiguration(c.values, configuration)
  <2>1. Reads("audio", "reset", Params, todo) /\ UNCHANGED fault
    BY <1>4 DEF ResetReads
  <2>2. todo \in GroupLists /\ todo # <<>>
    BY SmallLists
  <2> HIDE DEF todo
  <2>3. /\ call' \in [Threads -> Calls] /\ Only("audio")
        /\ call'["audio"] = Reading("reset", Params, todo)
        /\ \A o \in Threads : CallFits(o, call[o])'
    BY <1>2, <1>3, <2>1, <2>2, ReadsFits, TwoThreads DEF Only, Reading
  <2>4. PluginTypes'
    BY <1>1, <1>2, <2>1, <2>3, TypesKept
     DEF PluginTypes, Same, lifecycle, history
  <2>5. QED
    BY <1>1, <1>3, <1>4, <2>2, <2>3, <2>4
<1>5. CASE ~SameConfiguration(c.values, configuration)
  <2>1. Returns("audio") /\ fault' = (fault /\ ~Accepts(audio))
    BY <1>5, Zenon DEF ResetReads
  <2>2. /\ call' \in [Threads -> Calls] /\ call'["audio"] = Idle /\ Only("audio")
        /\ \A o \in Threads : CallFits(o, call[o])'
    BY <1>2, <2>1, ReturnsFits, TwoThreads DEF Only
  <2>3. fault' \in BOOLEAN
    BY <2>1, Zenon
  <2>4. PluginTypes'
    BY <1>1, <1>2, <2>2, <2>3, TypesKept
     DEF PluginTypes, Same, lifecycle, history
  <2>5. QED
    BY <1>1, <1>3, <2>2, <2>4
<1>6. QED
  BY <1>4, <1>5

(* It ends with what it read, or with what was there. *)
LEMMA ResetAppliesFits ==
  ASSUME PluginTypes, ResetApplies
  PROVE  LET c == call["audio"] IN
         /\ PluginTypes' /\ Only("audio") /\ live /\ call'["audio"] = Idle
         /\ c.op = "reset" /\ c.pc = "load" /\ c.left = <<>> /\ c.todo # <<>>
         /\ UNCHANGED <<kind, targets, lifecycle, callback, restart, lapsed>>
         /\ \/ /\ Valid(c.values) /\ Accepts(c.values) /\ audio' = c.values
               /\ split' = ~SameConfiguration(c.values, configuration)
            \/ UNCHANGED <<audio, split>>
<1> DEFINE c == call["audio"]
<1>1. /\ c.op = "reset" /\ c.pc = "load" /\ c.left = <<>> /\ c.todo # <<>>
      /\ UNCHANGED <<kind, targets, lifecycle, callback, restart, lapsed>>
      /\ Returns("audio")
  BY DEF ResetApplies, At
<1>2. \/ /\ Valid(c.values) /\ Accepts(c.values) /\ audio' = c.values
         /\ split' = ~SameConfiguration(c.values, configuration)
         /\ fault' = FALSE
      \/ UNCHANGED <<audio, fault, split>>
  BY Zenon DEF ResetApplies
<1>3. UNCHANGED kind
  BY <1>1
<1>4. live /\ c.values \in Values
  BY <1>1, TwoThreads DEF PluginTypes, CallFits, Calls
<1>5. audio' \in Values /\ fault' \in BOOLEAN /\ split' \in BOOLEAN
  <2>1. CASE UNCHANGED <<audio, fault, split>>
    BY <2>1 DEF PluginTypes
  <2>2. CASE /\ audio' = c.values /\ fault' = FALSE
             /\ split' = ~SameConfiguration(c.values, configuration)
    <3>1. split' \in BOOLEAN
      BY <2>2, Zenon
    <3>2. QED
      BY <1>4, <2>2, <3>1
  <2>3. QED
    BY <1>2, <2>1, <2>2, Zenon
<1>6. /\ call' \in [Threads -> Calls] /\ call'["audio"] = Idle /\ Only("audio")
      /\ \A o \in Threads : CallFits(o, call[o])'
  BY <1>1, <1>3, ReturnsFits, TwoThreads DEF Only
<1>7. PluginTypes'
  BY <1>1, <1>3, <1>5, <1>6, TypesKept
     DEF PluginTypes, lifecycle
<1>8. QED
  BY <1>1, <1>2, <1>4, <1>6, <1>7, Zenon

-----------------------------------------------------------------------------
(* The types and the control of the calls hold. *)

(* Nothing happens. *)
LEMMA StutterFits ==
  ASSUME PluginTypes, UNCHANGED vars
  PROVE  PluginTypes'
  BY DEF PluginTypes, CallFits, vars, kind, lifecycle, history

(* Every step keeps them. *)
LEMMA NextTypes ==
  ASSUME PluginTypes, [Next]_vars
  PROVE  PluginTypes'
<1>1. CASE Host
  BY <1>1, TwoThreads, EditFits, RestoreFits, FlushFits, CallbackFits,
     ActivateFits, DeactivateFits, ProcessingFits, ProcessFits, ResetFits,
     SegmentFailsFits DEF Host
<1>2. CASE AudioStep
  BY <1>2, DecideFits, GroupFits, GroupDoneFits, ProcessEndsFits,
     ResetReadsFits, ResetAppliesFits DEF AudioStep
<1>3. CASE \E t \in Threads : Step(t)
  BY <1>3, LoadFits, StoreFits, RequestFits, StoredFits, CheckedFits DEF Step
<1>4. QED
  BY <1>1, <1>2, <1>3, StutterFits DEF Next

(* Nothing is under way at first. *)
LEMMA InitTypes == Init => PluginTypes
<1> SUFFICES ASSUME Init PROVE PluginTypes
  OBVIOUS
<1>1. Idle \in Calls /\ \A t \in Threads : CallFits(t, Idle)
  BY SmallLists, ValuesAre DEF Idle, Calls, CallFits
<1>2. call = [t \in Threads |-> Idle]
  BY DEF Init
<1>3. call \in [Threads -> Calls] /\ \A t \in Threads : CallFits(t, call[t])
  BY <1>1, <1>2
<1>4. QED
  BY <1>3, ValuesAre, PluginAssumption DEF Init, PluginTypes

(* Types and calls are right in every state. *)
THEOREM PluginTyped == Spec => []PluginTypes
<1>1. PluginTypes /\ [Next]_vars => PluginTypes'
  BY NextTypes
<1>2. QED
  BY <1>1, InitTypes, PTL DEF Spec

-----------------------------------------------------------------------------
(* The latency. *)

(* What the host was told is what was announced last, and what the engine  *)
(* has that runs.                                                          *)
Announced ==
  /\ active => told = LatencyOf(configuration)
  /\ live /\ known => told = announced

(* An active plugin's host works with the latency of the engine that runs, *)
(* however often it is restarted and whichever latencies come and go:      *)
(* announcing only a change is enough, since it keeps what was announced.  *)
THEOREM LatencyKnown == Spec => []HostKnowsLatency
<1>1. Init => Announced
  BY DEF Init, Announced
<1>2. Announced /\ [Next]_vars => Announced'
  <2> SUFFICES ASSUME Announced, [Next]_vars PROVE Announced'
    OBVIOUS
  <2>1. CASE Activate
    <3>1. /\ configuration' = targets /\ live' = live /\ AnnounceLatency
      BY <2>1 DEF Activate, kind
    <3>2. LatencyOf(configuration)' = LatencyOf(targets)
      BY <3>1 DEF LatencyOf
    <3>3. CASE live
      <4>1. announced' = LatencyOf(targets)
            /\ told' = IF ~known \/ announced # LatencyOf(targets)
                       THEN LatencyOf(targets) ELSE told
        BY <3>1, <3>3 DEF AnnounceLatency
      <4>2. QED
        BY <3>2, <3>3, <4>1 DEF Announced
    <3>4. CASE ~live
      BY <3>1, <3>2, <3>4 DEF Announced, AnnounceLatency
    <3>5. QED
      BY <3>3, <3>4
  <2>2. CASE Deactivate
    BY <2>2 DEF Deactivate, Announced, kind, LatencyOf
  <2>3. ASSUME UNCHANGED <<live, active, configuration, known, announced, told>>
        PROVE  Announced'
    BY <2>3 DEF Announced, LatencyOf
  <2>4. CASE Processing
    BY <2>3, <2>4 DEF Processing, kind
  <2>5. CASE Host /\ ~Activate /\ ~Deactivate /\ ~Processing
    BY <2>3, <2>5 DEF Host, Edit, Restore, FlushCall, Callback, Process, Reset,
       SegmentFails, Unshared, Same, kind, lifecycle
  <2>6. CASE AudioStep
    BY <2>3, <2>6 DEF AudioStep, Decide, Group, GroupDone, ProcessEnds,
       ResetReads, ResetApplies, Same, kind, lifecycle
  <2>7. CASE \E t \in Threads : Step(t)
    BY <2>3, <2>7 DEF Step, Load, Store, Request, Stored, Checked, Unshared,
       kind, lifecycle
  <2>8. CASE UNCHANGED vars
    BY <2>3, <2>8 DEF vars, kind, lifecycle
  <2>9. QED
    BY <2>1, <2>2, <2>4, <2>5, <2>6, <2>7, <2>8 DEF Next
<1>3. Announced => HostKnowsLatency
  BY DEF Announced, HostKnowsLatency
<1>4. QED
  BY <1>1, <1>2, <1>3, PTL DEF Spec

-----------------------------------------------------------------------------
(* Calls that nothing overlaps. *)

(* The parameters a call has still to read or to store. *)
Open(c) == {c.left[i] : i \in DOMAIN c.left}

(* The parameters a call reads. *)
Asked(c) ==
  IF c.op \in {"check", "callback"} \/ (c.op = "reset" /\ c.todo = <<>>)
  THEN ConfigNames ELSE ParamNames

(* What it has read of them is what is there. *)
ReadsBack(c) ==
  c.pc = "load" => \A p \in Asked(c) \ Open(c) : c.values[p] = targets[p]

(* A reset that goes on found the engine's configuration. *)
ResetKnows(c) ==
  c.op = "reset" /\ c.todo # <<>> => SameConfiguration(targets, configuration)

(* One call at a time. *)
Alone ==
  ~overlap => /\ \E t \in Threads : IsIdle(t)
              /\ \A t \in Threads : ReadsBack(call[t]) /\ ResetKnows(call[t])

(* One parameter less. *)
LEMMA OpenTail ==
  ASSUME NEW c, NEW d, c.left \in Seq(ParamNames), c.left # <<>>,
         d.left = Tail(c.left)
  PROVE  Open(d) \subseteq Open(c) /\ Open(c) \subseteq Open(d) \cup {Head(c.left)}
<1> DEFINE s == c.left
<1>1. /\ s \in Seq(ParamNames) /\ s # <<>> /\ d.left = Tail(s)
  OBVIOUS
<1> HIDE DEF s
<1>2. /\ DOMAIN s = 1 .. Len(s) /\ DOMAIN Tail(s) = 1 .. Len(Tail(s))
      /\ Len(s) \in Nat /\ Len(Tail(s)) = Len(s) - 1 /\ Head(s) = s[1]
      /\ \A i \in 1 .. Len(Tail(s)) : Tail(s)[i] = s[i + 1]
  <2>1. /\ Len(Tail(s)) = Len(s) - 1 /\ Tail(s) \in Seq(ParamNames)
        /\ \A i \in 1 .. Len(Tail(s)) : Tail(s)[i] = s[i + 1]
    BY <1>1, HeadTailProperties
  <2>2. Head(s) = s[1]
    BY <1>1
  <2>3. QED
    BY <1>1, <2>1, <2>2, LenProperties
<1>3. \A i \in DOMAIN Tail(s) : i + 1 \in DOMAIN s /\ Tail(s)[i] = s[i + 1]
  BY <1>2
<1>4. \A i \in DOMAIN s : i = 1 \/ (i - 1 \in DOMAIN Tail(s) /\ (i - 1) + 1 = i)
  BY <1>2
<1>5. {Tail(s)[i] : i \in DOMAIN Tail(s)} \subseteq {s[i] : i \in DOMAIN s}
  BY <1>3
<1>6. {s[i] : i \in DOMAIN s}
        \subseteq {Tail(s)[i] : i \in DOMAIN Tail(s)} \cup {Head(s)}
  BY <1>2, <1>3, <1>4
<1>7. Open(d) = {Tail(s)[i] : i \in DOMAIN Tail(s)}
  BY <1>1 DEF Open
<1>8. QED
  BY <1>5, <1>6, <1>7 DEF Open, s

(* Nothing is left of an empty list, everything of a new one. *)
LEMMA OpenLists ==
  /\ \A c : c.left = <<>> => Open(c) = {}
  /\ \A c : c.left = Params => Open(c) = ParamNames
  /\ \A c : c.left = Config => Open(c) = ConfigNames
<1>1. DOMAIN <<>> = {}
  OBVIOUS
<1>2. QED
  BY <1>1, Lists DEF Open

(* A step of a thread that is alone. *)
LEMMA AloneThread ==
  ASSUME PluginTypes, Alone, NEW t \in Threads, Only(t),
         UNCHANGED <<kind, targets, configuration>>, May(t) \/ ~IsIdle(t),
         ~overlap => ReadsBack(call[t])' /\ ResetKnows(call[t])'
  PROVE  Alone'
<1> SUFFICES ASSUME ~overlap PROVE Alone'
  BY DEF Alone, kind
<1>1. \A o \in Threads : o # t => IsIdle(o)
  BY TwoThreads DEF Alone, May
<1>2. PICK o \in Threads : o # t
  BY TwoThreads
<1>3. call'[o] = call[o] /\ IsIdle(o)'
  BY <1>1, <1>2 DEF Only, IsIdle
<1>4. \A q \in Threads : q # t => ReadsBack(call[q])' /\ ResetKnows(call[q])'
  <2> SUFFICES ASSUME NEW q \in Threads, q # t
               PROVE  ReadsBack(call[q])' /\ ResetKnows(call[q])'
    OBVIOUS
  <2>1. call'[q] = call[q] /\ call[q].pc = "idle" /\ call[q].op = "none"
    BY <1>1 DEF Only, IsIdle, PluginTypes, CallFits
  <2>2. QED
    BY <2>1 DEF ReadsBack, ResetKnows
<1>5. QED
  BY <1>2, <1>3, <1>4 DEF Alone

(* A call that begins has read nothing. *)
LEMMA ReadsBackNew ==
  ASSUME NEW t \in Threads, NEW op, NEW list \in {Params, Config}, NEW todo,
         list = Config => op \in {"check", "callback"} \/ (op = "reset" /\ todo = <<>>),
         call'[t] = Reading(op, list, todo)
  PROVE  ReadsBack(call[t])'
<1>1. call'[t].left = list /\ call'[t].op = op /\ call'[t].todo = todo
  BY DEF Reading
<1>2. Asked(call'[t]) \subseteq Open(call'[t])
  BY <1>1, OpenLists, ValuesAre DEF Asked
<1>3. QED
  BY <1>2 DEF ReadsBack, Asked, Open

(* Every step keeps it. *)
LEMMA NextAlone ==
  ASSUME PluginTypes, Alone, [Next]_vars
  PROVE  Alone'
<1>1. ASSUME NEW t \in Threads, Load(t) PROVE Alone'
  <2> DEFINE p == Head(call[t].left)
  <2>1. /\ call[t].left # <<>> /\ call[t].pc = "load" /\ p \in ParamNames
        /\ call'[t] = [call[t] EXCEPT !.left = Tail(@),
                         !.values = [@ EXCEPT ![p] = targets[p]]]
        /\ Only(t)
    BY <1>1, LoadFits DEF Only
  <2>2. UNCHANGED <<kind, targets, configuration>>
    BY <1>1 DEF Load, lifecycle
  <2>3. call[t] \in Calls
    BY DEF PluginTypes
  <2>4. /\ call[t].left \in Seq(ParamNames) /\ call[t].values \in [ParamNames -> {0, 1}]
    BY <2>3, ValuesAre DEF Calls
  <2>5. /\ call'[t].op = call[t].op /\ call'[t].todo = call[t].todo
        /\ call'[t].left = Tail(call[t].left)
        /\ \A q \in ParamNames :
             call'[t].values[q] = IF q = p THEN targets[q] ELSE call[t].values[q]
    BY <2>1, <2>3, <2>4 DEF Calls
  <2> HIDE DEF p
  <2>6. Open(call[t]) \subseteq Open(call'[t]) \cup {p}
    BY <2>1, <2>4, <2>5, OpenTail DEF p
  <2>7. Asked(call'[t]) = Asked(call[t]) /\ Asked(call[t]) \subseteq ParamNames
    BY <2>5, ValuesAre DEF Asked
  <2>8. ~IsIdle(t)
    BY <2>1 DEF IsIdle
  <2>9. ASSUME ~overlap PROVE ReadsBack(call[t])' /\ ResetKnows(call[t])'
    <3>1. ReadsBack(call[t]) /\ ResetKnows(call[t])
      BY <2>9 DEF Alone
    <3>2. ResetKnows(call[t])'
      BY <2>2, <2>5, <3>1 DEF ResetKnows, SameConfiguration
    <3>3. ASSUME NEW q \in Asked(call'[t]) \ Open(call'[t])
          PROVE  call'[t].values[q] = targets'[q]
      <4>1. q \in ParamNames /\ q \in Asked(call[t]) /\ (q = p \/ q \notin Open(call[t]))
        BY <2>6, <2>7, <3>3
      <4>2. q # p => call[t].values[q] = targets[q]
        BY <2>1, <3>1, <4>1 DEF ReadsBack
      <4>3. QED
        BY <2>2, <2>5, <4>1, <4>2
    <3>4. ReadsBack(call[t])'
      BY <3>3 DEF ReadsBack, Asked, Open
    <3>5. QED
      BY <3>2, <3>4
  <2>10. QED
    BY <2>1, <2>2, <2>8, <2>9, AloneThread
<1>2. ASSUME NEW t \in Threads, Store(t) PROVE Alone'
  <2>1. /\ call[t].pc = "store" /\ Only(t)
        /\ call'[t] = [call[t] EXCEPT !.left = Tail(@)]
    BY <1>2, StoreFits DEF Only
  <2>2. UNCHANGED kind
    BY <1>2 DEF Store
  <2> SUFFICES ASSUME ~overlap PROVE Alone'
    BY <2>2 DEF Alone, kind
  <2>3. /\ call[t].op \notin {"reset"} /\ call[t] \in Calls
    BY <2>1 DEF PluginTypes, CallFits
  <2>4. call'[t].pc = "store" /\ call'[t].op # "reset"
    BY <2>1, <2>3 DEF Calls
  <2>5. \A o \in Threads : o # t => IsIdle(o)
    BY <2>1, TwoThreads DEF Alone, IsIdle
  <2>6. \A o \in Threads : o # t => call'[o].pc = "idle" /\ call'[o].op = "none"
    BY <2>1, <2>5 DEF Only, IsIdle, PluginTypes, CallFits
  <2>7. \A o \in Threads : ReadsBack(call[o])' /\ ResetKnows(call[o])'
    BY <2>4, <2>6 DEF ReadsBack, ResetKnows
  <2>8. QED
    BY <2>6, <2>7, TwoThreads DEF Alone, IsIdle
<1>3. ASSUME NEW t \in Threads, Only(t), May(t) \/ ~IsIdle(t),
             UNCHANGED <<kind, targets, configuration>>,
             call'[t].pc # "load", call'[t].op # "reset"
      PROVE  Alone'
  <2>1. ReadsBack(call[t])' /\ ResetKnows(call[t])'
    BY <1>3 DEF ReadsBack, ResetKnows
  <2>2. QED
    BY <1>3, <2>1, AloneThread
<1>4. ASSUME NEW t \in Threads, Only(t), May(t) \/ ~IsIdle(t),
             UNCHANGED <<kind, targets, configuration>>,
             NEW op, NEW list \in {Params, Config}, NEW todo,
             list = Config =>
               op \in {"check", "callback"} \/ (op = "reset" /\ todo = <<>>),
             call'[t] = Reading(op, list, todo),
             op # "reset" \/ todo = <<>>
      PROVE  Alone'
  <2>1. ReadsBack(call[t])'
    BY <1>4, ReadsBackNew
  <2>2. ResetKnows(call[t])'
    BY <1>4 DEF ResetKnows, Reading
  <2>3. QED
    BY <1>4, <2>1, <2>2, AloneThread
<1>5. ASSUME NEW t \in Threads, Only(t), May(t),
              UNCHANGED <<kind, targets, configuration>>,
              NEW op \in {"edit", "flush", "process"}, NEW todo,
              call'[t] = Reading(op, Params, todo)
       PROVE  Alone'
  <2>1. Params # Config /\ op # "reset"
    BY DEF Params, Config
  <2>2. QED
    BY <1>4, <1>5, <2>1
<1>6. ASSUME NEW t \in Threads, Request(t) PROVE Alone'
  <2>1. /\ Only(t) /\ ~IsIdle(t) /\ UNCHANGED <<kind, targets, configuration>>
    BY <1>6, RequestFits DEF Unshared, lifecycle, IsIdle
  <2>2. ASSUME NEW op \in {"edit", "flush"}, NEW list, NEW v, NEW todo,
               call'[t] = Idle \/ call'[t] = Storing(op, list, v, todo)
        PROVE  Alone'
    <3>1. call'[t].pc # "load" /\ call'[t].op # "reset"
      BY <2>2 DEF Storing, Idle
    <3>2. QED
      BY <1>3, <2>1, <3>1
  <2>3. QED
    BY <1>6, <2>2, RequestFits
<1>7. ASSUME NEW t \in Threads, Stored(t) PROVE Alone'
  <2>1. /\ Only(t) /\ ~IsIdle(t) /\ UNCHANGED <<kind, targets, configuration>>
    BY <1>7, StoredFits DEF Unshared, lifecycle, IsIdle
  <2>2. CASE call'[t] = Idle
    BY <1>3, <2>1, <2>2 DEF Idle
  <2>3. CASE call'[t] = Reading("check", Config, <<>>)
    BY <1>4, <2>1, <2>3
  <2>4. QED
    BY <1>7, <2>2, <2>3, StoredFits
<1>8. ASSUME NEW t \in Threads, Checked(t) PROVE Alone'
  <2>1. /\ Only(t) /\ ~IsIdle(t) /\ UNCHANGED <<kind, targets, configuration>>
    BY <1>8, CheckedFits DEF lifecycle, IsIdle
  <2>2. call'[t] = Idle
    BY <1>8, CheckedFits
  <2>3. QED
    BY <1>3, <2>1, <2>2 DEF Idle
<1>9. CASE Edit
  <2>1. Only("main") /\ May("main") /\ UNCHANGED <<kind, targets, configuration>>
    BY <1>9, EditFits DEF Unshared, lifecycle
  <2>2. PICK todo \in GroupLists : call'["main"] = Reading("edit", Params, todo)
    BY <1>9, EditFits
  <2>3. QED
    BY <1>5, <2>1, <2>2, TwoThreads
<1>10. CASE Restore
  <2>1. Only("main") /\ May("main") /\ UNCHANGED <<kind, targets, configuration>>
    BY <1>10, RestoreFits DEF Unshared, lifecycle
  <2>2. PICK v \in Values : call'["main"] = Storing("restore", Params, v, <<>>)
    BY <1>10, RestoreFits
  <2>3. call'["main"].pc # "load" /\ call'["main"].op # "reset"
    BY <2>2 DEF Storing
  <2>4. QED
    BY <1>3, <2>1, <2>3, TwoThreads
<1>11. ASSUME NEW t \in Threads, FlushCall(t) PROVE Alone'
  <2>1. Only(t) /\ May(t) /\ UNCHANGED <<kind, targets, configuration>>
    BY <1>11, FlushFits DEF Unshared, lifecycle
  <2>2. PICK todo \in GroupLists : call'[t] = Reading("flush", Params, todo)
    BY <1>11, FlushFits
  <2>3. QED
    BY <1>5, <2>1, <2>2
<1>12. ASSUME UNCHANGED <<kind, targets, configuration, call>> PROVE Alone'
  BY <1>12 DEF Alone, kind, ReadsBack, ResetKnows, IsIdle, Asked, Open,
     SameConfiguration
<1>13. CASE Callback
  <2>1. Only("main") /\ May("main") /\ UNCHANGED <<kind, targets, configuration>>
    BY <1>13, CallbackFits DEF Unshared, lifecycle
  <2>2. CASE call'["main"] = Reading("callback", Config, <<>>)
    BY <1>4, <2>1, <2>2, TwoThreads
  <2>3. CASE call' = call
    BY <1>12, <2>1, <2>3
  <2>4. QED
    BY <1>13, <2>2, <2>3, CallbackFits
<1>14. CASE Activate
  <2>1. /\ Quiet /\ UNCHANGED <<kind, targets, call>>
    BY <1>14, ActivateFits
  <2>2. \A t \in Threads : call'[t].pc = "idle" /\ call'[t].op = "none"
    BY <2>1 DEF Quiet, IsIdle, PluginTypes, CallFits
  <2>3. QED
    BY <2>2, TwoThreads DEF Alone, ReadsBack, ResetKnows, IsIdle
<1>15. CASE Deactivate
  BY <1>12, <1>15, DeactivateFits
<1>16. CASE Processing
  BY <1>12, <1>16, ProcessingFits
<1>17. ASSUME NEW groups \in Batches, Process(groups) PROVE Alone'
  <2>1. Only("audio") /\ May("audio") /\ UNCHANGED <<kind, targets, configuration>>
    BY <1>17, ProcessFits DEF Same, lifecycle
  <2>2. call'["audio"] = Reading("process", Params, groups)
    BY <1>17, ProcessFits
  <2>3. QED
    BY <1>5, <2>1, <2>2, TwoThreads
<1>18. CASE Reset
  <2>1. Only("audio") /\ May("audio") /\ UNCHANGED <<kind, targets, configuration>>
    BY <1>18, ResetFits DEF Same, lifecycle
  <2>2. call'["audio"] = Reading("reset", Config, <<>>)
    BY <1>18, ResetFits
  <2>3. QED
    BY <1>4, <2>1, <2>2, TwoThreads
<1>19. CASE SegmentFails
  <2>1. /\ Only("audio") /\ ~IsIdle("audio")
        /\ UNCHANGED <<kind, targets, configuration>>
    BY <1>19, SegmentFailsFits DEF lifecycle, IsIdle
  <2>2. call'["audio"] = Idle
    BY <1>19, SegmentFailsFits
  <2>3. QED
    BY <1>3, <2>1, <2>2, TwoThreads DEF Idle
<1>20. CASE Decide
  <2>1. /\ Only("audio") /\ ~IsIdle("audio") /\ call["audio"].op = "process"
        /\ UNCHANGED <<kind, targets, configuration>>
    BY <1>20, DecideFits DEF Same, lifecycle, IsIdle
  <2>2. call["audio"] \in Calls
    BY TwoThreads DEF PluginTypes
  <2>3. call'["audio"].pc # "load" /\ call'["audio"].op # "reset"
    <3>1. ASSUME NEW v, call'["audio"] = [call["audio"] EXCEPT !.pc = "run",
                                            !.values = v]
          PROVE  call'["audio"].pc # "load" /\ call'["audio"].op # "reset"
      BY <2>1, <2>2, <3>1 DEF Calls
    <3>2. CASE call'["audio"] = Idle
      BY <3>2 DEF Idle
    <3>3. QED
      BY <1>20, <3>1, <3>2, DecideFits, Zenon
  <2>4. QED
    BY <1>3, <2>1, <2>3, TwoThreads
<1>21. CASE Group
  <2>1. /\ Only("audio") /\ ~IsIdle("audio")
        /\ UNCHANGED <<kind, targets, configuration>>
    BY <1>21, GroupFits DEF Same, lifecycle, IsIdle
  <2>2. call'["audio"].pc # "load" /\ call'["audio"].op # "reset"
    BY <1>21, GroupFits DEF Storing
  <2>3. QED
    BY <1>3, <2>1, <2>2, TwoThreads
<1>22. CASE GroupDone
  <2>1. /\ Only("audio") /\ ~IsIdle("audio") /\ call["audio"].op = "process"
        /\ UNCHANGED <<kind, targets, configuration>>
        /\ call'["audio"] = [call["audio"] EXCEPT !.pc = "run"]
    BY <1>22, GroupDoneFits DEF Same, lifecycle, IsIdle
  <2>2. call["audio"] \in Calls
    BY TwoThreads DEF PluginTypes
  <2>3. call'["audio"].pc # "load" /\ call'["audio"].op # "reset"
    BY <2>1, <2>2 DEF Calls
  <2>4. QED
    BY <1>3, <2>1, <2>3, TwoThreads
<1>23. CASE ProcessEnds
  <2>1. /\ Only("audio") /\ ~IsIdle("audio")
        /\ UNCHANGED <<kind, targets, configuration>>
    BY <1>23, ProcessEndsFits DEF Same, lifecycle, IsIdle
  <2>2. CASE call'["audio"] = Idle
    BY <1>3, <2>1, <2>2, TwoThreads DEF Idle
  <2>3. CASE call'["audio"] = Reading("check", Config, <<>>)
    BY <1>4, <2>1, <2>3, TwoThreads
  <2>4. QED
    BY <1>23, <2>2, <2>3, ProcessEndsFits
<1>24. CASE ResetReads
  <2>1. /\ Only("audio") /\ ~IsIdle("audio")
        /\ UNCHANGED <<kind, targets, configuration>>
    BY <1>24, ResetReadsFits DEF Same, lifecycle, IsIdle
  <2>2. CASE call'["audio"] = Idle
    BY <1>3, <2>1, <2>2, TwoThreads DEF Idle
  <2>3. ASSUME SameConfiguration(call["audio"].values, configuration),
               NEW todo \in GroupLists,
               call'["audio"] = Reading("reset", Params, todo)
        PROVE  Alone'
    <3>1. Params # Config
      BY DEF Params, Config
    <3>2. ReadsBack(call["audio"])'
      BY <2>3, <3>1, ReadsBackNew, TwoThreads
    <3>3. ~overlap => SameConfiguration(targets, configuration)
      <4> SUFFICES ASSUME ~overlap PROVE SameConfiguration(targets, configuration)
        OBVIOUS
      <4>1. /\ call["audio"].op = "reset" /\ call["audio"].pc = "load"
            /\ call["audio"].left = <<>> /\ call["audio"].todo = <<>>
        BY <1>24, ResetReadsFits
      <4>2. \A p \in ConfigNames : call["audio"].values[p] = targets[p]
        BY <4>1, OpenLists, TwoThreads DEF Alone, ReadsBack, Asked
      <4>3. QED
        BY <2>3, <4>2 DEF SameConfiguration, ConfigNames
    <3>4. ~overlap => ResetKnows(call["audio"])'
      BY <2>1, <3>3 DEF ResetKnows, SameConfiguration
    <3>5. QED
      BY <2>1, <3>2, <3>4, AloneThread, TwoThreads
  <2>4. QED
    BY <1>24, <2>2, <2>3, ResetReadsFits
<1>25. CASE ResetApplies
  <2>1. /\ Only("audio") /\ ~IsIdle("audio")
        /\ UNCHANGED <<kind, targets, configuration>>
    BY <1>25, ResetAppliesFits DEF lifecycle, IsIdle
  <2>2. call'["audio"] = Idle
    BY <1>25, ResetAppliesFits
  <2>3. QED
    BY <1>3, <2>1, <2>2, TwoThreads DEF Idle
<1>26. CASE UNCHANGED vars
  BY <1>12, <1>26 DEF vars, lifecycle
<1>27. QED
  BY <1>1, <1>2, <1>6, <1>7, <1>8, <1>9, <1>10, <1>11, <1>13, <1>14, <1>15,
     <1>16, <1>17, <1>18, <1>19, <1>20, <1>21, <1>22, <1>23, <1>24, <1>25,
     <1>26, TwoThreads DEF Next, Host, AudioStep, Step

-----------------------------------------------------------------------------
(* What the engine is given. *)

(* The groups that a block has not applied fit what it works on; in VST3   *)
(* this is what the engine has, and they change no configuration.          *)
FitsGroups(c) ==
  c.op = "process" /\ c.pc \in {"run", "store"} =>
    /\ GroupsValid(c.values, c.todo)
    /\ ~live => /\ c.values = audio /\ Automatable(c.todo)
                /\ Open(c) \cap ConfigNames = {}

EngineFits == AudioUsable /\ FitsGroups(call["audio"])

(* So does the engine's right to its values. *)
LEMMA UsableStays ==
  ASSUME AudioUsable, UNCHANGED <<kind, audio, configuration, active, split>>
  PROVE  AudioUsable'
  BY DEF AudioUsable, Valid, Accepts, SameConfiguration, kind

(* Valid values of the running configuration are ones its setters take. *)
LEMMA OwnAccepted ==
  ASSUME NEW v \in Values, Valid(v), SameConfiguration(v, configuration)
  PROVE  Accepts(v)
  BY DEF Accepts, Valid, SameConfiguration, Values

(* The engine is given valid values that its setters take. *)
LEMMA UsableNext ==
  ASSUME AudioUsable, UNCHANGED <<kind, configuration, active, split>>,
         active => /\ Valid(audio') /\ Accepts(audio')
                   /\ SameConfiguration(audio', configuration) \/ split
  PROVE  AudioUsable'
  BY DEF AudioUsable, Valid, Accepts, SameConfiguration, kind

(* The groups stay what they are while the engine's values do. *)
LEMMA SameGroups ==
  ASSUME EngineFits, UNCHANGED <<kind, audio, configuration, active, split>>,
         call'["audio"] = call["audio"]
         \/ call'["audio"].op # "process"
         \/ call'["audio"].pc \notin {"run", "store"}
  PROVE  EngineFits'
<1>1. AudioUsable'
  BY UsableStays DEF EngineFits
<1>2. CASE call'["audio"] = call["audio"]
  <2>1. FitsGroups(call["audio"])'
    BY <1>2 DEF EngineFits, FitsGroups, Open, kind
  <2>2. QED
    BY <1>1, <2>1 DEF EngineFits
<1>3. CASE \/ call'["audio"].op # "process"
           \/ call'["audio"].pc \notin {"run", "store"}
  BY <1>1, <1>3 DEF EngineFits, FitsGroups
<1>4. QED
  BY <1>2, <1>3

(* Changes that leave the configuration alone. *)
LEMMA AutomatableKeeps ==
  ASSUME NEW v \in Values, NEW groups \in GroupLists, groups # <<>>,
         Automatable(groups)
  PROVE  /\ SameConfiguration(With(v, Head(groups).changes), v)
         /\ Automatable(Tail(groups))
         /\ \A k \in DOMAIN Head(groups).changes :
              Head(groups).changes[k].index \notin ConfigNames
<1>1. /\ Len(groups) \in Nat \ {0} /\ DOMAIN groups = 1 .. Len(groups)
      /\ Head(groups) = groups[1]
      /\ Tail(groups) \in GroupLists /\ Len(Tail(groups)) = Len(groups) - 1
      /\ DOMAIN Tail(groups) = 1 .. Len(Tail(groups))
      /\ \A i \in 1 .. Len(Tail(groups)) : Tail(groups)[i] = groups[i + 1]
  <2>1. /\ Len(groups) \in Nat \ {0} /\ DOMAIN groups = 1 .. Len(groups)
    BY EmptySeq, LenProperties DEF GroupLists
  <2>2. /\ Tail(groups) \in GroupLists /\ Len(Tail(groups)) = Len(groups) - 1
        /\ \A i \in 1 .. Len(Tail(groups)) : Tail(groups)[i] = groups[i + 1]
    BY HeadTailProperties DEF GroupLists
  <2>3. DOMAIN Tail(groups) = 1 .. Len(Tail(groups))
    BY <2>2, LenProperties DEF GroupLists
  <2>4. Head(groups) = groups[1]
    BY DEF GroupLists
  <2>5. QED
    BY <2>1, <2>2, <2>3, <2>4
<1>2. \A k \in DOMAIN groups[1].changes :
        groups[1].changes[k].index \notin {"Backend", "Policy"}
  BY <1>1 DEF Automatable
<1>3. Automatable(Tail(groups))
  <2>1. \A n \in DOMAIN Tail(groups) : n + 1 \in DOMAIN groups
                                       /\ Tail(groups)[n] = groups[n + 1]
    BY <1>1
  <2>2. QED
    BY <2>1 DEF Automatable
<1>4. ASSUME NEW p \in ConfigNames PROVE With(v, groups[1].changes)[p] = v[p]
  <2>1. p \in ParamNames /\ \A k \in DOMAIN groups[1].changes : groups[1].changes[k].index # p
    BY <1>2, ValuesAre DEF ConfigNames
  <2>2. QED
    BY <2>1, WithElsewhere
<1>5. QED
  BY <1>1, <1>2, <1>3, <1>4 DEF SameConfiguration, ConfigNames

(* Every step keeps it. *)
LEMMA NextEngine ==
  ASSUME PluginTypes, Alone, EngineFits, [Next]_vars
  PROVE  EngineFits'
<1>1. /\ audio \in Values /\ configuration \in Values
      /\ call["audio"].values \in Values /\ call["audio"].todo \in GroupLists
      /\ call["audio"] \in Calls
  BY TwoThreads DEF PluginTypes, Calls
<1>2. CASE Decide
  <2> DEFINE c == call["audio"]
             start == Start(Requested)
             base == IF live THEN Requested ELSE start
  <2>1. UNCHANGED <<kind, configuration, active, split>>
    BY <1>2, DecideFits DEF Same, lifecycle, history
  <2>2. CASE call'["audio"] = Idle /\ audio' = audio
    BY <2>1, <2>2, SameGroups DEF Idle
  <2>3. CASE /\ Accepted(base, c.todo) /\ Accepts(start)
             /\ audio' = start
             /\ call'["audio"] = [c EXCEPT !.pc = "run", !.values = base]
    <3>1. Requested \in Values /\ start \in Values
      BY <1>1 DEF Requested, Start
    <3>2. active => SameConfiguration(start, configuration) \/ split
      BY DEF EngineFits, AudioUsable, Start
    <3>3. active => Valid(start)
      BY DEF EngineFits, AudioUsable, Start, Requested
    <3>4. AudioUsable'
      <4> HIDE DEF start, base
      <4>1. QED
        BY <2>1, <2>3, <3>2, <3>3, UsableNext DEF EngineFits
    <3>5. /\ call'["audio"].values = base /\ call'["audio"].todo = c.todo
          /\ call'["audio"].left = <<>>
      <4>1. c.left = <<>>
        BY <1>2, DecideFits
      <4> HIDE DEF base
      <4>2. QED
        BY <1>1, <2>3, <4>1 DEF Calls
    <3>6. /\ GroupsValid(base, c.todo) /\ (~live => base = start)
          /\ (~live => Automatable(c.todo))
      BY <2>3, Zenon DEF Accepted
    <3>7. FitsGroups(call["audio"])'
      <4>1. Open(call'["audio"]) = {}
        BY <3>5, OpenLists
      <4> HIDE DEF base, start
      <4>2. Open(call["audio"])' = {}
        BY <4>1 DEF Open
      <4>3. QED
        BY <2>1, <2>3, <3>5, <3>6, <4>2 DEF FitsGroups, kind
    <3>8. QED
      BY <3>4, <3>7 DEF EngineFits
  <2>4. QED
    BY <1>2, <2>2, <2>3, DecideFits
<1>3. CASE Group
  <2> DEFINE c == call["audio"]
             changes == Head(c.todo).changes
             from == IF live THEN c.values ELSE audio
             next == With(from, changes)
  <2>1. /\ c.op = "process" /\ c.pc = "run" /\ c.todo # <<>>
        /\ changes \in Seq(Change)
        /\ UNCHANGED <<kind, configuration, active, split>>
        /\ audio' = IF ~live \/ SameConfiguration(next, configuration)
                    THEN next ELSE audio
        /\ call'["audio"] = Storing("process", Names(changes), next, Tail(c.todo))
    BY <1>3, GroupFits, Zenon DEF Same, lifecycle, history
  <2>2. GroupsValid(c.values, c.todo)
        /\ (~live => c.values = audio /\ Automatable(c.todo))
    BY <2>1 DEF EngineFits, FitsGroups
  <2>3. from = c.values
    BY <2>2
  <2>4. next \in Values /\ Valid(next) /\ GroupsValid(next, Tail(c.todo))
    <3> DEFINE v == c.values
               g == c.todo
    <3>1. v \in Values /\ g \in GroupLists /\ g # <<>> /\ GroupsValid(v, g)
      BY <1>1, <2>1, <2>2
    <3>2. next = With(v, Head(g).changes)
      BY <2>3
    <3> HIDE DEF v, g, next
    <3>3. next \in Values /\ Valid(next) /\ GroupsValid(next, Tail(g))
      BY <3>1, <3>2, RestValid
    <3>4. QED
      BY <3>3 DEF g
  <2>5. ~live => /\ SameConfiguration(next, audio) /\ Automatable(Tail(c.todo))
                 /\ \A k \in DOMAIN changes : changes[k].index \notin ConfigNames
    <3> SUFFICES ASSUME ~live
                 PROVE  /\ SameConfiguration(next, audio) /\ Automatable(Tail(c.todo))
                        /\ \A k \in DOMAIN changes : changes[k].index \notin ConfigNames
      OBVIOUS
    <3> DEFINE g == c.todo
    <3>1. g \in GroupLists /\ g # <<>> /\ Automatable(g)
      BY <1>1, <2>1, <2>2
    <3>2. next = With(audio, Head(g).changes) /\ changes = Head(g).changes
      OBVIOUS
    <3> HIDE DEF g, next, changes
    <3>3. /\ SameConfiguration(next, audio) /\ Automatable(Tail(g))
          /\ \A k \in DOMAIN changes : changes[k].index \notin ConfigNames
      BY <1>1, <3>1, <3>2, AutomatableKeeps
    <3>4. QED
      BY <3>3 DEF g
  <2> DEFINE list == Names(changes)
  <2>6. ~live => {list[i] : i \in DOMAIN list} \cap ConfigNames = {}
    <3>1. /\ DOMAIN list = DOMAIN changes
          /\ \A k \in DOMAIN changes : list[k] = changes[k].index
      BY <2>1, NamesType
    <3> HIDE DEF list, changes
    <3>2. QED
      BY <2>5, <3>1
  <2> HIDE DEF next, changes, from, list
  <2>7. AudioUsable'
    <3>1. ~live /\ active => SameConfiguration(next, configuration)
      BY <2>5 DEF EngineFits, AudioUsable, SameConfiguration
    <3>2. CASE ~active
      BY <2>1, <3>2, UsableNext DEF EngineFits
    <3>3. CASE active /\ SameConfiguration(next, configuration)
      <4>1. Accepts(next) /\ audio' = next
        BY <2>1, <2>4, <3>3, OwnAccepted
      <4>2. QED
        BY <2>1, <2>4, <3>3, <4>1, UsableNext DEF EngineFits
    <3>4. CASE active /\ ~SameConfiguration(next, configuration)
      <4>1. audio' = audio
        BY <2>1, <3>1, <3>4
      <4>2. QED
        BY <2>1, <4>1, UsableStays DEF EngineFits
    <3>5. QED
      BY <3>2, <3>3, <3>4
  <2>8. call'["audio"].values = next /\ call'["audio"].todo = Tail(c.todo)
        /\ Open(call["audio"])' = {list[i] : i \in DOMAIN list}
    BY <2>1 DEF Storing, Open, list
  <2>9. FitsGroups(call["audio"])'
    BY <2>1, <2>4, <2>5, <2>6, <2>8 DEF FitsGroups, kind
  <2>10. QED
    BY <2>7, <2>9 DEF EngineFits
<1>4. CASE GroupDone
  <2> DEFINE c == call["audio"]
  <2>1. /\ c.op = "process" /\ c.pc = "store"
        /\ call'["audio"] = [c EXCEPT !.pc = "run"]
        /\ UNCHANGED <<kind, audio, configuration, active, split>>
    BY <1>4, GroupDoneFits DEF Same, lifecycle, history
  <2>2. /\ call'["audio"].values = c.values /\ call'["audio"].todo = c.todo
        /\ call'["audio"].left = c.left
    BY <1>1, <2>1 DEF Calls
  <2>3. AudioUsable'
    BY <2>1, UsableStays DEF EngineFits
  <2>4. FitsGroups(call["audio"])'
    BY <2>1, <2>2 DEF EngineFits, FitsGroups, Open, kind
  <2>5. QED
    BY <2>3, <2>4 DEF EngineFits
<1>5. CASE ResetApplies
  <2> DEFINE c == call["audio"]
  <2>1. /\ live /\ call'["audio"] = Idle
        /\ c.op = "reset" /\ c.pc = "load" /\ c.left = <<>> /\ c.todo # <<>>
        /\ UNCHANGED <<kind, configuration, active>>
        /\ \/ /\ Valid(c.values) /\ Accepts(c.values) /\ audio' = c.values
              /\ split' = ~SameConfiguration(c.values, configuration)
           \/ UNCHANGED <<audio, split>>
    BY <1>5, ResetAppliesFits, Zenon DEF lifecycle
  <2>2. ~overlap => SameConfiguration(c.values, configuration)
    <3> SUFFICES ASSUME ~overlap PROVE SameConfiguration(c.values, configuration)
      OBVIOUS
    <3>1. ReadsBack(c) /\ ResetKnows(c)
      BY TwoThreads DEF Alone
    <3>2. SameConfiguration(targets, configuration)
      BY <2>1, <3>1 DEF ResetKnows
    <3>3. \A p \in ParamNames : c.values[p] = targets[p]
      BY <2>1, <3>1, OpenLists DEF ReadsBack, Asked
    <3>4. QED
      BY <3>2, <3>3 DEF SameConfiguration, ParamNames
  <2>3. AudioUsable'
    <3>1. CASE UNCHANGED <<audio, split>>
      BY <2>1, <3>1, UsableStays DEF EngineFits
    <3>2. CASE /\ Valid(c.values) /\ Accepts(c.values) /\ audio' = c.values
               /\ split' = ~SameConfiguration(c.values, configuration)
      <4>1. Valid(audio)' /\ Accepts(audio)'
        BY <2>1, <3>2 DEF Valid, Accepts
      <4>2. SameConfiguration(audio, configuration)' \/ split'
        BY <2>1, <3>2 DEF SameConfiguration
      <4>3. split' => live' /\ overlap'
        <5>1. live' = live /\ overlap' = overlap
          BY <2>1 DEF kind
        <5>2. split' => overlap
          BY <2>2, <3>2
        <5>3. QED
          BY <2>1, <5>1, <5>2
      <4>4. QED
        BY <4>1, <4>2, <4>3 DEF AudioUsable
    <3>3. QED
      BY <2>1, <3>1, <3>2, Zenon
  <2>4. FitsGroups(call["audio"])'
    BY <2>1 DEF FitsGroups, Idle
  <2>5. QED
    BY <2>3, <2>4 DEF EngineFits
<1>6. CASE Activate
  <2>1. /\ Valid(targets) /\ configuration' = targets /\ audio' = targets
        /\ call' = call /\ Quiet /\ split' = FALSE /\ targets \in Values
    BY <1>6, ActivateFits DEF PluginTypes
  <2>2. call'["audio"].op = "none"
    BY <2>1, TwoThreads DEF Quiet, IsIdle, PluginTypes, CallFits
  <2>3. AudioUsable'
    BY <2>1 DEF AudioUsable, Valid, Accepts, SameConfiguration, Values
  <2>4. QED
    BY <2>2, <2>3 DEF EngineFits, FitsGroups
<1>7. CASE Deactivate
  <2>1. /\ active' = FALSE /\ UNCHANGED <<kind, audio, call, split>>
    BY <1>7, DeactivateFits DEF history
  <2>2. QED
    BY <2>1 DEF EngineFits, AudioUsable, FitsGroups, Open, kind
<1>8. CASE Processing
  BY <1>8, ProcessingFits, SameGroups DEF history
<1>9. ASSUME NEW t \in Threads, Load(t) PROVE EngineFits'
  <2>1. UNCHANGED <<kind, audio, configuration, active, split>>
    BY <1>9 DEF Load, lifecycle, history
  <2>2. call[t].pc = "load" /\ Only(t) /\ call[t] \in Calls
        /\ call'[t] = [call[t] EXCEPT !.left = Tail(@),
                          !.values = [@ EXCEPT ![Head(call[t].left)]
                                                 = targets[Head(call[t].left)]]]
    BY <1>9, LoadFits DEF Only, PluginTypes
  <2>3. call'[t].pc = "load"
    BY <2>2 DEF Calls
  <2>4. QED
    BY <2>1, <2>2, <2>3, SameGroups, TwoThreads DEF Only
<1>10. ASSUME NEW t \in Threads, Store(t) PROVE EngineFits'
  <2>1. UNCHANGED <<kind, audio, configuration, active, split>>
    BY <1>10 DEF Store, lifecycle, history
  <2>2. /\ call[t].pc = "store" /\ Only(t) /\ call[t] \in Calls
        /\ call[t].left # <<>>
        /\ call'[t] = [call[t] EXCEPT !.left = Tail(@)]
    BY <1>10, StoreFits DEF Only, PluginTypes
  <2>3. CASE t = "main"
    <3>1. call'["audio"] = call["audio"]
      BY <2>2, <2>3, TwoThreads DEF Only
    <3>2. QED
      BY <2>1, <3>1, SameGroups
  <2>4. CASE t = "audio"
    <3> DEFINE c == call["audio"]
               d == call'["audio"]
    <3>1. /\ d.op = c.op /\ d.pc = c.pc /\ d.values = c.values /\ d.todo = c.todo
          /\ d.left = Tail(c.left) /\ c.left \in Seq(ParamNames) /\ c.left # <<>>
      BY <2>2, <2>4 DEF Calls
    <3>2. Open(d) \subseteq Open(c)
      BY <3>1, OpenTail
    <3>3. Open(call["audio"])' \subseteq Open(call["audio"])
      BY <3>2 DEF Open
    <3>4. FitsGroups(call["audio"])'
      BY <2>1, <3>1, <3>3 DEF EngineFits, FitsGroups, kind
    <3>5. AudioUsable'
      BY <2>1, UsableStays DEF EngineFits
    <3>6. QED
      BY <3>4, <3>5 DEF EngineFits
  <2>5. QED
    BY <2>3, <2>4, TwoThreads
<1>11. ASSUME NEW t \in Threads, Only(t),
              UNCHANGED <<kind, audio, configuration, active, split>>,
              \/ call'[t].op # "process"
              \/ call'[t].pc \notin {"run", "store"}
       PROVE  EngineFits'
  BY <1>11, SameGroups, TwoThreads DEF Only
<1>12. ASSUME NEW t \in Threads, Request(t) PROVE EngineFits'
  <2>1. Only(t) /\ UNCHANGED <<kind, audio, configuration, active, split>>
    BY <1>12, RequestFits DEF Unshared, lifecycle, history
  <2>2. ASSUME NEW op \in {"edit", "flush"}, NEW list, NEW v, NEW todo,
               call'[t] = Idle \/ call'[t] = Storing(op, list, v, todo)
        PROVE  EngineFits'
    <3>1. call'[t].op # "process"
      BY <2>2 DEF Storing, Idle
    <3>2. QED
      BY <1>11, <2>1, <3>1
  <2>3. QED
    BY <1>12, <2>2, RequestFits
<1>13. ASSUME NEW t \in Threads, Stored(t) \/ Checked(t) \/ FlushCall(t)
       PROVE  EngineFits'
  <2>1. Only(t) /\ UNCHANGED <<kind, audio, configuration, active, split>>
    BY <1>13, StoredFits, CheckedFits, FlushFits DEF Unshared, lifecycle, history
  <2>2. CASE Stored(t) \/ Checked(t)
    <3>1. call'[t].op # "process"
      BY <2>2, StoredFits, CheckedFits DEF Reading, Idle
    <3>2. QED
      BY <1>11, <2>1, <3>1
  <2>3. CASE FlushCall(t)
    <3>1. PICK groups \in GroupLists : call'[t] = Reading("flush", Params, groups)
      BY <2>3, FlushFits
    <3>2. call'[t].op # "process"
      BY <3>1 DEF Reading
    <3>3. QED
      BY <1>11, <2>1, <3>2
  <2>4. QED
    BY <1>13, <2>2, <2>3
<1>14. CASE Edit \/ Restore \/ Callback
  <2>1. /\ UNCHANGED <<kind, audio, configuration, active, split>>
        /\ call'["audio"] = call["audio"]
    BY <1>14, EditFits, RestoreFits, CallbackFits, TwoThreads
       DEF Unshared, lifecycle, history, Only
  <2>2. QED
    BY <2>1, SameGroups
<1>15. ASSUME NEW groups \in Batches, Process(groups) PROVE EngineFits'
  <2>1. Only("audio") /\ UNCHANGED <<kind, audio, configuration, active, split>>
    BY <1>15, ProcessFits DEF Same, lifecycle, history
  <2>2. call'["audio"] = Reading("process", Params, groups)
    BY <1>15, ProcessFits
  <2>3. call'["audio"].pc = "load"
    BY <2>2 DEF Reading
  <2>4. QED
    BY <2>1, <2>3, SameGroups
<1>16. CASE Reset \/ SegmentFails \/ ProcessEnds \/ ResetReads
  <2>1. UNCHANGED <<kind, audio, configuration, active, split>>
    BY <1>16, ResetFits, SegmentFailsFits, ProcessEndsFits, ResetReadsFits
       DEF Same, lifecycle, history
  <2>2. ASSUME NEW op \in {"reset", "check"}, NEW list, NEW todo,
               call'["audio"] = Idle \/ call'["audio"] = Reading(op, list, todo)
        PROVE  EngineFits'
    <3>1. call'["audio"].op # "process"
      BY <2>2 DEF Reading, Idle
    <3>2. QED
      BY <2>1, <3>1, SameGroups
  <2>3. CASE Reset
    BY <2>2, <2>3, ResetFits
  <2>4. CASE SegmentFails
    BY <2>2, <2>4, SegmentFailsFits
  <2>5. CASE ProcessEnds
    BY <2>2, <2>5, ProcessEndsFits
  <2>6. CASE ResetReads
    BY <2>2, <2>6, ResetReadsFits
  <2>7. QED
    BY <1>16, <2>3, <2>4, <2>5, <2>6
<1>17. CASE UNCHANGED vars
  BY <1>17, SameGroups DEF vars, lifecycle, history
<1>18. QED
  BY <1>2, <1>3, <1>4, <1>5, <1>6, <1>7, <1>8, <1>9, <1>10, <1>12, <1>13,
     <1>14, <1>15, <1>16, <1>17, TwoThreads DEF Next, Host, AudioStep, Step

(* The types, and calls that are alone. *)
LEMMA InitAlone == Init => Alone /\ EngineFits
<1> SUFFICES ASSUME Init PROVE Alone /\ EngineFits
  OBVIOUS
<1>1. \A t \in Threads : call[t].pc = "idle" /\ call[t].op = "none"
  BY DEF Init, Idle
<1>2. Alone
  BY <1>1, TwoThreads DEF Alone, IsIdle, ReadsBack, ResetKnows
<1>3. EngineFits
  <2>1. AudioUsable
    BY DEF AudioUsable, Init
  <2>2. QED
    BY <1>1, <2>1, TwoThreads DEF EngineFits, FitsGroups
<1>4. QED
  BY <1>2, <1>3

(* Both hold in every state. *)
LEMMA EngineHolds == Spec => [](PluginTypes /\ Alone /\ EngineFits)
<1>1. PluginTypes /\ Alone /\ EngineFits /\ [Next]_vars
        => Alone' /\ EngineFits'
  BY NextAlone, NextEngine
<1>2. QED
  BY <1>1, InitAlone, PluginTyped, PTL DEF Spec

(* Whatever a snapshot shows of a set that is being stored, and whenever    *)
(* the engine is reset: what it was last given is valid, its setters take   *)
(* it, and it is of the configuration the engine was built for, unless      *)
(* another thread stored values while a reset() looked at them twice.       *)
THEOREM AudioStaysUsable == Spec => []AudioUsable
<1>1. EngineFits => AudioUsable
  BY DEF EngineFits
<1>2. QED
  BY <1>1, EngineHolds, PTL

(* Once process() has begun to publish, no group of the block is refused,  *)
(* for every list of groups: what is left is valid on what was published.  *)
THEOREM GroupsNeverRefused == Spec => []GroupsStayValid
<1>1. EngineFits => GroupsStayValid
  BY DEF EngineFits, FitsGroups, GroupsStayValid
<1>2. QED
  BY <1>1, EngineHolds, PTL

-----------------------------------------------------------------------------
(* What a call of a CLAP plugin that nothing overlaps knows of the targets: *)
(* the audio thread's groups are applied to them, and a set of values that  *)
(* is being stored is valid, and theirs but for what is still to be stored. *)
SettledBy(c) ==
  /\ c.pc = "run" => c.values = targets
  /\ c.pc = "store" =>
       Valid(c.values) /\ \A p \in ParamNames \ Open(c) : c.values[p] = targets[p]

(* The targets are valid together but while a set is being stored. *)
Settled ==
  live /\ ~overlap =>
    /\ (\A t \in Threads : call[t].pc # "store") => Valid(targets)
    /\ \A t \in Threads : SettledBy(call[t])

(* Values that agree on every parameter are the same. *)
LEMMA SameValues ==
  ASSUME NEW v \in Values, NEW w \in Values, \A p \in ParamNames : v[p] = w[p]
  PROVE  v = w
  BY ValuesAre

(* A step of a thread that is alone. *)
LEMMA SettledThread ==
  ASSUME PluginTypes, Alone, NEW t \in Threads, Only(t), UNCHANGED kind,
         May(t) \/ ~IsIdle(t),
         live /\ ~overlap => /\ SettledBy(call[t])'
                             /\ call'[t].pc # "store" => Valid(targets')
  PROVE  Settled'
<1> SUFFICES ASSUME live, ~overlap PROVE Settled'
  BY DEF Settled, kind
<1>1. \A o \in Threads : o # t => IsIdle(o)
  BY TwoThreads DEF Alone, May
<1>2. ASSUME NEW o \in Threads, o # t PROVE SettledBy(call[o])'
  <2>1. call'[o].pc = "idle"
    BY <1>1, <1>2 DEF Only, IsIdle
  <2>2. QED
    BY <2>1 DEF SettledBy
<1>3. \A o \in Threads : SettledBy(call[o])'
  BY <1>2
<1>4. (\A o \in Threads : call'[o].pc # "store") => Valid(targets')
  OBVIOUS
<1>5. QED
  BY <1>3, <1>4 DEF Settled

(* While the only call stores nothing, the targets are valid. *)
LEMMA SettledNow ==
  ASSUME Alone, Settled, live, ~overlap, NEW t \in Threads,
         May(t) \/ ~IsIdle(t), call[t].pc # "store"
  PROVE  Valid(targets)
<1>1. \A o \in Threads : o # t => call[o].pc = "idle"
  BY TwoThreads DEF Alone, May, IsIdle
<1>2. \A o \in Threads : call[o].pc # "store"
  BY <1>1
<1>3. QED
  BY <1>2 DEF Settled

(* A call that neither stored nor will store next changes nothing here. *)
LEMMA SettledReading ==
  ASSUME PluginTypes, Alone, Settled, NEW t \in Threads, Only(t),
         UNCHANGED <<kind, targets>>, May(t) \/ ~IsIdle(t),
         call[t].pc # "store", call'[t].pc \notin {"run", "store"}
  PROVE  Settled'
<1>1. live /\ ~overlap => Valid(targets')
  BY SettledNow
<1>2. SettledBy(call[t])'
  BY DEF SettledBy
<1>3. QED
  BY <1>1, <1>2, SettledThread

(* One that begins to store what it read, but for changes of what it will *)
(* store.                                                                 *)
LEMMA SettledStoring ==
  ASSUME PluginTypes, Alone, Settled, NEW t \in Threads, Only(t),
         UNCHANGED <<kind, targets>>, May(t) \/ ~IsIdle(t),
         NEW op, NEW list, NEW v, NEW todo, Valid(v),
         call'[t] = Storing(op, list, v, todo),
         live /\ ~overlap =>
           \A p \in ParamNames :
             p \in {list[i] : i \in DOMAIN list} \/ v[p] = targets[p]
  PROVE  Settled'
<1>1. /\ call'[t].pc = "store" /\ call'[t].left = list /\ call'[t].values = v
  BY DEF Storing
<1>2. Open(call[t])' = {list[i] : i \in DOMAIN list}
  BY <1>1 DEF Open
<1>3. live /\ ~overlap => SettledBy(call[t])'
  <2> SUFFICES ASSUME live, ~overlap PROVE SettledBy(call[t])'
    OBVIOUS
  <2>1. \A p \in ParamNames \ Open(call[t])' : call'[t].values[p] = targets'[p]
    BY <1>1, <1>2
  <2>2. QED
    BY <1>1, <2>1 DEF SettledBy
<1>4. QED
  BY <1>1, <1>3, SettledThread

(* The values of a call that has read everything are the targets. *)
LEMMA ReadAll ==
  ASSUME PluginTypes, Alone, ~overlap, NEW t \in Threads,
         call[t].pc = "load", call[t].left = <<>>,
         call[t].op \in {"edit", "flush", "process"}
  PROVE  call[t].values = targets
<1>1. Open(call[t]) = {} /\ Asked(call[t]) = ParamNames
  BY OpenLists DEF Asked
<1>2. \A p \in ParamNames : call[t].values[p] = targets[p]
  BY <1>1 DEF Alone, ReadsBack
<1>3. QED
  BY <1>2, SameValues DEF PluginTypes, Calls

(* Those of one that has stored everything are, too. *)
LEMMA StoredAll ==
  ASSUME PluginTypes, Settled, live, ~overlap, NEW t \in Threads,
         call[t].pc = "store", call[t].left = <<>>
  PROVE  call[t].values = targets /\ Valid(targets)
<1>1. Open(call[t]) = {}
  BY OpenLists
<1>2. /\ Valid(call[t].values)
      /\ \A p \in ParamNames : call[t].values[p] = targets[p]
  BY <1>1 DEF Settled, SettledBy
<1>3. QED
  BY <1>2, SameValues DEF PluginTypes, Calls

(* The parameters a list of changes does not name keep their values. *)
LEMMA NamedOnly ==
  ASSUME NEW v \in Values, NEW changes \in Seq(Change), NEW p \in ParamNames
  PROVE  \/ p \in {Names(changes)[i] : i \in DOMAIN Names(changes)}
         \/ With(v, changes)[p] = v[p]
<1> SUFFICES ASSUME p \notin {Names(changes)[i] : i \in DOMAIN Names(changes)}
             PROVE  With(v, changes)[p] = v[p]
  OBVIOUS
<1>1. \A k \in DOMAIN changes : changes[k].index # p
  BY NamesType
<1>2. QED
  BY <1>1, WithElsewhere

(* One value is stored. *)
LEMMA StoreSettles ==
  ASSUME PluginTypes, Alone, Settled, NEW t \in Threads, Store(t)
  PROVE  Settled'
<1> DEFINE c == call[t]
           d == call'[t]
           h == Head(c.left)
<1>1. /\ c.pc = "store" /\ c.left # <<>> /\ h \in ParamNames /\ c \in Calls
      /\ targets' = [targets EXCEPT ![h] = c.values[h]]
      /\ d = [c EXCEPT !.left = Tail(@)] /\ Only(t)
  BY StoreFits DEF Only, PluginTypes
<1>2. UNCHANGED kind /\ ~IsIdle(t)
  BY <1>1 DEF Store, IsIdle
<1>3. /\ d.pc = "store" /\ d.values = c.values /\ d.left = Tail(c.left)
      /\ c.left \in Seq(ParamNames)
  BY <1>1 DEF Calls
<1>4. Open(c) \subseteq Open(d) \cup {h}
  BY <1>1, <1>3, OpenTail
<1>5. ASSUME live, ~overlap PROVE SettledBy(call[t])'
  <2>1. Valid(c.values) /\ \A p \in ParamNames \ Open(c) : c.values[p] = targets[p]
    BY <1>1, <1>5 DEF Settled, SettledBy
  <2>2. ASSUME NEW p \in ParamNames \ Open(d) PROVE d.values[p] = targets'[p]
    <3>1. p = h \/ p \notin Open(c)
      BY <1>4, <2>2
    <3>2. targets'[p] = IF p = h THEN c.values[h] ELSE targets[p]
      BY <1>1, <2>2, ValuesAre DEF PluginTypes
    <3>3. QED
      BY <1>3, <2>1, <2>2, <3>1, <3>2
  <2>3. \A p \in ParamNames \ Open(call[t])' : call'[t].values[p] = targets'[p]
    BY <2>2 DEF Open
  <2>4. QED
    BY <1>3, <2>1, <2>3 DEF SettledBy
<1>6. QED
  BY <1>1, <1>2, <1>3, <1>5, SettledThread

(* A request that is valid begins to be stored. *)
LEMMA RequestSettles ==
  ASSUME PluginTypes, Alone, Settled, NEW t \in Threads, Request(t)
  PROVE  Settled'
<1> DEFINE c == call[t]
           next == After(c.values, c.todo, Len(c.todo))
<1>1. /\ Only(t) /\ UNCHANGED <<kind, targets>> /\ c.pc = "load"
      /\ c.left = <<>> /\ c.op \in {"edit", "flush"} /\ ~IsIdle(t)
  BY RequestFits DEF Unshared, IsIdle
<1>2. CASE call'[t] = Idle
  BY <1>1, <1>2, SettledReading DEF Idle
<1>3. CASE /\ Valid(next) /\ c.op = "flush"
           /\ call'[t] = Storing("flush", Params, next, <<>>)
  BY <1>1, <1>3, Lists, SettledStoring
<1>4. CASE /\ Valid(next) /\ c.op = "edit"
           /\ call'[t] = Storing("edit", Names(c.todo[1].changes), next, <<>>)
  <2> DEFINE changes == c.todo[1].changes
  <2>1. /\ Len(c.todo) = 1 /\ c.values \in Values /\ c.todo \in GroupLists
    BY <1>1, <1>4 DEF PluginTypes, CallFits, Calls
  <2>2. changes \in Seq(Change)
    <3>1. 1 \in DOMAIN c.todo
      BY <2>1 DEF GroupLists
    <3> DEFINE s == c.todo
    <3>2. s \in GroupLists /\ 1 \in DOMAIN s
      BY <2>1, <3>1
    <3> HIDE DEF s
    <3>3. s[1] \in [at : Nat, changes : Seq(Change)]
      BY <3>2, ElementOfSeq, LenProperties DEF GroupLists
    <3>4. s[1].changes \in Seq(Change)
      BY <3>3
    <3>5. QED
      BY <3>4 DEF s
  <2>3. next = With(c.values, changes)
    <3>1. 1 = 0 + 1 /\ 0 \in Nat
      OBVIOUS
    <3>2. QED
      BY <2>1, <3>1, AfterIs
  <2>4. ~overlap => c.values = targets
    BY <1>1, ReadAll
  <2>5. \A p \in ParamNames :
          \/ p \in {Names(changes)[i] : i \in DOMAIN Names(changes)}
          \/ next[p] = c.values[p]
    BY <2>1, <2>2, <2>3, NamedOnly
  <2> HIDE DEF changes, next
  <2>6. QED
    BY <1>1, <1>4, <2>4, <2>5, SettledStoring DEF changes
<1>5. QED
  BY <1>2, <1>3, <1>4, RequestFits

(* A group of process() begins to be published. *)
LEMMA GroupSettles ==
  ASSUME PluginTypes, Alone, EngineFits, Settled, Group
  PROVE  Settled'
<1> SUFFICES ASSUME live, ~overlap PROVE Settled'
  BY GroupFits DEF Settled, Same, kind
<1> DEFINE c == call["audio"]
           changes == Head(c.todo).changes
           next == With(c.values, changes)
<1>1. /\ Only("audio") /\ UNCHANGED <<kind, targets>> /\ c.op = "process"
      /\ c.pc = "run" /\ c.todo # <<>> /\ ~IsIdle("audio")
      /\ changes \in Seq(Change)
      /\ call'["audio"] = Storing("process", Names(changes), next, Tail(c.todo))
  BY GroupFits DEF Same, IsIdle
<1>2. c.values \in Values /\ c.todo \in GroupLists
  BY TwoThreads DEF PluginTypes, Calls
<1>3. Valid(next)
  <2>1. GroupsValid(c.values, c.todo)
    BY <1>1 DEF EngineFits, FitsGroups
  <2>2. QED
    BY <1>1, <1>2, <2>1, RestValid
<1>4. c.values = targets
  BY <1>1, TwoThreads DEF Settled, SettledBy
<1>5. \A p \in ParamNames :
        \/ p \in {Names(changes)[i] : i \in DOMAIN Names(changes)}
        \/ next[p] = c.values[p]
  BY <1>1, <1>2, NamedOnly
<1> HIDE DEF changes, next
<1>6. QED
  BY <1>1, <1>3, <1>4, <1>5, TwoThreads, SettledStoring

(* process() decides on what it read. *)
LEMMA DecideSettles ==
  ASSUME PluginTypes, Alone, Settled, Decide
  PROVE  Settled'
<1> DEFINE c == call["audio"]
           base == IF live THEN Requested ELSE Start(Requested)
<1>1. /\ Only("audio") /\ UNCHANGED <<kind, targets>> /\ c.op = "process"
      /\ c.pc = "load" /\ c.left = <<>> /\ ~IsIdle("audio")
  BY DecideFits DEF Same, IsIdle
<1>2. CASE call'["audio"] = Idle
  BY <1>1, <1>2, TwoThreads, SettledReading DEF Idle
<1>3. CASE call'["audio"] = [c EXCEPT !.pc = "run", !.values = base]
  <2>1. call'["audio"].pc = "run" /\ call'["audio"].values = base
    BY <1>3, TwoThreads DEF PluginTypes, Calls
  <2>2. ASSUME live, ~overlap PROVE Valid(targets) /\ base = targets
    <3>1. c.values = targets
      BY <1>1, <2>2, TwoThreads, ReadAll
    <3>2. Valid(targets)
      BY <1>1, <2>2, TwoThreads, SettledNow
    <3>3. QED
      BY <2>2, <3>1, <3>2 DEF Requested
  <2>3. live /\ ~overlap => SettledBy(call["audio"])' /\ Valid(targets')
    BY <1>1, <2>1, <2>2 DEF SettledBy
  <2>4. QED
    BY <1>1, <2>3, TwoThreads, SettledThread
<1>4. QED
  BY <1>2, <1>3, DecideFits

(* A call that stored everything goes on. *)
LEMMA StoredSettles ==
  ASSUME PluginTypes, Alone, Settled, NEW t \in Threads, Only(t),
         UNCHANGED <<kind, targets>>, call[t].pc = "store",
         call[t].left = <<>>, call'[t].pc # "store",
         call'[t].pc = "run" => call'[t].values = call[t].values
  PROVE  Settled'
<1>1. ~IsIdle(t)
  BY DEF IsIdle
<1>2. live /\ ~overlap => call[t].values = targets /\ Valid(targets)
  BY StoredAll
<1>3. live /\ ~overlap => SettledBy(call[t])' /\ Valid(targets')
  BY <1>2 DEF SettledBy
<1>4. QED
  BY <1>1, <1>3, SettledThread

(* Every step keeps it. *)
LEMMA NextSettled ==
  ASSUME PluginTypes, Alone, EngineFits, Settled, [Next]_vars
  PROVE  Settled'
<1>1. ASSUME UNCHANGED <<kind, targets, call>> PROVE Settled'
  BY <1>1 DEF Settled, SettledBy, Open, kind
<1>2. CASE Activate
  BY <1>1, <1>2, ActivateFits
<1>3. CASE Deactivate
  BY <1>1, <1>3, DeactivateFits
<1>4. CASE Processing
  BY <1>1, <1>4, ProcessingFits
<1>5. ASSUME NEW t \in Threads, Load(t) PROVE Settled'
  <2>1. call[t].pc = "load" /\ call'[t].pc = "load" /\ Only(t)
    BY <1>5, LoadFits DEF Only, PluginTypes, Calls
  <2>2. UNCHANGED <<kind, targets>> /\ ~IsIdle(t)
    BY <1>5, <2>1 DEF Load, IsIdle
  <2>3. QED
    BY <2>1, <2>2, SettledReading
<1>6. ASSUME NEW t \in Threads, NEW op, NEW list, NEW todo, Only(t),
             UNCHANGED <<kind, targets>>, May(t) \/ ~IsIdle(t),
             call[t].pc # "store",
             call'[t] = Idle \/ call'[t] = Reading(op, list, todo)
      PROVE  Settled'
  <2>1. call'[t].pc \notin {"run", "store"}
    BY <1>6 DEF Idle, Reading
  <2>2. QED
    BY <1>6, <2>1, SettledReading
<1>7. CASE Edit
  <2>1. /\ Only("main") /\ call["main"].pc # "store" /\ May("main")
        /\ UNCHANGED <<kind, targets>>
    BY <1>7, EditFits DEF Unshared
  <2>2. QED
    BY <1>6, <1>7, <2>1, EditFits, TwoThreads
<1>8. CASE Restore
  <2>1. Only("main") /\ May("main") /\ UNCHANGED <<kind, targets>>
    BY <1>8, RestoreFits DEF Unshared
  <2>2. PICK v \in Values :
          Valid(v) /\ call'["main"] = Storing("restore", Params, v, <<>>)
    BY <1>8, RestoreFits
  <2>3. QED
    BY <2>1, <2>2, Lists, TwoThreads, SettledStoring
<1>9. ASSUME NEW t \in Threads, FlushCall(t) PROVE Settled'
  <2>1. /\ Only(t) /\ call[t].pc # "store" /\ May(t)
        /\ UNCHANGED <<kind, targets>>
    BY <1>9, FlushFits DEF Unshared
  <2>2. QED
    BY <1>6, <1>9, <2>1, FlushFits
<1>10. ASSUME NEW t \in Threads, Stored(t) PROVE Settled'
  <2>1. /\ Only(t) /\ call[t].pc = "store" /\ call[t].left = <<>>
        /\ UNCHANGED <<kind, targets>>
    BY <1>10, StoredFits DEF Unshared
  <2>2. call'[t].pc \notin {"run", "store"}
    BY <1>10, StoredFits DEF Idle, Reading
  <2>3. QED
    BY <2>1, <2>2, StoredSettles
<1>11. ASSUME NEW t \in Threads, Checked(t) PROVE Settled'
  <2>1. /\ Only(t) /\ call[t].pc # "store" /\ ~IsIdle(t)
        /\ UNCHANGED <<kind, targets>> /\ call'[t] = Idle
    BY <1>11, CheckedFits DEF IsIdle
  <2>2. QED
    BY <1>6, <2>1
<1>12. CASE Callback
  <2>1. /\ Only("main") /\ call["main"].pc # "store" /\ May("main")
        /\ UNCHANGED <<kind, targets>>
    BY <1>12, CallbackFits DEF Unshared
  <2>2. CASE call' = call
    BY <1>1, <2>1, <2>2
  <2>3. CASE call'["main"] = Reading("callback", Config, <<>>)
    BY <1>6, <2>1, <2>3, TwoThreads
  <2>4. QED
    BY <1>12, <2>2, <2>3, CallbackFits
<1>13. ASSUME NEW groups \in Batches, Process(groups) PROVE Settled'
  <2>1. /\ Only("audio") /\ call["audio"].pc # "store" /\ May("audio")
        /\ UNCHANGED <<kind, targets>>
    BY <1>13, ProcessFits DEF Same
  <2>2. QED
    BY <1>6, <1>13, <2>1, ProcessFits, TwoThreads
<1>14. CASE Reset
  <2>1. /\ Only("audio") /\ call["audio"].pc # "store" /\ May("audio")
        /\ UNCHANGED <<kind, targets>>
    BY <1>14, ResetFits DEF Same
  <2>2. QED
    BY <1>6, <1>14, <2>1, ResetFits, TwoThreads
<1>15. CASE SegmentFails \/ ProcessEnds
  <2>1. /\ Only("audio") /\ call["audio"].pc # "store" /\ ~IsIdle("audio")
        /\ UNCHANGED <<kind, targets>>
    BY <1>15, SegmentFailsFits, ProcessEndsFits DEF Same, IsIdle
  <2>2. QED
    BY <1>6, <1>15, <2>1, SegmentFailsFits, ProcessEndsFits, TwoThreads
<1>16. CASE ResetReads \/ ResetApplies
  <2>1. /\ Only("audio") /\ call["audio"].pc # "store" /\ ~IsIdle("audio")
        /\ UNCHANGED <<kind, targets>>
    BY <1>16, ResetReadsFits, ResetAppliesFits DEF Same, IsIdle
  <2>2. QED
    BY <1>6, <1>16, <2>1, ResetReadsFits, ResetAppliesFits, TwoThreads
<1>17. CASE GroupDone
  <2> DEFINE c == call["audio"]
  <2>1. /\ Only("audio") /\ c.pc = "store" /\ c.left = <<>>
        /\ UNCHANGED <<kind, targets>> /\ c \in Calls
        /\ call'["audio"] = [c EXCEPT !.pc = "run"]
    BY <1>17, GroupDoneFits, TwoThreads DEF Same, PluginTypes
  <2>2. call'["audio"].pc = "run" /\ call'["audio"].values = c.values
    BY <2>1 DEF Calls
  <2>3. QED
    BY <2>1, <2>2, TwoThreads, StoredSettles
<1>18. CASE UNCHANGED vars
  BY <1>1, <1>18 DEF vars
<1>19. QED
  BY <1>2, <1>3, <1>4, <1>5, <1>7, <1>8, <1>9, <1>10, <1>11, <1>12, <1>13,
     <1>14, <1>15, <1>16, <1>17, <1>18, StoreSettles, RequestSettles,
     GroupSettles, DecideSettles, TwoThreads DEF Next, Host, AudioStep, Step

(* Between calls that do not overlap the targets of a CLAP plugin are valid *)
(* together, so that the state can be saved and the plugin activated, after *)
(* every sequence of edits, restored states, flushes and blocks.            *)
THEOREM TargetsSettle == Spec => []SettledValid
<1>1. Init => Settled
  <2> SUFFICES ASSUME Init PROVE Settled
    OBVIOUS
  <2>1. \A t \in Threads : call[t].pc = "idle"
    BY DEF Init, Idle
  <2>2. Valid(targets)
    BY ValuesAre DEF Init
  <2>3. QED
    BY <2>1, <2>2 DEF Settled, SettledBy
<1>2. PluginTypes /\ Alone /\ EngineFits /\ Settled /\ [Next]_vars => Settled'
  BY NextSettled
<1>3. Settled => SettledValid
  BY DEF Settled, SettledValid, Quiet, IsIdle
<1>4. QED
  BY <1>1, <1>2, <1>3, EngineHolds, PTL DEF Spec

-----------------------------------------------------------------------------
(* A call that will look at a parameter of the configuration, or has seen  *)
(* what it is now.                                                         *)
WillSee(c, p) ==
  \/ c.pc = "store" /\ (c.op = "process" => live)
  \/ c.pc = "run" /\ live
  \/ /\ c.pc = "load" /\ c.op \in {"check", "callback"}
     /\ p \in Open(c) \/ c.values[p] = targets[p]

(* The audio thread looks at the configuration. *)
Looks(c) == c.op \in {"check", "callback"} /\ c.pc = "load"

(* A CLAP block failed before it looked, and the audio thread does not.    *)
Excused == lapsed /\ ~Looks(call["audio"])

(* A configuration that is staged has been asked for, or will be. *)
Owed ==
  active /\ ~Excused =>
    \A p \in ConfigNames : targets[p] # configuration[p] =>
      callback \/ restart \/ \E t \in Threads : WillSee(call[t], p)

(* A step of one thread: what it will not see any more it asked for, and it *)
(* changes no parameter that it will not look at.                           *)
LEMMA OwedThread ==
  ASSUME Owed, NEW t \in Threads, Only(t),
         UNCHANGED <<kind, configuration, active>>, Excused => Excused',
         callback => callback', restart => restart',
         \A p \in ConfigNames :
           active /\ ~Excused' /\ targets'[p] # configuration[p] =>
             \/ callback' \/ restart' \/ WillSee(call[t], p)'
             \/ targets'[p] = targets[p] /\ ~WillSee(call[t], p)
  PROVE  Owed'
<1> SUFFICES ASSUME active, ~Excused', NEW p \in ConfigNames,
                    targets'[p] # configuration[p],
                    ~callback', ~restart', ~WillSee(call[t], p)'
             PROVE  \E o \in Threads : WillSee(call[o], p)'
  BY DEF Owed
<1>1. targets'[p] = targets[p] /\ ~WillSee(call[t], p)
  OBVIOUS
<1>2. PICK o \in Threads : WillSee(call[o], p)
  BY <1>1 DEF Owed
<1>3. o # t /\ call'[o] = call[o]
  BY <1>1, <1>2 DEF Only
<1>4. WillSee(call[o], p)'
  BY <1>1, <1>2, <1>3 DEF WillSee, Open, kind
<1>5. QED
  BY <1>4

(* Nothing is forgiven by a step that does not end a look of the audio      *)
(* thread, nor begins one.                                                  *)
LEMMA StillExcused ==
  ASSUME NEW t \in Threads, Only(t), lapsed' = lapsed,
         t = "audio" => ~Looks(call'[t]) \/ Looks(call[t])
  PROVE  Excused => Excused'
<1>1. CASE t = "audio"
  BY <1>1 DEF Excused
<1>2. CASE t # "audio"
  BY <1>2, TwoThreads DEF Excused, Only
<1>3. QED
  BY <1>1, <1>2

(* Once a thread will see the whole configuration nothing is owed. *)
LEMMA OwedSeen ==
  ASSUME NEW t \in Threads, \A p \in ConfigNames : WillSee(call[t], p)'
  PROVE  Owed'
  BY DEF Owed

(* A call that begins to look at the configuration will see all of it. *)
LEMMA WillSeeNew ==
  ASSUME NEW t \in Threads, NEW op \in {"check", "callback"},
         call'[t] = Reading(op, Config, <<>>), NEW p \in ConfigNames
  PROVE  WillSee(call[t], p)'
<1>1. call'[t].pc = "load" /\ call'[t].op = op /\ call'[t].left = Config
  BY DEF Reading
<1>2. Open(call[t])' = ConfigNames
  BY <1>1, Lists DEF Open
<1>3. QED
  BY <1>1, <1>2 DEF WillSee

(* A call that is idle, or reads for another reason, is no witness. *)
LEMMA SeesNothing ==
  ASSUME NEW c, NEW p,
         \/ c.pc = "idle"
         \/ c.pc = "load" /\ c.op \notin {"check", "callback"}
         \/ c.pc \in {"run", "store"} /\ c.op = "process" /\ ~live
  PROVE  ~WillSee(c, p)
  BY DEF WillSee

(* One value is read. *)
LEMMA LoadOwed ==
  ASSUME PluginTypes, Owed, NEW t \in Threads, Load(t)
  PROVE  Owed'
<1> DEFINE c == call[t]
           d == call'[t]
           h == Head(c.left)
<1>1. /\ c.pc = "load" /\ c.left # <<>> /\ h \in ParamNames /\ c \in Calls
      /\ d = [c EXCEPT !.left = Tail(@), !.values = [@ EXCEPT ![h] = targets[h]]]
      /\ Only(t)
  BY LoadFits DEF Only, PluginTypes
<1>2. UNCHANGED <<kind, targets, configuration, active, callback, restart, lapsed>>
  BY DEF Load, lifecycle, history
<1>3. /\ d.pc = "load" /\ d.op = c.op /\ d.left = Tail(c.left)
      /\ d.values = [c.values EXCEPT ![h] = targets[h]]
      /\ c.left \in Seq(ParamNames) /\ c.values \in Values
  BY <1>1 DEF Calls
<1>4. Open(c) \subseteq Open(d) \cup {h}
  BY <1>1, <1>3, OpenTail
<1>5. ASSUME NEW p \in ConfigNames, WillSee(c, p)
      PROVE  WillSee(call[t], p)'
  <2>1. c.op \in {"check", "callback"} /\ (p \in Open(c) \/ c.values[p] = targets[p])
    BY <1>1, <1>5 DEF WillSee
  <2>2. p \in ParamNames
    BY ValuesAre
  <2>3. d.values[p] = IF p = h THEN targets[h] ELSE c.values[p]
    BY <1>3, <2>2, ValuesAre
  <2>4. p \in Open(d) \/ d.values[p] = targets[p]
    BY <1>4, <2>1, <2>3
  <2>5. p \in Open(call[t])' \/ call'[t].values[p] = targets'[p]
    BY <1>2, <2>4 DEF Open
  <2>6. QED
    BY <1>3, <2>1, <2>5 DEF WillSee
<1>6. Excused => Excused'
  <2>1. Looks(call'[t]) => Looks(call[t])
    BY <1>1, <1>3 DEF Looks
  <2>2. QED
    BY <1>1, <1>2, <2>1, StillExcused
<1>7. QED
  BY <1>1, <1>2, <1>5, <1>6, OwedThread

(* One value is stored: by a call that will look, or it is no parameter of *)
(* the configuration.                                                      *)
LEMMA StoreOwed ==
  ASSUME PluginTypes, EngineFits, Owed, NEW t \in Threads, Store(t)
  PROVE  Owed'
<1> DEFINE c == call[t]
           d == call'[t]
           h == Head(c.left)
<1>1. /\ c.pc = "store" /\ c.left # <<>> /\ h \in ParamNames /\ c \in Calls
      /\ targets' = [targets EXCEPT ![h] = c.values[h]]
      /\ d = [c EXCEPT !.left = Tail(@)] /\ Only(t)
  BY StoreFits DEF Only, PluginTypes
<1>2. UNCHANGED <<kind, configuration, active, callback, restart, lapsed>>
  BY DEF Store, lifecycle, history
<1>3. d.pc = "store" /\ d.op = c.op /\ c.left \in Seq(ParamNames)
  BY <1>1 DEF Calls
<1>4. CASE c.op = "process" => live
  <2>1. \A p \in ConfigNames : WillSee(call[t], p)'
    BY <1>2, <1>3, <1>4 DEF WillSee, kind
  <2>2. QED
    BY <2>1, OwedSeen
<1>5. CASE c.op = "process" /\ ~live
  <2>1. t = "audio"
    BY <1>5 DEF PluginTypes, CallFits
  <2>2. Open(c) \cap ConfigNames = {}
    BY <1>1, <1>5, <2>1 DEF EngineFits, FitsGroups
  <2>3. h \in Open(c)
    <3> DEFINE s == c.left
    <3>1. s \in Seq(ParamNames) /\ s # <<>>
      BY <1>1, <1>3
    <3> HIDE DEF s
    <3>2. 1 \in DOMAIN s /\ Head(s) = s[1]
      BY <3>1
    <3>3. QED
      BY <3>2 DEF Open, s
  <2>4. \A p \in ConfigNames : targets'[p] = targets[p]
    BY <1>1, <2>2, <2>3, ValuesAre DEF PluginTypes
  <2>5. \A p \in ConfigNames : ~WillSee(c, p)
    BY <1>1, <1>5, SeesNothing
  <2>6. Excused => Excused'
    <3>1. ~Looks(call'[t])
      BY <1>3 DEF Looks
    <3>2. QED
      BY <1>1, <1>2, <3>1, StillExcused
  <2>7. QED
    BY <1>1, <1>2, <2>4, <2>5, <2>6, OwedThread
<1>6. QED
  BY <1>4, <1>5

(* A look at the configuration ends: what was seen is asked for. *)
LEMMA CheckedOwed ==
  ASSUME PluginTypes, Owed, NEW t \in Threads, Checked(t)
  PROVE  Owed'
<1> DEFINE c == call[t]
           needs == ~SameConfiguration(c.values, configuration)
<1>1. /\ Only(t) /\ c.op \in {"check", "callback"} /\ c.pc = "load"
      /\ c.left = <<>> /\ UNCHANGED <<kind, targets, lifecycle>>
      /\ lapsed' = (lapsed /\ t = "main") /\ call'[t] = Idle
      /\ callback' = (callback \/ (needs /\ live /\ c.op = "check"))
      /\ restart' = (restart \/ (needs /\ (live => c.op = "callback")))
  BY CheckedFits
<1>2. ASSUME NEW p \in ConfigNames, targets'[p] # configuration[p], WillSee(c, p)
      PROVE  callback' \/ restart'
  <2>1. c.values[p] = targets[p]
    BY <1>1, <1>2, OpenLists DEF WillSee
  <2>2. needs
    BY <1>1, <1>2, <2>1 DEF SameConfiguration, ConfigNames
  <2> HIDE DEF needs
  <2>3. CASE live /\ c.op = "check"
    BY <1>1, <2>2, <2>3, Zenon
  <2>4. CASE live => c.op = "callback"
    BY <1>1, <2>2, <2>4, Zenon
  <2>5. QED
    BY <1>1, <2>3, <2>4
<1>3. (callback => callback') /\ (restart => restart')
  BY <1>1, Zenon
<1>4. Excused => Excused'
  <2>1. CASE t = "audio"
    BY <1>1, <2>1 DEF Excused, Looks
  <2>2. CASE t = "main"
    <3>1. lapsed' = lapsed /\ t # "audio"
      BY <1>1, <2>2 DEF PluginTypes
    <3>2. QED
      BY <1>1, <3>1, StillExcused
  <2>3. QED
    BY <2>1, <2>2, TwoThreads
<1>5. QED
  BY <1>1, <1>2, <1>3, <1>4, OwedThread DEF lifecycle

(* A step of a thread that is no witness, and that does not begin to look. *)
LEMMA OwedElsewhere ==
  ASSUME Owed, NEW t \in Threads, Only(t),
         UNCHANGED <<kind, targets, configuration, active, callback, restart,
                     lapsed>>,
         t = "audio" => ~Looks(call'[t]),
         \A p \in ConfigNames : ~WillSee(call[t], p)
  PROVE  Owed'
<1>1. Excused => Excused'
  BY StillExcused
<1>2. QED
  BY <1>1, OwedThread

(* Every step keeps it. *)
LEMMA NextOwed ==
  ASSUME PluginTypes, EngineFits, Owed, [Next]_vars
  PROVE  Owed'
<1>1. ASSUME UNCHANGED <<kind, targets, active, configuration, callback,
                         restart, call, lapsed>>
      PROVE  Owed'
  BY <1>1 DEF Owed, Excused, Looks, WillSee, Open, kind
<1>2. CASE Activate
  BY <1>2, ActivateFits DEF Owed
<1>3. CASE Deactivate
  BY <1>3, DeactivateFits DEF Owed
<1>4. CASE Processing
  BY <1>1, <1>4, ProcessingFits DEF history
<1>5. ASSUME NEW t \in Threads, Only(t), t = "audio" => ~Looks(call'[t]),
             UNCHANGED <<kind, targets, configuration, active, callback,
                         restart, lapsed>>,
             \/ call[t].pc = "idle"
             \/ call[t].pc = "load" /\ call[t].op \notin {"check", "callback"}
      PROVE  Owed'
  <2>1. \A p \in ConfigNames : ~WillSee(call[t], p)
    BY <1>5, SeesNothing
  <2>2. QED
    BY <1>5, <2>1, OwedElsewhere
<1>6. CASE Edit \/ Restore
  <2>1. /\ Only("main") /\ call["main"].pc = "idle"
        /\ Unshared /\ UNCHANGED <<callback, restart>>
    BY <1>6, EditFits, RestoreFits
  <2>2. UNCHANGED <<kind, targets, configuration, active, callback, restart,
                    lapsed>>
    BY <2>1 DEF Unshared, lifecycle, history
  <2>3. QED
    BY <1>5, <2>1, <2>2, TwoThreads
<1>7. ASSUME NEW t \in Threads, FlushCall(t) PROVE Owed'
  <2>1. PICK groups \in GroupLists : call'[t] = Reading("flush", Params, groups)
    BY <1>7, FlushFits
  <2>2. ~Looks(call'[t])
    BY <2>1 DEF Looks, Reading
  <2>3. /\ Only(t) /\ call[t].pc = "idle"
        /\ Unshared /\ UNCHANGED <<callback, restart>>
    BY <1>7, FlushFits
  <2>4. UNCHANGED <<kind, targets, configuration, active, callback, restart,
                    lapsed>>
    BY <2>3 DEF Unshared, lifecycle, history
  <2>5. QED
    BY <1>5, <2>2, <2>3, <2>4
<1>8. ASSUME NEW t \in Threads, Request(t) PROVE Owed'
  <2>1. /\ Only(t) /\ call[t].pc = "load" /\ call[t].op \in {"edit", "flush"}
        /\ Unshared /\ UNCHANGED <<callback, restart>>
    BY <1>8, RequestFits
  <2>2. call'[t].pc \in {"idle", "store"}
    <3> DEFINE next == After(call[t].values, call[t].todo, Len(call[t].todo))
    <3>1. \/ call'[t] = Idle
          \/ call'[t] = Storing("edit", Names(call[t].todo[1].changes), next, <<>>)
          \/ call'[t] = Storing("flush", Params, next, <<>>)
      BY <1>8, RequestFits, Zenon
    <3> HIDE DEF next
    <3>2. QED
      BY <3>1 DEF Idle, Storing
  <2>3. ~Looks(call'[t])
    BY <2>2 DEF Looks
  <2>4. UNCHANGED <<kind, targets, configuration, active, callback, restart,
                    lapsed>>
    BY <2>1 DEF Unshared, lifecycle, history
  <2>5. QED
    BY <1>5, <2>1, <2>3, <2>4
<1>9. ASSUME NEW t \in Threads, Stored(t) PROVE Owed'
  <2>1. UNCHANGED active
    BY <1>9, StoredFits DEF Unshared, lifecycle
  <2>2. CASE ~active
    BY <2>1, <2>2 DEF Owed
  <2>3. CASE active
    <3>1. call'[t] = Reading("check", Config, <<>>)
      BY <1>9, <2>3, StoredFits
    <3>2. QED
      BY <3>1, WillSeeNew, OwedSeen
  <2>4. QED
    BY <2>2, <2>3
<1>10. CASE Callback
  <2>1. UNCHANGED active
    BY <1>10, CallbackFits DEF Unshared, lifecycle
  <2>2. CASE ~active
    BY <2>1, <2>2 DEF Owed
  <2>3. CASE active
    <3>1. call'["main"] = Reading("callback", Config, <<>>)
      BY <1>10, <2>3, CallbackFits
    <3>2. QED
      BY <3>1, WillSeeNew, TwoThreads, OwedSeen
  <2>4. QED
    BY <2>2, <2>3
<1>11. ASSUME NEW groups \in Batches, Process(groups) PROVE Owed'
  <2>1. /\ Only("audio") /\ call["audio"].pc = "idle"
        /\ Same /\ UNCHANGED targets
        /\ call'["audio"] = Reading("process", Params, groups)
    BY <1>11, ProcessFits
  <2>2. ~Looks(call'["audio"])
    BY <2>1 DEF Looks, Reading
  <2>3. UNCHANGED <<kind, targets, configuration, active, callback, restart,
                    lapsed>>
    BY <2>1 DEF Same, lifecycle, history
  <2>4. QED
    BY <1>5, <2>1, <2>2, <2>3, TwoThreads
<1>12. CASE Decide
  <2>1. /\ Only("audio") /\ call["audio"].pc = "load" /\ call["audio"].op = "process"
        /\ Same /\ UNCHANGED targets /\ call["audio"] \in Calls
    BY <1>12, DecideFits, TwoThreads DEF PluginTypes
  <2>2. call'["audio"].pc \in {"idle", "run"}
    <3> DEFINE base == IF live THEN Requested ELSE Start(Requested)
    <3>1. \/ call'["audio"] = Idle
          \/ call'["audio"] = [call["audio"] EXCEPT !.pc = "run", !.values = base]
      BY <1>12, DecideFits, Zenon
    <3> HIDE DEF base
    <3>2. CASE call'["audio"] = Idle
      BY <3>2 DEF Idle
    <3>3. CASE call'["audio"] = [call["audio"] EXCEPT !.pc = "run", !.values = base]
      <4>1. "pc" \in DOMAIN call["audio"]
        BY <2>1 DEF Calls
      <4>2. QED
        BY <3>3, <4>1
    <3>4. QED
      BY <3>1, <3>2, <3>3
  <2>3. ~Looks(call'["audio"])
    BY <2>2 DEF Looks
  <2>4. UNCHANGED <<kind, targets, configuration, active, callback, restart,
                    lapsed>>
    BY <2>1 DEF Same, lifecycle, history
  <2>5. QED
    BY <1>5, <2>1, <2>3, <2>4, TwoThreads
<1>13. CASE SegmentFails
  <2>1. /\ Only("audio") /\ call["audio"].pc = "run" /\ call["audio"].op = "process"
        /\ UNCHANGED <<kind, targets, configuration, active, callback, restart>>
        /\ lapsed' = (lapsed \/ live) /\ ~Looks(call'["audio"])
    BY <1>13, SegmentFailsFits DEF Looks, Idle, lifecycle
  <2>2. CASE live
    BY <2>1, <2>2 DEF Owed, Excused
  <2>3. CASE ~live
    <3>1. \A p \in ConfigNames : ~WillSee(call["audio"], p)
      BY <2>1, <2>3, SeesNothing
    <3>2. lapsed' = lapsed
      BY <2>1, <2>3 DEF PluginTypes
    <3>3. QED
      BY <2>1, <3>1, <3>2, TwoThreads, OwedElsewhere
  <2>4. QED
    BY <2>2, <2>3
<1>14. CASE Group \/ GroupDone \/ ProcessEnds
  <2> DEFINE c == call["audio"]
  <2>1. /\ Only("audio") /\ c.op = "process" /\ c.pc \in {"run", "store"}
        /\ Same /\ UNCHANGED targets
    BY <1>14, GroupFits, GroupDoneFits, ProcessEndsFits
  <2>2. UNCHANGED <<kind, targets, configuration, active, callback, restart,
                    lapsed>>
    BY <2>1 DEF Same, lifecycle, history
  <2>3. CASE Group \/ GroupDone
    <3>1. c \in Calls
      BY TwoThreads DEF PluginTypes
    <3>2. call'["audio"].pc \in {"store", "run"}
      BY <2>3, <3>1, GroupFits, GroupDoneFits DEF Storing, Calls
    <3>3. call'["audio"].op = "process"
      BY <2>1, <2>3, <3>1, GroupFits, GroupDoneFits DEF Storing, Calls
    <3>4. CASE live
      <4>1. \A p \in ConfigNames : WillSee(call["audio"], p)'
        BY <2>2, <3>2, <3>4 DEF WillSee, kind
      <4>2. QED
        BY <4>1, TwoThreads, OwedSeen
    <3>5. CASE ~live
      <4>1. \A p \in ConfigNames : ~WillSee(c, p)
        BY <2>1, <3>5, SeesNothing
      <4>2. ~Looks(call'["audio"])
        BY <3>2 DEF Looks
      <4>3. QED
        BY <2>1, <2>2, <4>1, <4>2, TwoThreads, OwedElsewhere
    <3>6. QED
      BY <3>4, <3>5
  <2>4. CASE ProcessEnds
    <3>1. CASE live
      <4>1. call'["audio"] = Reading("check", Config, <<>>)
        BY <2>4, <3>1, ProcessEndsFits
      <4>2. QED
        BY <4>1, WillSeeNew, TwoThreads, OwedSeen
    <3>2. CASE ~live
      <4>1. \A p \in ConfigNames : ~WillSee(c, p)
        BY <2>1, <3>2, SeesNothing
      <4>2. ~Looks(call'["audio"])
        BY <2>4, <3>2, ProcessEndsFits DEF Looks, Idle
      <4>3. QED
        BY <2>1, <2>2, <4>1, <4>2, TwoThreads, OwedElsewhere
    <3>3. QED
      BY <3>1, <3>2
  <2>5. QED
    BY <1>14, <2>3, <2>4
<1>15. CASE Reset
  <2>1. /\ Only("audio") /\ call["audio"].pc = "idle"
        /\ Same /\ UNCHANGED targets
        /\ call'["audio"] = Reading("reset", Config, <<>>)
    BY <1>15, ResetFits
  <2>2. ~Looks(call'["audio"])
    BY <2>1 DEF Looks, Reading
  <2>3. UNCHANGED <<kind, targets, configuration, active, callback, restart,
                    lapsed>>
    BY <2>1 DEF Same, lifecycle, history
  <2>4. QED
    BY <1>5, <2>1, <2>2, <2>3, TwoThreads
<1>16. CASE ResetReads \/ ResetApplies
  <2>1. /\ Only("audio") /\ call["audio"].pc = "load" /\ call["audio"].op = "reset"
    BY <1>16, ResetReadsFits, ResetAppliesFits
  <2>2. \/ call'["audio"] = Idle
        \/ \E todo \in GroupLists : call'["audio"] = Reading("reset", Params, todo)
    BY <1>16, ResetReadsFits, ResetAppliesFits, Zenon
  <2>3. ~Looks(call'["audio"])
    <3>1. CASE call'["audio"] = Idle
      BY <3>1 DEF Looks, Idle
    <3>2. ASSUME NEW todo, call'["audio"] = Reading("reset", Params, todo)
          PROVE  ~Looks(call'["audio"])
      BY <3>2 DEF Looks, Reading
    <3>3. QED
      BY <2>2, <3>1, <3>2
  <2>4. UNCHANGED <<kind, targets, configuration, active, callback, restart,
                    lapsed>>
    BY <1>16, ResetReadsFits, ResetAppliesFits DEF Same, lifecycle, history
  <2>5. QED
    BY <1>5, <2>1, <2>3, <2>4, TwoThreads
<1>17. CASE UNCHANGED vars
  BY <1>1, <1>17 DEF vars, lifecycle, history
<1>18. QED
  BY <1>2, <1>3, <1>4, <1>6, <1>7, <1>8, <1>9, <1>10, <1>11, <1>12, <1>13,
     <1>14, <1>15, <1>16, <1>17, LoadOwed, StoreOwed, CheckedOwed, TwoThreads
     DEF Next, Host, AudioStep, Step

(* Whichever thread staged a configuration, however the checks of the two  *)
(* threads overlapped and whatever a reset forgave, somebody asked for the *)
(* restart: the last call to store looks after it stored.  The exception   *)
(* is a block of the CLAP adapter whose engine fails after it published a  *)
(* configuration: it returns before it looks.                              *)
THEOREM RestartIsAsked == Spec => []RestartAsked
<1>1. Init => Owed
  BY DEF Init, Owed
<1>2. PluginTypes /\ EngineFits /\ Owed /\ [Next]_vars => Owed'
  BY NextOwed
<1>3. PluginTypes /\ Owed => RestartAsked
  <2> SUFFICES ASSUME PluginTypes, Owed, Quiet, NeedsRestart, ~lapsed
               PROVE  callback \/ restart
    BY DEF RestartAsked
  <2>1. PICK p \in ConfigNames : targets[p] # configuration[p]
    BY DEF NeedsRestart, SameConfiguration, ConfigNames
  <2>2. \A t \in Threads : ~WillSee(call[t], p)
    BY SeesNothing DEF Quiet, IsIdle
  <2>3. QED
    BY <2>1, <2>2 DEF Owed, Excused, NeedsRestart
<1>4. QED
  BY <1>1, <1>2, <1>3, EngineHolds, PTL DEF Spec

=============================================================================
