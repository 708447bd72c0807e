--------------------------- MODULE EventWatchProofs ---------------------------
(****************************************************************************)
(* Watches on a lane, for any number of them and of events, and any         *)
(* resnapshots: type correctness, that nothing published falls between a    *)
(* snapshot and what follows it, and that every watch implements the stream *)
(* of EventStream.                                                          *)
(****************************************************************************)
EXTENDS EventWatch, SequenceTheorems, TLAPS

USE WatchAssumption

----------------------------------------------------------------------------
(* The inductive invariant.                                                 *)

\* What a watch is at, from its installation to its end.
Matched(w) ==
  /\ state[w] = "none" => base[w] = NoSnapshot /\ reading[w] = "none" /\ tail[w] = <<>>
  /\ reading[w] = "first" => state[w] = "buffering" /\ base[w] = NoSnapshot /\ buffer[w] = <<>>
  /\ base[w] = NoSnapshot => heard[w] = <<>> /\ (state[w] = "none" \/ reading[w] = "first")
  /\ state[w] = "buffering" => tail[w] = <<>>
  /\ state[w] # "buffering" => buffer[w] = <<>>
  /\ reading[w] \in {"none", "first"} => phase[w] = "none"
  /\ reading[w] \in {"asked", "again"} => phase[w] = "dropping"
  /\ reading[w] = "done" => phase[w] # "none"
  /\ phase[w] # "holding" => held[w] = <<>>
  /\ base[w] = Refused => ~open /\ reading[w] \in {"none", "asked"}
WatchMatches == \A w \in Watchers : Matched(w)

\* While a resnapshot goes on, nothing that waits is of the new epoch.
EpochMatches(w) ==
  /\ \A i \in DOMAIN tail[w] : tail[w][i].epoch <= epoch[w]
  /\ \A i \in DOMAIN buffer[w] : buffer[w][i].epoch <= epoch[w]
  /\ phase[w] # "none" =>
       /\ \A i \in DOMAIN tail[w] : tail[w][i].epoch # epoch[w]
       /\ \A i \in DOMAIN buffer[w] : buffer[w][i].epoch # epoch[w]
EpochsMatch == \A w \in Watchers : EpochMatches(w)

\* The bus is bound to watches that were there, and carries the one barrier of a
\* resnapshot that has captured and whose events are not held yet.
BarrierMatches(w) ==
  /\ state[w] = "none" \/ reading[w] = "first" => \A i \in DOMAIN bus : w \notin bus[i].to
  /\ \A i \in DOMAIN bus : IsBarrier(w, i) => phase[w] = "dropping" /\ reading[w] = "done"
  /\ \A i, j \in DOMAIN bus : IsBarrier(w, i) /\ IsBarrier(w, j) => i = j
  /\ phase[w] = "dropping" /\ reading[w] = "done" => \E i \in DOMAIN bus : IsBarrier(w, i)
BusMatches == \A w \in Watchers : BarrierMatches(w)

\* What was captured is what was published, and holds all that was heard.
CaptureMatches(w) ==
  /\ reading[w] \in {"first", "again"} => fresh[w] = published
  /\ reading[w] = "done" => fresh[w] <= published
  /\ reading[w] \in {"again", "done"} => base[w] + Len(heard[w]) <= fresh[w]
  /\ base[w] >= 0 => base[w] + Len(heard[w]) <= published
CapturesMatch == (open => committed = published) /\ \A w \in Watchers : CaptureMatches(w)

\* What waits, as a sequence of events: a queue as it is seen in an epoch, and
\* the bus as a watch sees it; 0 stands for what passes the listener by.
QueuedAt(queue, e) == [i \in DOMAIN queue |-> IF queue[i].epoch = e THEN queue[i].event ELSE 0]
BarrierIn(b, w, i) == i \in DOMAIN b /\ b[i].event = 0 /\ w \in b[i].to
BusAt(b, w, drop, i) ==
  IF w \in b[i].to /\ ~(drop /\ \E j \in DOMAIN b : j > i /\ BarrierIn(b, w, j))
  THEN b[i].event ELSE 0
BusRun(b, w, drop) == [i \in DOMAIN b |-> BusAt(b, w, drop, i)]

Pending(w) == IF state[w] = "buffering" THEN buffer[w] ELSE tail[w]
Waits(w) == QueuedAt(Pending(w), epoch[w])
Passing(w) == BusRun(bus, w, phase[w] = "dropping")

\* Where the events that a listener is owed are: in its queue and then on the
\* bus, or, while a resnapshot goes on, held and on the bus behind its barrier.
Owed(w) ==
  /\ phase[w] = "none" =>
       \E m \in Nat : Runs(Waits(w), Known(w), m) /\ Runs(Passing(w), m, published)
  /\ phase[w] = "holding" =>
       \E m \in Nat : Runs(held[w], Known(w), m) /\ Runs(Passing(w), m, published)
  /\ phase[w] = "dropping" /\ reading[w] = "done" => Runs(Passing(w), Known(w), published)
OwedInOrder == \A w \in Subscribed : base[w] # Refused => Owed(w)

WatchInvariant ==
  WatchMatches /\ EpochsMatch /\ BusMatches /\ CapturesMatch /\ OwedInOrder

----------------------------------------------------------------------------
(* Runs of events.                                                          *)

LEMMA RunsIs ==
  ASSUME NEW s \in Seq(Nat), NEW a \in Nat, NEW b \in Nat
  PROVE  Runs(s, a, b) <=>
           /\ a <= b
           /\ \A i \in 1 .. Len(s) : s[i] # 0 => a < s[i] /\ s[i] <= b
           /\ \A e \in a + 1 .. b : \E i \in 1 .. Len(s) : s[i] = e
           /\ \A i, j \in 1 .. Len(s) : i < j /\ s[i] # 0 /\ s[j] # 0 => s[i] < s[j]
<1>1. DOMAIN s = 1 .. Len(s) /\ Len(s) \in Nat /\ \A i \in 1 .. Len(s) : s[i] \in Nat
  BY LenProperties, ElementOfSeq
<1> DEFINE E == {s[i] : i \in DOMAIN s} \ {0}
<1>2. E = a + 1 .. b <=>
        /\ \A i \in 1 .. Len(s) : s[i] # 0 => a < s[i] /\ s[i] <= b
        /\ \A e \in a + 1 .. b : \E i \in 1 .. Len(s) : s[i] = e
  <2>1. ASSUME E = a + 1 .. b, NEW i \in 1 .. Len(s), s[i] # 0
        PROVE  a < s[i] /\ s[i] <= b
    <3>1. s[i] \in E
      BY <1>1, <2>1
    <3>2. s[i] \in a + 1 .. b
      BY <2>1, <3>1
    <3> QED
      BY <1>1, <3>2
  <2>2. ASSUME E = a + 1 .. b, NEW e \in a + 1 .. b
        PROVE  \E i \in 1 .. Len(s) : s[i] = e
    BY <1>1, <2>2
  <2>3. ASSUME \A i \in 1 .. Len(s) : s[i] # 0 => a < s[i] /\ s[i] <= b,
               \A e \in a + 1 .. b : \E i \in 1 .. Len(s) : s[i] = e
        PROVE  E = a + 1 .. b
    <3>1. E \subseteq a + 1 .. b
      BY <1>1, <2>3
    <3>2. ASSUME NEW e \in a + 1 .. b PROVE e \in E
      <4>1. PICK i \in 1 .. Len(s) : s[i] = e
        BY <2>3
      <4>2. e # 0
        OBVIOUS
      <4> QED
        BY <1>1, <4>1, <4>2
    <3> QED
      BY <3>1, <3>2
  <2> QED
    BY <2>1, <2>2, <2>3
<1>3. Runs(s, a, b) <=>
        /\ a <= b /\ E = a + 1 .. b
        /\ \A i, j \in 1 .. Len(s) : i < j /\ s[i] # 0 /\ s[j] # 0 => s[i] < s[j]
  BY <1>1 DEF Runs
<1> HIDE DEF E
<1> QED
  BY <1>2, <1>3

LEMMA RunsNothing ==
  ASSUME NEW s \in Seq(Nat), NEW a \in Nat, NEW b \in Nat,
         \A i \in 1 .. Len(s) : s[i] = 0
  PROVE  Runs(s, a, b) <=> a = b
<1>1. ASSUME Runs(s, a, b) PROVE a = b
  <2>1. ASSUME a < b PROVE FALSE
    <3>1. a + 1 \in a + 1 .. b /\ a + 1 # 0
      BY <2>1
    <3>2. \A e \in a + 1 .. b : \E i \in 1 .. Len(s) : s[i] = e
      BY <1>1, RunsIs
    <3> QED
      BY <3>1, <3>2
  <2>2. a <= b
    BY <1>1, RunsIs
  <2> QED
    BY <2>1, <2>2
<1>2. ASSUME a = b PROVE Runs(s, a, b)
  <2>1. \A e \in a + 1 .. b : FALSE
    BY <1>2
  <2>2. \A e \in a + 1 .. b : \E i \in 1 .. Len(s) : s[i] = e
    BY <2>1
  <2>3. a <= b
    BY <1>2
  <2> QED
    BY <2>2, <2>3, RunsIs
<1> QED
  BY <1>1, <1>2

LEMMA RunsEmpty ==
  ASSUME NEW s \in Seq(Nat), s = <<>>, NEW a \in Nat
  PROVE  Runs(s, a, a)
<1>1. Len(s) = 0
  BY EmptySeq
<1>2. \A i \in 1 .. Len(s) : FALSE
  BY <1>1
<1>3. \A i \in 1 .. Len(s) : s[i] = 0
  BY <1>2
<1> QED
  BY <1>3, RunsNothing

LEMMA RunsConcat ==
  ASSUME NEW s \in Seq(Nat), NEW t \in Seq(Nat), NEW a \in Nat, NEW m \in Nat, NEW b \in Nat,
         Runs(s, a, m), Runs(t, m, b)
  PROVE  s \o t \in Seq(Nat) /\ Runs(s \o t, a, b)
<1> DEFINE u == s \o t
<1>1. /\ u \in Seq(Nat) /\ Len(u) = Len(s) + Len(t)
      /\ \A i \in 1 .. Len(s) + Len(t) : u[i] = IF i <= Len(s) THEN s[i] ELSE t[i - Len(s)]
  BY ConcatProperties
<1>2. Len(s) \in Nat /\ Len(t) \in Nat
  BY LenProperties
<1>3. /\ a <= m
      /\ \A i \in 1 .. Len(s) : s[i] # 0 => a < s[i] /\ s[i] <= m
      /\ \A e \in a + 1 .. m : \E i \in 1 .. Len(s) : s[i] = e
      /\ \A i, j \in 1 .. Len(s) : i < j /\ s[i] # 0 /\ s[j] # 0 => s[i] < s[j]
  BY RunsIs
<1>4. /\ m <= b
      /\ \A i \in 1 .. Len(t) : t[i] # 0 => m < t[i] /\ t[i] <= b
      /\ \A e \in m + 1 .. b : \E i \in 1 .. Len(t) : t[i] = e
      /\ \A i, j \in 1 .. Len(t) : i < j /\ t[i] # 0 /\ t[j] # 0 => t[i] < t[j]
  BY RunsIs
<1>5. /\ \A i \in 1 .. Len(s) : s[i] \in Nat
      /\ \A i \in 1 .. Len(t) : t[i] \in Nat
  BY ElementOfSeq
<1> HIDE DEF u
<1>6. ASSUME NEW i \in 1 .. Len(u)
      PROVE  \/ i \in 1 .. Len(s) /\ u[i] = s[i]
             \/ i > Len(s) /\ i - Len(s) \in 1 .. Len(t) /\ u[i] = t[i - Len(s)]
  BY <1>1, <1>2
<1>7. ASSUME NEW i \in 1 .. Len(u), u[i] # 0 PROVE a < u[i] /\ u[i] <= b
  <2>1. CASE i \in 1 .. Len(s) /\ u[i] = s[i]
    <3>1. a < s[i] /\ s[i] <= m /\ s[i] \in Nat
      BY <1>3, <1>5, <1>7, <2>1
    <3>2. m <= b
      BY <1>4
    <3> QED
      BY <2>1, <3>1, <3>2
  <2>2. CASE i - Len(s) \in 1 .. Len(t) /\ u[i] = t[i - Len(s)]
    <3>1. m < u[i] /\ u[i] <= b /\ u[i] \in Nat
      BY <1>4, <1>5, <1>7, <2>2
    <3>2. a <= m
      BY <1>3
    <3> QED
      BY <3>1, <3>2
  <2> QED
    BY <1>6, <2>1, <2>2
<1>8. ASSUME NEW e \in a + 1 .. b PROVE \E i \in 1 .. Len(u) : u[i] = e
  <2>1. CASE e \in a + 1 .. m
    <3>1. PICK i \in 1 .. Len(s) : s[i] = e
      BY <1>3, <2>1
    <3>2. i \in 1 .. Len(s) + Len(t) /\ i <= Len(s)
      BY <1>2
    <3>3. i \in 1 .. Len(u) /\ u[i] = e
      BY <1>1, <3>1, <3>2
    <3> QED
      BY <3>3
  <2>2. CASE e \in m + 1 .. b
    <3>1. PICK i \in 1 .. Len(t) : t[i] = e
      BY <1>4, <2>2
    <3> DEFINE k == i + Len(s)
    <3>2. k \in 1 .. Len(s) + Len(t) /\ ~(k <= Len(s)) /\ k - Len(s) = i
      BY <1>2
    <3> HIDE DEF k
    <3>3. k \in 1 .. Len(u) /\ u[k] = e
      BY <1>1, <3>1, <3>2
    <3> QED
      BY <3>3
  <2> QED
    BY <2>1, <2>2
<1>9. ASSUME NEW i \in 1 .. Len(u), NEW j \in 1 .. Len(u), i < j, u[i] # 0, u[j] # 0
      PROVE  u[i] < u[j]
  <2>1. CASE i \in 1 .. Len(s) /\ u[i] = s[i] /\ j \in 1 .. Len(s) /\ u[j] = s[j]
    BY <1>3, <1>9, <2>1
  <2>2. CASE /\ i \in 1 .. Len(s) /\ u[i] = s[i]
             /\ j > Len(s) /\ j - Len(s) \in 1 .. Len(t) /\ u[j] = t[j - Len(s)]
    <3>1. u[i] <= m /\ u[i] \in Nat
      BY <1>3, <1>5, <1>9, <2>2
    <3>2. m < u[j] /\ u[j] \in Nat
      BY <1>4, <1>5, <1>9, <2>2
    <3> QED
      BY <3>1, <3>2
  <2>3. CASE /\ i > Len(s) /\ i - Len(s) \in 1 .. Len(t) /\ u[i] = t[i - Len(s)]
             /\ j > Len(s) /\ j - Len(s) \in 1 .. Len(t) /\ u[j] = t[j - Len(s)]
    <3>1. i - Len(s) < j - Len(s)
      BY <1>2, <1>9
    <3> QED
      BY <1>4, <1>9, <2>3, <3>1
  <2>4. ~(i > Len(s) /\ j \in 1 .. Len(s))
    BY <1>2, <1>9
  <2> QED
    BY <1>6, <2>1, <2>2, <2>3, <2>4
<1>10. a <= b
  BY <1>3, <1>4
<1>11. Runs(u, a, b)
  BY <1>1, <1>7, <1>8, <1>9, <1>10, RunsIs
<1> QED
  BY <1>1, <1>11 DEF u

LEMMA RunsOne ==
  ASSUME NEW s \in Seq(Nat), Len(s) = 1, NEW b \in Nat
  PROVE  /\ s[1] = b + 1 => Runs(s, b, b + 1)
         /\ s[1] = 0 => Runs(s, b, b)
<1>1. \A i \in 1 .. Len(s) : i = 1
  OBVIOUS
<1>2. 1 \in 1 .. Len(s)
  OBVIOUS
<1>3. ASSUME s[1] = b + 1 PROVE Runs(s, b, b + 1)
  <2>1. b <= b + 1 /\ b + 1 \in Nat
    OBVIOUS
  <2>2. ASSUME NEW i \in 1 .. Len(s) PROVE b < s[i] /\ s[i] <= b + 1
    <3>1. s[i] = b + 1
      BY <1>1, <1>3
    <3> QED
      BY <3>1
  <2>3. ASSUME NEW e \in b + 1 .. b + 1 PROVE \E i \in 1 .. Len(s) : s[i] = e
    <3>1. s[1] = e
      BY <1>3
    <3> QED
      BY <1>2, <3>1
  <2>4. ASSUME NEW i \in 1 .. Len(s), NEW j \in 1 .. Len(s), i < j PROVE FALSE
    <3>1. i = 1 /\ j = 1
      BY <1>1
    <3> QED
      BY <2>4, <3>1
  <2> QED
    BY <2>1, <2>2, <2>3, <2>4, RunsIs
<1>4. ASSUME s[1] = 0 PROVE Runs(s, b, b)
  <2>1. \A i \in 1 .. Len(s) : s[i] = 0
    BY <1>1, <1>4
  <2> QED
    BY <2>1, RunsNothing
<1> QED
  BY <1>3, <1>4

LEMMA RunsAppend ==
  ASSUME NEW s \in Seq(Nat), NEW a \in Nat, NEW b \in Nat, Runs(s, a, b)
  PROVE  /\ Runs(Append(s, b + 1), a, b + 1)
         /\ Runs(Append(s, 0), a, b)
<1>1. ASSUME NEW x \in Nat
      PROVE  <<x>> \in Seq(Nat) /\ Len(<<x>>) = 1 /\ <<x>>[1] = x /\ Append(s, x) = s \o <<x>>
  BY AppendIsConcat
<1>2. b + 1 \in Nat
  OBVIOUS
<1>3. Runs(<<b + 1>>, b, b + 1) /\ Runs(<<0>>, b, b)
  BY <1>1, <1>2, RunsOne
<1>4. Runs(s \o <<b + 1>>, a, b + 1)
  BY <1>1, <1>2, <1>3, RunsConcat
<1>5. Runs(s \o <<0>>, a, b)
  BY <1>1, <1>3, RunsConcat
<1> QED
  BY <1>1, <1>2, <1>4, <1>5

LEMMA RunsTail ==
  ASSUME NEW s \in Seq(Nat), NEW a \in Nat, NEW b \in Nat, Runs(s, a, b), s # <<>>
  PROVE  /\ s[1] = 0 => Runs(Tail(s), a, b)
         /\ s[1] # 0 => s[1] = a + 1 /\ a + 1 <= b /\ Runs(Tail(s), a + 1, b)
<1> DEFINE t == Tail(s)
<1>1. /\ t \in Seq(Nat) /\ Len(t) = Len(s) - 1 /\ Len(s) \in Nat \ {0}
      /\ \A i \in 1 .. Len(t) : t[i] = s[i + 1]
  BY HeadTailProperties, EmptySeq
<1>2. /\ a <= b
      /\ \A i \in 1 .. Len(s) : s[i] # 0 => a < s[i] /\ s[i] <= b
      /\ \A e \in a + 1 .. b : \E i \in 1 .. Len(s) : s[i] = e
      /\ \A i, j \in 1 .. Len(s) : i < j /\ s[i] # 0 /\ s[j] # 0 => s[i] < s[j]
  BY RunsIs
<1>3. \A i \in 1 .. Len(s) : s[i] \in Nat
  BY ElementOfSeq
<1> HIDE DEF t
<1>4. ASSUME NEW i \in 1 .. Len(t)
      PROVE  i + 1 \in 1 .. Len(s) /\ t[i] = s[i + 1] /\ i + 1 # 1
  BY <1>1
<1>5. ASSUME NEW i \in 1 .. Len(s), i # 1 PROVE i - 1 \in 1 .. Len(t) /\ t[i - 1] = s[i]
  BY <1>1, <1>5
<1>6. ASSUME NEW i \in 1 .. Len(t), NEW j \in 1 .. Len(t), i < j, t[i] # 0, t[j] # 0
      PROVE  t[i] < t[j]
  <2>1. i + 1 < j + 1
    BY <1>6
  <2> QED
    BY <1>2, <1>4, <1>6, <2>1
<1>7. ASSUME s[1] = 0 PROVE Runs(t, a, b)
  <2>1. \A i \in 1 .. Len(t) : t[i] # 0 => a < t[i] /\ t[i] <= b
    BY <1>2, <1>4
  <2>2. ASSUME NEW e \in a + 1 .. b PROVE \E i \in 1 .. Len(t) : t[i] = e
    <3>1. PICK i \in 1 .. Len(s) : s[i] = e
      BY <1>2
    <3>2. i # 1
      BY <1>7, <3>1
    <3> QED
      BY <1>5, <3>1, <3>2
  <2> QED
    BY <1>1, <1>2, <1>6, <2>1, <2>2, RunsIs
<1>8. ASSUME s[1] # 0 PROVE s[1] = a + 1 /\ a + 1 <= b /\ Runs(t, a + 1, b)
  <2>1. 1 \in 1 .. Len(s) /\ s[1] \in Nat /\ a < s[1] /\ s[1] <= b
    BY <1>1, <1>2, <1>3, <1>8
  <2>2. s[1] = a + 1
    <3>1. a + 1 \in a + 1 .. b
      BY <2>1
    <3>2. PICK i \in 1 .. Len(s) : s[i] = a + 1
      BY <1>2, <3>1
    <3>3. i # 1 => s[1] < s[i]
      BY <1>2, <1>8, <2>1, <3>2
    <3> QED
      BY <2>1, <3>2, <3>3
  <2>3. ASSUME NEW i \in 1 .. Len(t), t[i] # 0 PROVE a + 1 < t[i] /\ t[i] <= b
    <3>1. i + 1 \in 1 .. Len(s) /\ 1 < i + 1 /\ t[i] = s[i + 1]
      BY <1>4
    <3> QED
      BY <1>2, <1>8, <2>1, <2>2, <2>3, <3>1
  <2>4. ASSUME NEW e \in a + 1 + 1 .. b PROVE \E i \in 1 .. Len(t) : t[i] = e
    <3>1. PICK i \in 1 .. Len(s) : s[i] = e
      BY <1>2
    <3>2. i # 1
      BY <2>2, <3>1
    <3> QED
      BY <1>5, <3>1, <3>2
  <2>5. a + 1 \in Nat /\ a + 1 <= b
    BY <2>1, <2>2
  <2>6. Runs(t, a + 1, b)
    BY <1>1, <1>6, <2>3, <2>4, <2>5, RunsIs
  <2> QED
    BY <2>2, <2>5, <2>6
<1> QED
  BY <1>7, <1>8 DEF t

----------------------------------------------------------------------------
(* Queues and the bus.                                                      *)

BusItem == [event : 0 .. MaxEvents, to : SUBSET Watchers]

LEMMA RunsAreThose ==
  ASSUME NEW w
  PROVE  /\ \A queue : Queued(w, queue) = QueuedAt(queue, epoch[w])
         /\ OnBus(w) = Passing(w)
  BY DEF Queued, QueuedAt, OnBus, Passing, BusRun, BusAt, Dropped, IsBarrier, BarrierIn

LEMMA QueuedType ==
  ASSUME NEW queue \in Seq(Waiting), NEW e
  PROVE  /\ QueuedAt(queue, e) \in Seq(Nat)
         /\ Len(QueuedAt(queue, e)) = Len(queue)
         /\ \A i \in 1 .. Len(queue) :
              QueuedAt(queue, e)[i] = IF queue[i].epoch = e THEN queue[i].event ELSE 0
<1>1. DOMAIN queue = 1 .. Len(queue) /\ Len(queue) \in Nat
  BY LenProperties
<1>2. \A i \in 1 .. Len(queue) : queue[i].event \in Nat
  <2> TAKE i \in 1 .. Len(queue)
  <2>1. queue[i] \in Waiting
    BY ElementOfSeq
  <2> QED
    BY <2>1 DEF Waiting
<1>3. QueuedAt(queue, e) \in [1 .. Len(queue) -> Nat]
  BY <1>1, <1>2 DEF QueuedAt
<1> QED
  BY <1>1, <1>3, LenProperties, SeqDef DEF QueuedAt

LEMMA QueuedAppend ==
  ASSUME NEW queue \in Seq(Waiting), NEW x \in Waiting, NEW e
  PROVE  QueuedAt(Append(queue, x), e) =
           Append(QueuedAt(queue, e), IF x.epoch = e THEN x.event ELSE 0)
<1> DEFINE q == Append(queue, x)
           y == IF x.epoch = e THEN x.event ELSE 0
           s == Append(QueuedAt(queue, e), y)
<1>1. /\ q \in Seq(Waiting) /\ Len(q) = Len(queue) + 1 /\ Len(queue) \in Nat
      /\ \A i \in 1 .. Len(queue) : q[i] = queue[i]
      /\ q[Len(queue) + 1] = x
  BY AppendProperties, LenProperties
<1>2. y \in Nat
  BY DEF Waiting
<1> HIDE DEF y
<1>3. /\ s \in Seq(Nat) /\ Len(s) = Len(queue) + 1
      /\ \A i \in 1 .. Len(queue) : s[i] = QueuedAt(queue, e)[i]
      /\ s[Len(queue) + 1] = y
  BY <1>2, QueuedType, AppendProperties
<1> HIDE DEF q, s
<1>4. /\ QueuedAt(q, e) \in Seq(Nat) /\ Len(QueuedAt(q, e)) = Len(queue) + 1
      /\ \A i \in 1 .. Len(queue) + 1 : QueuedAt(q, e)[i] = IF q[i].epoch = e THEN q[i].event ELSE 0
  BY <1>1, QueuedType
<1>5. ASSUME NEW i \in 1 .. Len(queue) + 1 PROVE QueuedAt(q, e)[i] = s[i]
  <2>1. CASE i \in 1 .. Len(queue)
    <3>1. QueuedAt(queue, e)[i] = IF queue[i].epoch = e THEN queue[i].event ELSE 0
      BY <2>1, QueuedType
    <3> QED
      BY <1>1, <1>3, <1>4, <2>1, <3>1
  <2>2. CASE i = Len(queue) + 1
    BY <1>1, <1>3, <1>4, <2>2 DEF y
  <2> QED
    BY <1>1, <2>1, <2>2
<1>6. QueuedAt(q, e) = s
  BY <1>3, <1>4, <1>5, SeqEqual
<1> QED
  BY <1>6 DEF q, s, y

LEMMA QueuedTail ==
  ASSUME NEW queue \in Seq(Waiting), queue # <<>>, NEW e
  PROVE  /\ QueuedAt(queue, e) # <<>>
         /\ QueuedAt(Tail(queue), e) = Tail(QueuedAt(queue, e))
         /\ QueuedAt(queue, e)[1] = IF Head(queue).epoch = e THEN Head(queue).event ELSE 0
<1> DEFINE q == Tail(queue)
           s == QueuedAt(queue, e)
           t == Tail(s)
<1>1. /\ q \in Seq(Waiting) /\ Len(q) = Len(queue) - 1 /\ Len(queue) \in Nat \ {0}
      /\ \A i \in 1 .. Len(q) : q[i] = queue[i + 1]
      /\ Head(queue) = queue[1]
  BY HeadTailProperties, EmptySeq
<1>2. s \in Seq(Nat) /\ Len(s) = Len(queue) /\ s # <<>>
  BY <1>1, QueuedType, EmptySeq
<1>3. \A i \in 1 .. Len(queue) : s[i] = IF queue[i].epoch = e THEN queue[i].event ELSE 0
  BY QueuedType
<1> HIDE DEF s
<1>4. /\ t \in Seq(Nat) /\ Len(t) = Len(queue) - 1
      /\ \A i \in 1 .. Len(t) : t[i] = s[i + 1]
  BY <1>2, HeadTailProperties
<1> HIDE DEF q, t
<1>5. /\ QueuedAt(q, e) \in Seq(Nat) /\ Len(QueuedAt(q, e)) = Len(q)
      /\ \A i \in 1 .. Len(q) : QueuedAt(q, e)[i] = IF q[i].epoch = e THEN q[i].event ELSE 0
  BY <1>1, QueuedType
<1>6. ASSUME NEW i \in 1 .. Len(q) PROVE QueuedAt(q, e)[i] = t[i]
  <2>1. i + 1 \in 1 .. Len(queue) /\ i \in 1 .. Len(t)
    BY <1>1, <1>4
  <2> QED
    BY <1>1, <1>3, <1>4, <1>5, <2>1
<1>7. QueuedAt(q, e) = t
  <2>1. Len(QueuedAt(q, e)) = Len(t) /\ Len(q) = Len(QueuedAt(q, e))
    BY <1>1, <1>4, <1>5
  <2>2. \A i \in 1 .. Len(QueuedAt(q, e)) : QueuedAt(q, e)[i] = t[i]
    BY <1>6, <2>1
  <2> QED
    BY <1>4, <1>5, <2>1, <2>2, SeqEqual
<1>8. s[1] = IF Head(queue).epoch = e THEN Head(queue).event ELSE 0
  BY <1>1, <1>3
<1> QED
  BY <1>2, <1>7, <1>8 DEF q, s, t

LEMMA BusType ==
  ASSUME NEW b \in Seq(BusItem), NEW w, NEW drop
  PROVE  /\ BusRun(b, w, drop) \in Seq(Nat)
         /\ Len(BusRun(b, w, drop)) = Len(b)
         /\ \A i \in 1 .. Len(b) : BusRun(b, w, drop)[i] = BusAt(b, w, drop, i)
<1>1. DOMAIN b = 1 .. Len(b) /\ Len(b) \in Nat
  BY LenProperties
<1>2. \A i \in 1 .. Len(b) : b[i].event \in Nat
  <2> TAKE i \in 1 .. Len(b)
  <2>1. b[i] \in BusItem
    BY ElementOfSeq
  <2> QED
    BY <2>1 DEF BusItem
<1>3. BusRun(b, w, drop) \in [1 .. Len(b) -> Nat]
  BY <1>1, <1>2 DEF BusRun, BusAt
<1>4. BusRun(b, w, drop) \in Seq(Nat) /\ Len(BusRun(b, w, drop)) = Len(b)
  BY <1>1, <1>3, LenProperties, SeqDef
<1> QED
  BY <1>1, <1>4 DEF BusRun

\* An event that is published, or a barrier of another watch.
LEMMA BusAppend ==
  ASSUME NEW b \in Seq(BusItem), NEW x \in BusItem, NEW w, NEW drop \in BOOLEAN,
         x.event = 0 => w \notin x.to
  PROVE  BusRun(Append(b, x), w, drop) =
           Append(BusRun(b, w, drop), IF w \in x.to THEN x.event ELSE 0)
<1> DEFINE c == Append(b, x)
           n == Len(b)
           y == IF w \in x.to THEN x.event ELSE 0
           s == Append(BusRun(b, w, drop), y)
<1>1. /\ c \in Seq(BusItem) /\ Len(c) = n + 1 /\ n \in Nat
      /\ \A i \in 1 .. n : c[i] = b[i]
      /\ c[n + 1] = x /\ DOMAIN c = 1 .. n + 1 /\ DOMAIN b = 1 .. n
  BY AppendProperties, LenProperties
<1>2. y \in Nat
  BY DEF BusItem
<1> HIDE DEF y
<1>3. /\ s \in Seq(Nat) /\ Len(s) = n + 1
      /\ \A i \in 1 .. n : s[i] = BusRun(b, w, drop)[i]
      /\ s[n + 1] = y
  BY <1>2, BusType, AppendProperties
<1> HIDE DEF c, s, n
<1>4. \A j \in 1 .. n : BarrierIn(c, w, j) <=> BarrierIn(b, w, j)
  BY <1>1 DEF BarrierIn
<1>5. ~BarrierIn(c, w, n + 1)
  BY <1>1 DEF BarrierIn
<1>6. ASSUME NEW i \in 1 .. n
      PROVE  (\E j \in DOMAIN c : j > i /\ BarrierIn(c, w, j))
               <=> (\E j \in DOMAIN b : j > i /\ BarrierIn(b, w, j))
  <2>1. \A j \in DOMAIN c : j \in 1 .. n \/ j = n + 1
    BY <1>1
  <2>2. \A j \in DOMAIN b : j \in DOMAIN c /\ j \in 1 .. n
    BY <1>1
  <2> QED
    BY <1>1, <1>4, <1>5, <2>1, <2>2
<1>7. ~\E j \in DOMAIN c : j > n + 1 /\ BarrierIn(c, w, j)
  BY <1>1
<1>8. /\ BusRun(c, w, drop) \in Seq(Nat) /\ Len(BusRun(c, w, drop)) = n + 1
      /\ \A i \in 1 .. n + 1 :
           BusRun(c, w, drop)[i] = BusAt(c, w, drop, i)
  BY <1>1, BusType
<1>9. ASSUME NEW i \in 1 .. n PROVE BusRun(c, w, drop)[i] = s[i]
  <2>1. BusRun(b, w, drop)[i] = BusAt(b, w, drop, i)
    BY BusType DEF n
  <2>2. i \in 1 .. n + 1
    BY <1>1
  <2> QED
    BY <1>1, <1>3, <1>6, <1>8, <2>1, <2>2 DEF BusAt
<1>10. BusRun(c, w, drop)[n + 1] = s[n + 1]
  <2>1. n + 1 \in 1 .. n + 1
    BY <1>1
  <2> QED
    BY <1>1, <1>3, <1>7, <1>8, <2>1 DEF y, BusAt
<1>11. ASSUME NEW i \in 1 .. n + 1 PROVE BusRun(c, w, drop)[i] = s[i]
  <2>1. i \in 1 .. n \/ i = n + 1
    BY <1>1
  <2> QED
    BY <1>9, <1>10, <2>1
<1>12. BusRun(c, w, drop) = s
  BY <1>3, <1>8, <1>11, SeqEqual
<1> QED
  BY <1>12 DEF c, s, y

\* A barrier is put on the bus behind everything else.
LEMMA BusBarrier ==
  ASSUME NEW b \in Seq(BusItem), NEW x \in BusItem, NEW w, x.event = 0, w \in x.to
  PROVE  /\ BusRun(Append(b, x), w, TRUE) \in Seq(Nat)
         /\ \A i \in 1 .. Len(BusRun(Append(b, x), w, TRUE)) : BusRun(Append(b, x), w, TRUE)[i] = 0
<1> DEFINE c == Append(b, x)
           n == Len(b)
<1>1. /\ c \in Seq(BusItem) /\ Len(c) = n + 1 /\ n \in Nat
      /\ c[n + 1] = x /\ DOMAIN c = 1 .. n + 1
  BY AppendProperties, LenProperties
<1> HIDE DEF c, n
<1>2. BarrierIn(c, w, n + 1)
  BY <1>1 DEF BarrierIn
<1>3. /\ BusRun(c, w, TRUE) \in Seq(Nat) /\ Len(BusRun(c, w, TRUE)) = n + 1
      /\ \A i \in 1 .. n + 1 :
           BusRun(c, w, TRUE)[i] = BusAt(c, w, TRUE, i)
  BY <1>1, BusType
<1>4. ASSUME NEW i \in 1 .. n + 1 PROVE BusRun(c, w, TRUE)[i] = 0
  <2>1. CASE i < n + 1
    <3>1. n + 1 \in DOMAIN c /\ n + 1 > i
      BY <1>1, <2>1
    <3> QED
      BY <1>2, <1>3, <3>1 DEF BusAt
  <2>2. CASE i = n + 1
    BY <1>1, <1>3, <2>2 DEF BusAt
  <2>3. i < n + 1 \/ i = n + 1
    BY <1>1
  <2> QED
    BY <2>1, <2>2, <2>3
<1> QED
  BY <1>3, <1>4 DEF c

LEMMA BusTail ==
  ASSUME NEW b \in Seq(BusItem), b # <<>>, NEW w, NEW drop \in BOOLEAN
  PROVE  /\ BusRun(b, w, drop) # <<>>
         /\ BusRun(Tail(b), w, drop) = Tail(BusRun(b, w, drop))
         /\ BusRun(b, w, drop)[1] =
              IF w \in Head(b).to /\ ~(drop /\ \E j \in DOMAIN b : j > 1 /\ BarrierIn(b, w, j))
              THEN Head(b).event ELSE 0
<1> DEFINE c == Tail(b)
           s == BusRun(b, w, drop)
           t == Tail(s)
           n == Len(b)
<1>1. /\ c \in Seq(BusItem) /\ Len(c) = n - 1 /\ n \in Nat \ {0}
      /\ \A i \in 1 .. n - 1 : c[i] = b[i + 1]
      /\ Head(b) = b[1] /\ DOMAIN b = 1 .. n /\ DOMAIN c = 1 .. n - 1
  BY HeadTailProperties, EmptySeq, LenProperties
<1>2. s \in Seq(Nat) /\ Len(s) = n /\ s # <<>>
  BY <1>1, BusType, EmptySeq
<1>3. \A i \in 1 .. n : s[i] = BusAt(b, w, drop, i)
  BY BusType
<1> HIDE DEF s
<1>4. /\ t \in Seq(Nat) /\ Len(t) = n - 1 /\ \A i \in 1 .. n - 1 : t[i] = s[i + 1]
  BY <1>2, HeadTailProperties
<1> HIDE DEF c, t, n
<1>5. /\ BusRun(c, w, drop) \in Seq(Nat) /\ Len(BusRun(c, w, drop)) = n - 1
      /\ \A i \in 1 .. n - 1 :
           BusRun(c, w, drop)[i] = BusAt(c, w, drop, i)
  BY <1>1, BusType
<1>6. ASSUME NEW i \in 1 .. n - 1
      PROVE  (\E j \in DOMAIN c : j > i /\ BarrierIn(c, w, j))
               <=> (\E j \in DOMAIN b : j > i + 1 /\ BarrierIn(b, w, j))
  <2>1. ASSUME NEW j \in DOMAIN c, j > i, BarrierIn(c, w, j)
        PROVE  j + 1 \in DOMAIN b /\ j + 1 > i + 1 /\ BarrierIn(b, w, j + 1)
    <3>1. j + 1 \in DOMAIN b /\ j + 1 > i + 1 /\ c[j] = b[j + 1]
      BY <1>1, <2>1
    <3> QED
      BY <2>1, <3>1 DEF BarrierIn
  <2>2. ASSUME NEW j \in DOMAIN b, j > i + 1, BarrierIn(b, w, j)
        PROVE  j - 1 \in DOMAIN c /\ j - 1 > i /\ BarrierIn(c, w, j - 1)
    <3>1. j - 1 \in DOMAIN c /\ j - 1 > i /\ j - 1 + 1 = j
      BY <1>1, <2>2
    <3>2. c[j - 1] = b[j]
      BY <1>1, <3>1
    <3> QED
      BY <2>2, <3>1, <3>2 DEF BarrierIn
  <2> QED
    BY <2>1, <2>2
<1>7. ASSUME NEW i \in 1 .. n - 1 PROVE BusRun(c, w, drop)[i] = t[i]
  <2>1. i + 1 \in 1 .. n
    BY <1>1
  <2>2. s[i + 1] = BusAt(b, w, drop, i + 1)
    BY <1>3, <2>1
  <2>3. c[i] = b[i + 1]
    BY <1>1
  <2> QED
    BY <1>4, <1>5, <1>6, <2>2, <2>3 DEF BusAt
<1>8. BusRun(c, w, drop) = t
  BY <1>4, <1>5, <1>7, SeqEqual
<1>9. 1 \in 1 .. n
  BY <1>1
<1> QED
  BY <1>1, <1>2, <1>3, <1>8, <1>9 DEF c, s, t, BusAt

LEMMA BusFree ==
  ASSUME NEW b, NEW w, \A j \in DOMAIN b : ~BarrierIn(b, w, j)
  PROVE  BusRun(b, w, TRUE) = BusRun(b, w, FALSE)
  BY DEF BusRun, BusAt

----------------------------------------------------------------------------
(* Types.                                                                   *)

LEMMA TypesOf ==
  ASSUME TypeOK, NEW w \in Watchers
  PROVE  /\ published \in Nat /\ committed \in Nat /\ bus \in Seq(BusItem)
         /\ tail[w] \in Seq(Waiting) /\ buffer[w] \in Seq(Waiting)
         /\ heard[w] \in Seq(1 .. MaxEvents) /\ held[w] \in Seq(1 .. MaxEvents)
         /\ Len(heard[w]) \in Nat /\ held[w] \in Seq(Nat) /\ fresh[w] \in Nat
         /\ base[w] \in Refused .. MaxEvents /\ epoch[w] \in 0 .. MaxResnapshots
<1>1. /\ published \in Nat /\ committed \in Nat /\ bus \in Seq(BusItem)
      /\ tail[w] \in Seq(Waiting) /\ buffer[w] \in Seq(Waiting)
      /\ heard[w] \in Seq(1 .. MaxEvents) /\ held[w] \in Seq(1 .. MaxEvents)
      /\ fresh[w] \in Nat
      /\ base[w] \in Refused .. MaxEvents /\ epoch[w] \in 0 .. MaxResnapshots
  BY DEF TypeOK, BusItem
<1>2. Len(heard[w]) \in Nat
  BY <1>1, LenProperties
<1>3. Len(held[w]) \in Nat /\ \A i \in 1 .. Len(held[w]) : held[w][i] \in Nat
  <2>1. \A i \in 1 .. Len(held[w]) : held[w][i] \in 1 .. MaxEvents
    BY <1>1, ElementOfSeq
  <2> QED
    BY <1>1, <2>1, LenProperties
<1>4. held[w] \in Seq(Nat)
  <2>1. held[w] \in [1 .. Len(held[w]) -> 1 .. MaxEvents]
    BY <1>1, LenProperties
  <2>2. held[w] \in [1 .. Len(held[w]) -> Nat]
    BY <1>3, <2>1
  <2> QED
    BY <1>3, <2>2, SeqDef
<1> QED
  BY <1>1, <1>2, <1>4

LEMMA EntriesType ==
  ASSUME NEW s \in Seq(1 .. MaxEvents), NEW w \in Watchers, epoch[w] \in 0 .. MaxResnapshots
  PROVE  /\ Entries(w, s) \in Seq(Waiting) /\ Len(Entries(w, s)) = Len(s)
         /\ \A i \in 1 .. Len(s) : /\ Entries(w, s)[i].event = s[i]
                                   /\ Entries(w, s)[i].epoch = epoch[w]
<1>1. DOMAIN s = 1 .. Len(s) /\ Len(s) \in Nat
  BY LenProperties
<1>2. \A i \in 1 .. Len(s) : s[i] \in 1 .. MaxEvents
  BY ElementOfSeq
<1>3. \A i \in 1 .. Len(s) : Entries(w, s)[i] = [event |-> s[i], epoch |-> epoch[w]]
  BY <1>1 DEF Entries
<1>4. Entries(w, s) \in [1 .. Len(s) -> Waiting]
  BY <1>1, <1>2 DEF Entries, Waiting
<1>5. Entries(w, s) \in Seq(Waiting) /\ Len(Entries(w, s)) = Len(s)
  BY <1>1, <1>4, LenProperties, SeqDef
<1>6. ASSUME NEW i \in 1 .. Len(s)
      PROVE  Entries(w, s)[i].event = s[i] /\ Entries(w, s)[i].epoch = epoch[w]
  <2>1. Entries(w, s)[i] = [event |-> s[i], epoch |-> epoch[w]]
    BY <1>3
  <2> QED
    BY <2>1
<1> QED
  BY <1>5, <1>6

LEMMA PushTypes ==
  ASSUME TypeOK, NEW W, NEW events \in [Watchers -> Seq(1 .. MaxEvents)], Push(W, events)
  PROVE  buffer' \in [Watchers -> Seq(Waiting)] /\ tail' \in [Watchers -> Seq(Waiting)]
<1>1. ASSUME NEW w \in Watchers
      PROVE  /\ buffer[w] \o Entries(w, events[w]) \in Seq(Waiting)
             /\ tail[w] \o Entries(w, events[w]) \in Seq(Waiting)
  <2>1. Entries(w, events[w]) \in Seq(Waiting)
    BY TypesOf, EntriesType
  <2> QED
    BY <2>1, TypesOf, ConcatProperties
<1> QED
  BY <1>1, TypesOf DEF Push

LEMMA OneEvent ==
  ASSUME TypeOK, bus # <<>>, Head(bus).event # 0
  PROVE  Everyone(<<Head(bus).event>>) \in [Watchers -> Seq(1 .. MaxEvents)]
<1>1. Head(bus) \in BusItem
  BY HeadTailProperties DEF TypeOK, BusItem
<1>2. Head(bus).event \in 1 .. MaxEvents
  BY <1>1 DEF BusItem
<1> QED
  BY <1>2 DEF Everyone

LEMMA TypesInit == Init => TypeOK
<1> SUFFICES ASSUME Init PROVE TypeOK
  OBVIOUS
<1>1. 0 \in 0 .. MaxEvents /\ 0 \in 0 .. MaxResnapshots /\ NoSnapshot \in Refused .. MaxEvents
  BY DEF NoSnapshot, Refused
<1> QED
  BY <1>1 DEF Init, TypeOK, Everyone

LEMMA TypesCommit == TypeOK /\ (BeginCommit \/ EndCommit \/ Close) => TypeOK'
<1>1. TypeOK /\ BeginCommit => TypeOK'
  BY DEF TypeOK, BeginCommit, streamVars, startVars, againVars, Waiting
<1>2. ASSUME TypeOK, EndCommit PROVE TypeOK'
  <2>1. PICK n \in {m \in 1 .. 2 : committed + m <= MaxEvents} :
          /\ committed' = committed + n
          /\ IF open
             THEN /\ published' = published + n
                  /\ bus' = bus \o [i \in 1 .. n |->
                               [event |-> published + i, to |-> Subscribed]]
             ELSE UNCHANGED <<published, bus>>
    BY <1>2 DEF EndCommit
  <2>2. committed' \in 0 .. MaxEvents /\ published' \in 0 .. committed'
    BY <1>2, <2>1 DEF TypeOK
  <2>3. bus' \in Seq(BusItem)
    <3>1. CASE open
      <4> DEFINE new == [i \in 1 .. n |-> [event |-> published + i, to |-> Subscribed]]
      <4>1. new \in [1 .. n -> BusItem]
        <5>1. \A i \in 1 .. n : published + i \in 0 .. MaxEvents
          BY <1>2 DEF TypeOK
        <5> QED
          BY <5>1 DEF BusItem, Subscribed
      <4>2. new \in Seq(BusItem)
        BY <4>1, SeqDef
      <4> HIDE DEF new
      <4>3. bus \o new \in Seq(BusItem)
        BY <1>2, <4>2, ConcatProperties DEF TypeOK, BusItem
      <4> QED
        BY <2>1, <3>1, <4>3 DEF new
    <3>2. CASE ~open
      BY <1>2, <2>1, <3>2 DEF TypeOK, BusItem
    <3> QED
      BY <3>1, <3>2
  <2> QED
    BY <1>2, <2>2, <2>3 DEF TypeOK, EndCommit, streamVars, startVars, againVars, Waiting, BusItem
<1>3. TypeOK /\ Close => TypeOK'
  BY DEF TypeOK, Close, streamVars, startVars, againVars, Waiting
<1> QED
  BY <1>1, <1>2, <1>3

LEMMA TypesDeliver == TypeOK /\ Deliver => TypeOK'
<1> SUFFICES ASSUME TypeOK, Deliver PROVE TypeOK'
  OBVIOUS
<1>1. bus # <<>> /\ bus' = Tail(bus)
  BY DEF Deliver, DeliverEvent, ReachBarrier
<1>2. bus' \in Seq(BusItem)
  BY <1>1, HeadTailProperties DEF TypeOK, BusItem
<1>3. CASE DeliverEvent
  <2>1. Head(bus).event # 0
    BY <1>3 DEF DeliverEvent
  <2>2. buffer' \in [Watchers -> Seq(Waiting)] /\ tail' \in [Watchers -> Seq(Waiting)]
    BY <1>1, <1>3, <2>1, OneEvent, PushTypes DEF DeliverEvent
  <2>3. held' \in [Watchers -> Seq(1 .. MaxEvents)]
    <3>1. Head(bus) \in BusItem
      BY <1>1, HeadTailProperties DEF TypeOK, BusItem
    <3>2. Head(bus).event \in 1 .. MaxEvents
      BY <2>1, <3>1 DEF BusItem
    <3>3. \A w \in Watchers : Append(held[w], Head(bus).event) \in Seq(1 .. MaxEvents)
      BY <3>2, AppendProperties DEF TypeOK
    <3> QED
      BY <1>3, <3>3 DEF DeliverEvent, TypeOK
  <2> QED
    BY <1>2, <1>3, <2>2, <2>3 DEF TypeOK, DeliverEvent, harnessVars, startVars, Waiting, BusItem
<1>4. CASE ReachBarrier
  BY <1>2, <1>4 DEF TypeOK, ReachBarrier, harnessVars, streamVars, startVars, Waiting, BusItem
<1> QED
  BY <1>3, <1>4 DEF Deliver

LEMMA TypesWatch ==
  ASSUME TypeOK, NEW w \in Watchers,
         BeginWatch(w) \/ EndWatch(w) \/ Start(w) \/ Unsubscribe(w)
  PROVE  TypeOK'
<1>1. CASE BeginWatch(w)
  BY <1>1 DEF TypeOK, BeginWatch, streamVars, Waiting
<1>2. CASE EndWatch(w)
  <2>1. fresh[w] \in Refused .. MaxEvents
    BY DEF TypeOK, Refused
  <2> QED
    BY <1>2, <2>1 DEF TypeOK, EndWatch, startVars, Waiting
<1>3. CASE Start(w)
  <2>1. tail[w] \o buffer[w] \in Seq(Waiting) /\ <<>> \in Seq(Waiting)
    BY TypesOf, ConcatProperties
  <2> QED
    BY <1>3, <2>1 DEF TypeOK, Start, harnessVars, againVars, Waiting
<1>4. CASE Unsubscribe(w)
  <2>1. <<>> \in Seq(Waiting)
    OBVIOUS
  <2> QED
    BY <1>4, <2>1 DEF TypeOK, Unsubscribe, harnessVars, againVars, Waiting
<1> QED
  BY <1>1, <1>2, <1>3, <1>4

LEMMA TypesTake ==
  ASSUME TypeOK, NEW w \in Watchers, TakeEvent(w) \/ ListenerReturns(w)
  PROVE  TypeOK'
<1>1. CASE TakeEvent(w)
  <2>1. Tail(tail[w]) \in Seq(Waiting) /\ Head(tail[w]) \in Waiting
    BY <1>1, TypesOf, HeadTailProperties DEF TakeEvent
  <2>2. Append(heard[w], Head(tail[w]).event) \in Seq(1 .. MaxEvents)
    <3>1. Head(tail[w]).event \in 1 .. MaxEvents
      BY <2>1 DEF Waiting
    <3> QED
      BY <3>1, TypesOf, AppendProperties
  <2>3. tail' \in [Watchers -> Seq(Waiting)]
    BY <1>1, <2>1 DEF TakeEvent, TypeOK
  <2>4. heard' \in [Watchers -> Seq(1 .. MaxEvents)] /\ listening' \in [Watchers -> BOOLEAN]
    BY <1>1, <2>2 DEF TakeEvent, TypeOK
  <2> QED
    BY <1>1, <2>3, <2>4 DEF TypeOK, TakeEvent, harnessVars, againVars, Waiting
<1>2. CASE ListenerReturns(w)
  BY <1>2 DEF TypeOK, ListenerReturns, harnessVars, streamVars, againVars, Waiting
<1> QED
  BY <1>1, <1>2

LEMMA TypesAsk ==
  ASSUME TypeOK, NEW w \in Watchers, Resnapshot(w) \/ BeginCapture(w) \/ EndCapture(w)
  PROVE  TypeOK'
<1>1. CASE Resnapshot(w)
  <2>1. waits' \in [Watchers -> BOOLEAN]
    <3>1. [waits EXCEPT ![w] = listening[w]] \in [Watchers -> BOOLEAN] /\ waits \in [Watchers -> BOOLEAN]
      BY DEF TypeOK
    <3> QED
      BY <1>1, <3>1 DEF Resnapshot
  <2>2. epoch' \in [Watchers -> 0 .. MaxResnapshots]
    BY <1>1 DEF Resnapshot, TypeOK
  <2>3. /\ phase' \in [Watchers -> {"none", "dropping", "holding"}]
        /\ reading' \in [Watchers -> {"none", "first", "asked", "again", "done"}]
    BY <1>1 DEF Resnapshot, TypeOK
  <2>4. \A u, v \in Watchers :
          reading'[u] \in {"first", "again"} =>
            line' = "watch" /\ (reading'[v] \in {"first", "again"} => v = u)
    BY <1>1 DEF Resnapshot, TypeOK, harnessVars
  <2> QED
    BY <1>1, <2>1, <2>2, <2>3, <2>4 DEF TypeOK, Resnapshot, harnessVars, streamVars
<1>2. CASE BeginCapture(w)
  BY <1>2 DEF TypeOK, BeginCapture, streamVars, startVars, Waiting
<1>3. CASE EndCapture(w)
  <2>1. bus' \in Seq(BusItem)
    <3>1. [event |-> 0, to |-> {w}] \in BusItem
      BY DEF BusItem
    <3> QED
      BY <1>3, <3>1, AppendProperties DEF EndCapture, TypeOK, BusItem
  <2> QED
    BY <1>3, <2>1 DEF TypeOK, EndCapture, streamVars, startVars, Waiting, BusItem
<1> QED
  BY <1>1, <1>2, <1>3

LEMMA TypesEnd ==
  ASSUME TypeOK, NEW w \in Watchers,
         InstallSnapshot(w) \/ RefuseResnapshot(w) \/ CaptureFails(w)
  PROVE  TypeOK'
<1>1. buffer' \in [Watchers -> Seq(Waiting)] /\ tail' \in [Watchers -> Seq(Waiting)]
  <2>1. held \in [Watchers -> Seq(1 .. MaxEvents)]
    BY DEF TypeOK
  <2> QED
    BY <2>1, PushTypes DEF InstallSnapshot, RefuseResnapshot, CaptureFails, Resume
<1>2. /\ held' \in [Watchers -> Seq(1 .. MaxEvents)] /\ heard' \in [Watchers -> Seq(1 .. MaxEvents)]
      /\ waits' \in [Watchers -> BOOLEAN]
  <2>1. /\ held' = [held EXCEPT ![w] = <<>>] /\ heard' = [heard EXCEPT ![w] = <<>>]
        /\ waits' = [waits EXCEPT ![w] = FALSE]
    BY DEF InstallSnapshot, RefuseResnapshot, CaptureFails, Resume
  <2>2. <<>> \in Seq(1 .. MaxEvents)
    OBVIOUS
  <2>3. /\ held \in [Watchers -> Seq(1 .. MaxEvents)] /\ heard \in [Watchers -> Seq(1 .. MaxEvents)]
        /\ waits \in [Watchers -> BOOLEAN]
    BY DEF TypeOK
  <2> QED
    BY <2>1, <2>2, <2>3
<1>3. /\ reading' = [reading EXCEPT ![w] = "none"]
      /\ phase' \in [Watchers -> {"none", "dropping", "holding"}]
      /\ base' \in [Watchers -> Refused .. MaxEvents]
      /\ state' \in [Watchers -> {"none", "buffering", "started", "unsubscribed"}]
  <2>1. fresh[w] \in Refused .. MaxEvents /\ Refused \in Refused .. MaxEvents
    BY DEF TypeOK, Refused
  <2> QED
    <3>1. /\ reading' = [reading EXCEPT ![w] = "none"]
          /\ phase' = [phase EXCEPT ![w] = "none"]
      BY DEF InstallSnapshot, RefuseResnapshot, CaptureFails, Resume
    <3>2. base' \in [Watchers -> Refused .. MaxEvents]
      <4>1. \/ base' = [base EXCEPT ![w] = IF @ = Refused THEN @ ELSE fresh[w]]
            \/ base' = [base EXCEPT ![w] = Refused]
        BY DEF InstallSnapshot, RefuseResnapshot, CaptureFails
      <4>2. base \in [Watchers -> Refused .. MaxEvents]
        BY DEF TypeOK
      <4> QED
        BY <2>1, <4>1, <4>2
    <3>3. state' = state \/ state' = [state EXCEPT ![w] = IF reading[w] = "first" THEN "unsubscribed" ELSE @]
      BY DEF InstallSnapshot, RefuseResnapshot, CaptureFails, Resume
    <3>4. state' \in [Watchers -> {"none", "buffering", "started", "unsubscribed"}]
      BY <3>3 DEF TypeOK
    <3> QED
      BY <3>1, <3>2, <3>4 DEF TypeOK
<1>4. /\ line' \in {"free", "commit", "watch"} /\ open' \in BOOLEAN
      /\ \A v \in Watchers : v # w /\ reading[v] \in {"first", "again"} => line' = "watch"
  BY DEF InstallSnapshot, RefuseResnapshot, CaptureFails, harnessVars, TypeOK
<1>5. UNCHANGED <<committed, published, bus, listening, epoch, fresh>>
  BY DEF InstallSnapshot, RefuseResnapshot, CaptureFails, harnessVars, Resume
<1>6. reading' \in [Watchers -> {"none", "first", "asked", "again", "done"}]
  BY <1>3 DEF TypeOK
<1>7. \A u, v \in Watchers :
        reading'[u] \in {"first", "again"} =>
          line' = "watch" /\ (reading'[v] \in {"first", "again"} => v = u)
  <2> SUFFICES ASSUME NEW u \in Watchers, NEW v \in Watchers, reading'[u] \in {"first", "again"}
               PROVE  line' = "watch" /\ (reading'[v] \in {"first", "again"} => v = u)
    OBVIOUS
  <2>1. \A x \in Watchers : reading'[x] = IF x = w THEN "none" ELSE reading[x]
    BY <1>3 DEF TypeOK
  <2>2. u # w /\ reading[u] \in {"first", "again"}
    BY <2>1
  <2>3. reading'[v] \in {"first", "again"} => v # w /\ reading[v] \in {"first", "again"}
    BY <2>1
  <2> QED
    BY <1>4, <2>2, <2>3 DEF TypeOK
<1> QED
  BY <1>1, <1>2, <1>3, <1>4, <1>5, <1>6, <1>7 DEF TypeOK, Waiting

LEMMA TypesNext == TypeOK /\ [Next]_vars => TypeOK'
<1> SUFFICES ASSUME TypeOK, [Next]_vars PROVE TypeOK'
  OBVIOUS
<1>1. CASE UNCHANGED vars
  BY <1>1 DEF vars, harnessVars, streamVars, startVars, againVars, TypeOK, Waiting
<1>2. CASE BeginCommit \/ EndCommit \/ Close \/ Deliver
  BY <1>2, TypesCommit, TypesDeliver
<1>3. ASSUME NEW w \in Watchers,
             \/ BeginWatch(w) \/ Start(w) \/ Unsubscribe(w) \/ Resnapshot(w) \/ Answer(w)
             \/ TakeEvent(w) \/ ListenerReturns(w)
      PROVE  TypeOK'
  BY <1>3, TypesWatch, TypesTake, TypesAsk, TypesEnd DEF Answer
<1> QED
  BY <1>1, <1>2, <1>3 DEF Next

\* The bus, the watches and the mutation line keep their types, and one capture
\* at a time holds the line.
THEOREM WatchTypesHold == Spec => []TypeOK
  BY TypesInit, TypesNext, PTL DEF Spec

----------------------------------------------------------------------------
(* A step of one watch leaves the others alone.                             *)

WatchStep(w) ==
  \/ BeginWatch(w) \/ Start(w) \/ Unsubscribe(w) \/ Resnapshot(w) \/ Answer(w)
  \/ TakeEvent(w) \/ ListenerReturns(w)

Kept(v) ==
  /\ state'[v] = state[v] /\ base'[v] = base[v] /\ heard'[v] = heard[v]
  /\ buffer'[v] = buffer[v] /\ tail'[v] = tail[v] /\ epoch'[v] = epoch[v]
  /\ phase'[v] = phase[v] /\ held'[v] = held[v]
  /\ reading'[v] = reading[v] /\ fresh'[v] = fresh[v]

LEMMA OthersKeep ==
  ASSUME TypeOK, NEW w \in Watchers, NEW v \in Watchers, v # w, WatchStep(w)
  PROVE  Kept(v)
<1>1. CASE BeginWatch(w) \/ EndWatch(w) \/ Start(w) \/ Unsubscribe(w)
  <2>1. CASE BeginWatch(w) \/ EndWatch(w)
    BY <2>1 DEF TypeOK, BeginWatch, EndWatch, Kept, streamVars, startVars, againVars
  <2>2. CASE Start(w)
    BY <2>2 DEF TypeOK, Start, Kept, streamVars, startVars, againVars
  <2>3. CASE Unsubscribe(w)
    BY <2>3 DEF TypeOK, Unsubscribe, Kept, streamVars, startVars, againVars
  <2> QED
    BY <1>1, <2>1, <2>2, <2>3
<1>2. CASE Resnapshot(w) \/ BeginCapture(w) \/ EndCapture(w)
  BY <1>2 DEF TypeOK, Resnapshot, BeginCapture, EndCapture, Kept, streamVars, startVars, againVars
<1>3. CASE InstallSnapshot(w) \/ RefuseResnapshot(w) \/ CaptureFails(w)
  <2>1. buffer'[v] = buffer[v] /\ tail'[v] = tail[v]
    <3>1. PICK W, events : v \notin W /\ Push(W, events)
      BY <1>3 DEF InstallSnapshot, RefuseResnapshot, CaptureFails, Resume
    <3> QED
      BY <3>1 DEF TypeOK, Push
  <2>2. base'[v] = base[v] /\ state'[v] = state[v]
    BY <1>3 DEF TypeOK, InstallSnapshot, RefuseResnapshot, CaptureFails, Resume
  <2>3. /\ heard'[v] = heard[v] /\ epoch'[v] = epoch[v]
        /\ phase'[v] = phase[v] /\ held'[v] = held[v]
        /\ reading'[v] = reading[v] /\ fresh'[v] = fresh[v]
    BY <1>3 DEF TypeOK, InstallSnapshot, RefuseResnapshot, CaptureFails, Resume
  <2> QED
    BY <2>1, <2>2, <2>3 DEF Kept
<1>4. CASE TakeEvent(w)
  BY <1>4 DEF TypeOK, TakeEvent, Kept, harnessVars, againVars
<1>5. CASE ListenerReturns(w)
  BY <1>5 DEF TypeOK, ListenerReturns, Kept, harnessVars, streamVars, againVars
<1> QED
  BY <1>1, <1>2, <1>3, <1>4, <1>5 DEF WatchStep, Answer

LEMMA HarnessOf ==
  ASSUME NEW w \in Watchers, WatchStep(w)
  PROVE  /\ UNCHANGED <<committed, published>> /\ (open' => open)
         /\ UNCHANGED bus \/ EndCapture(w)
<1>1. CASE BeginWatch(w) \/ EndWatch(w)
  BY <1>1 DEF BeginWatch, EndWatch
<1>2. CASE Start(w)
  BY <1>2 DEF Start, harnessVars
<1>3. CASE Unsubscribe(w)
  BY <1>3 DEF Unsubscribe, harnessVars
<1>4. CASE Resnapshot(w) \/ BeginCapture(w) \/ EndCapture(w)
  BY <1>4 DEF Resnapshot, BeginCapture, EndCapture, harnessVars
<1>5. CASE InstallSnapshot(w) \/ RefuseResnapshot(w) \/ CaptureFails(w)
  BY <1>5 DEF InstallSnapshot, RefuseResnapshot, CaptureFails, Resume, harnessVars
<1>6. CASE TakeEvent(w) \/ ListenerReturns(w)
  BY <1>6 DEF TakeEvent, ListenerReturns, harnessVars
<1> QED
  BY <1>1, <1>2, <1>3, <1>4, <1>5, <1>6 DEF WatchStep, Answer

\* A commit, a close and an idle step keep every watch as it is.
QuietStep == BeginCommit \/ EndCommit \/ Close \/ UNCHANGED vars

LEMMA QuietKeeps ==
  ASSUME QuietStep, NEW v \in Watchers
  PROVE  Kept(v) /\ (open' => open)
  BY DEF QuietStep, BeginCommit, EndCommit, Close, vars, harnessVars, streamVars, startVars,
         againVars, Kept

LEMMA NextCases ==
  ASSUME [Next]_vars
  PROVE  QuietStep \/ DeliverEvent \/ ReachBarrier \/ \E w \in Watchers : WatchStep(w)
  BY DEF Next, QuietStep, Deliver, WatchStep

----------------------------------------------------------------------------
(* What a watch is at.                                                      *)

LEMMA KeptMatches ==
  ASSUME NEW v \in Watchers, Matched(v), Kept(v), open' => open
  PROVE  Matched(v)'
  BY DEF Matched, Kept

LEMMA PushLeaves ==
  ASSUME TypeOK, NEW W, NEW events, NEW v \in Watchers, Push(W, events)
  PROVE  /\ state[v] # "buffering" \/ v \notin W => buffer'[v] = buffer[v]
         /\ state[v] # "started" \/ v \notin W => tail'[v] = tail[v]
         /\ state[v] = "buffering" /\ v \in W =>
              buffer'[v] = buffer[v] \o Entries(v, events[v])
         /\ state[v] = "started" /\ v \in W =>
              tail'[v] = tail[v] \o Entries(v, events[v])
  BY DEF Push

LEMMA MatchDeliver ==
  ASSUME TypeOK, WatchMatches, BusMatches, DeliverEvent \/ ReachBarrier, NEW v \in Watchers
  PROVE  Matched(v)'
<1>1. CASE DeliverEvent
  <2>1. /\ UNCHANGED <<state, base, heard, phase, reading, open>>
        /\ phase[v] # "holding" => held'[v] = held[v]
    BY <1>1 DEF DeliverEvent, Holding, harnessVars, startVars
  <2>2. Push({w \in Head(bus).to : phase[w] = "none"}, Everyone(<<Head(bus).event>>))
    BY <1>1 DEF DeliverEvent
  <2>3. /\ state[v] # "buffering" \/ v \notin Head(bus).to => buffer'[v] = buffer[v]
        /\ state[v] # "started" => tail'[v] = tail[v]
    <3>1. PICK W, events : W \subseteq Head(bus).to /\ Push(W, events)
      BY <2>2
    <3> QED
      BY <3>1, PushLeaves
  <2>4. reading[v] = "first" => v \notin Head(bus).to
    <3>1. Head(bus) = bus[1] /\ 1 \in DOMAIN bus
      BY <1>1, HeadTailProperties, LenProperties, EmptySeq DEF DeliverEvent, TypeOK
    <3> QED
      BY <3>1 DEF BusMatches, BarrierMatches
  <2> QED
    BY <2>1, <2>3, <2>4 DEF WatchMatches, Matched
<1>2. CASE ReachBarrier
  <2>1. /\ UNCHANGED <<state, base, heard, buffer, tail, held, reading, open>>
        /\ phase'[v] = phase[v] \/ (v \in Head(bus).to /\ phase[v] = "dropping" /\ phase'[v] = "holding")
    BY <1>2 DEF ReachBarrier, harnessVars, startVars, streamVars
  <2>2. v \in Head(bus).to => reading[v] = "done"
    <3>1. /\ bus # <<>> /\ Head(bus).event = 0 /\ Head(bus) = bus[1] /\ 1 \in DOMAIN bus
      BY <1>2, HeadTailProperties, LenProperties, EmptySeq DEF ReachBarrier, TypeOK
    <3>2. v \in Head(bus).to => IsBarrier(v, 1)
      BY <3>1 DEF IsBarrier
    <3> QED
      BY <3>1, <3>2 DEF BusMatches, BarrierMatches
  <2> QED
    BY <2>1, <2>2 DEF WatchMatches, Matched
<1> QED
  BY <1>1, <1>2

LEMMA MatchWatch ==
  ASSUME TypeOK, WatchMatches, NEW w \in Watchers,
         BeginWatch(w) \/ EndWatch(w) \/ Start(w) \/ Unsubscribe(w)
  PROVE  Matched(w)'
<1>1. CASE BeginWatch(w)
  BY <1>1 DEF TypeOK, WatchMatches, Matched, BeginWatch, streamVars, NoSnapshot, Refused
<1>2. CASE EndWatch(w)
  <2>1. fresh[w] # NoSnapshot /\ fresh[w] # Refused
    BY DEF TypeOK, NoSnapshot, Refused
  <2> QED
    BY <1>2, <2>1 DEF TypeOK, WatchMatches, Matched, EndWatch, startVars
<1>3. CASE Start(w)
  BY <1>3 DEF TypeOK, WatchMatches, Matched, Start, harnessVars, againVars, NoSnapshot, Refused
<1>4. CASE Unsubscribe(w)
  BY <1>4 DEF TypeOK, WatchMatches, Matched, Unsubscribe, Subscribed, harnessVars, againVars, NoSnapshot, Refused
<1> QED
  BY <1>1, <1>2, <1>3, <1>4

LEMMA MatchTake ==
  ASSUME TypeOK, WatchMatches, NEW w \in Watchers, TakeEvent(w) \/ ListenerReturns(w)
  PROVE  Matched(w)'
<1>1. CASE TakeEvent(w)
  <2>1. tail[w] # <<>> /\ UNCHANGED <<state, base, buffer, phase, held, reading, open>>
    BY <1>1 DEF TakeEvent, harnessVars, againVars
  <2>2. state[w] # "none" /\ reading[w] # "first" /\ state[w] # "buffering" /\ base[w] # NoSnapshot
    BY <2>1 DEF WatchMatches, Matched
  <2> QED
    BY <2>1, <2>2 DEF WatchMatches, Matched
<1>2. CASE ListenerReturns(w)
  BY <1>2 DEF TypeOK, WatchMatches, Matched, ListenerReturns, harnessVars, streamVars, againVars
<1> QED
  BY <1>1, <1>2

LEMMA MatchAsk ==
  ASSUME TypeOK, WatchMatches, NEW w \in Watchers, Resnapshot(w) \/ BeginCapture(w) \/ EndCapture(w)
  PROVE  Matched(w)'
<1>1. CASE Resnapshot(w)
  <2>1. state[w] # "none" /\ base[w] # NoSnapshot
    BY <1>1 DEF Resnapshot, Subscribed
  <2>2. /\ UNCHANGED <<state, base, heard, buffer, tail, held, open>>
        /\ phase'[w] = "dropping" /\ reading'[w] = "asked" /\ phase[w] = "none"
    BY <1>1 DEF Resnapshot, TypeOK, harnessVars, streamVars
  <2> QED
    BY <2>1, <2>2 DEF WatchMatches, Matched
<1>2. CASE BeginCapture(w)
  <2>1. /\ UNCHANGED <<state, base, heard, buffer, tail, held, phase, open>> /\ open
        /\ reading[w] = "asked" /\ reading'[w] = "again"
    BY <1>2 DEF BeginCapture, TypeOK, startVars, streamVars
  <2> QED
    BY <2>1 DEF WatchMatches, Matched
<1>3. CASE EndCapture(w)
  <2>1. /\ UNCHANGED <<state, base, heard, buffer, tail, held, phase, open>>
        /\ reading[w] = "again" /\ reading'[w] = "done"
    BY <1>3 DEF EndCapture, TypeOK, startVars, streamVars
  <2> QED
    BY <2>1 DEF WatchMatches, Matched
<1> QED
  BY <1>1, <1>2, <1>3

LEMMA MatchEnd ==
  ASSUME TypeOK, WatchMatches, NEW w \in Watchers,
         InstallSnapshot(w) \/ RefuseResnapshot(w) \/ CaptureFails(w)
  PROVE  Matched(w)'
<1>1. /\ phase'[w] = "none" /\ reading'[w] = "none" /\ held'[w] = <<>> /\ heard'[w] = <<>>
  BY DEF InstallSnapshot, RefuseResnapshot, CaptureFails, Resume, TypeOK
<1>2. CASE InstallSnapshot(w) \/ RefuseResnapshot(w)
  <2>1. /\ state[w] # "buffering" => buffer'[w] = buffer[w]
        /\ state[w] # "started" => tail'[w] = tail[w]
        /\ UNCHANGED <<state, open>>
    <3>1. Push({w}, held) /\ UNCHANGED <<state, open>>
      BY <1>2 DEF InstallSnapshot, RefuseResnapshot, Resume, harnessVars
    <3> QED
      BY <3>1, PushLeaves
  <2>2. state[w] # "none" /\ reading[w] # "first"
    BY <1>2 DEF InstallSnapshot, RefuseResnapshot, WatchMatches, Matched
  <2>3. base'[w] # NoSnapshot
    BY <1>2 DEF InstallSnapshot, RefuseResnapshot, TypeOK, NoSnapshot, Refused
  <2>4. base'[w] = Refused => ~open
    <3>1. fresh[w] # Refused
      BY DEF TypeOK, Refused
    <3> QED
      BY <1>2, <3>1 DEF InstallSnapshot, RefuseResnapshot, TypeOK, WatchMatches, Matched
  <2> QED
    BY <1>1, <2>1, <2>2, <2>3, <2>4 DEF WatchMatches, Matched
<1>3. CASE CaptureFails(w)
  <2>1. base'[w] = Refused /\ ~open' /\ Refused # NoSnapshot
    BY <1>3 DEF CaptureFails, TypeOK, Refused, NoSnapshot
  <2>2. CASE reading[w] = "first"
    <3>1. state'[w] = "unsubscribed" /\ state[w] = "buffering"
      BY <1>3, <2>2 DEF CaptureFails, TypeOK, WatchMatches, Matched
    <3>2. Push({}, held)
      BY <1>3, <2>2 DEF CaptureFails
    <3>3. buffer'[w] = <<>>
      BY <2>2, <3>2 DEF Push, WatchMatches, Matched
    <3> QED
      BY <1>1, <2>1, <3>1, <3>3 DEF Matched
  <2>3. CASE reading[w] = "again"
    <3>1. state'[w] = state[w] /\ state[w] # "none"
      BY <1>3, <2>3 DEF CaptureFails, TypeOK, WatchMatches, Matched
    <3>2. /\ state[w] # "buffering" => buffer'[w] = buffer[w]
          /\ state[w] # "started" => tail'[w] = tail[w]
      BY <1>3, PushLeaves DEF CaptureFails
    <3> QED
      BY <1>1, <2>1, <3>1, <3>2 DEF WatchMatches, Matched
  <2> QED
    BY <1>3, <2>2, <2>3 DEF CaptureFails
<1> QED
  BY <1>2, <1>3

LEMMA MatchesNext ==
  ASSUME TypeOK, WatchMatches, BusMatches, [Next]_vars
  PROVE  WatchMatches'
<1> SUFFICES ASSUME NEW v \in Watchers PROVE Matched(v)'
  BY DEF WatchMatches
<1>1. Matched(v)
  BY DEF WatchMatches
<1>2. CASE QuietStep
  BY <1>1, <1>2, QuietKeeps, KeptMatches
<1>3. CASE DeliverEvent \/ ReachBarrier
  BY <1>3, MatchDeliver
<1>4. ASSUME NEW w \in Watchers, WatchStep(w) PROVE Matched(v)'
  <2>1. CASE v = w
    BY <1>4, <2>1, MatchWatch, MatchTake, MatchAsk, MatchEnd DEF WatchStep, Answer
  <2>2. CASE v # w
    <3>1. Kept(v) /\ (open' => open)
      BY <1>4, <2>2, OthersKeep, HarnessOf
    <3> QED
      BY <1>1, <3>1, KeptMatches
  <2> QED
    BY <2>1, <2>2
<1> QED
  BY <1>2, <1>3, <1>4, NextCases

----------------------------------------------------------------------------
(* Epochs.                                                                  *)

LEMMA EpochPush ==
  ASSUME NEW queue \in Seq(Waiting), NEW s \in Seq(1 .. MaxEvents), NEW w \in Watchers,
         epoch[w] \in 0 .. MaxResnapshots,
         \A i \in DOMAIN queue : queue[i].epoch <= epoch[w]
  PROVE  \A i \in DOMAIN (queue \o Entries(w, s)) : (queue \o Entries(w, s))[i].epoch <= epoch[w]
<1> DEFINE t == Entries(w, s)
           u == queue \o t
<1>1. t \in Seq(Waiting) /\ \A i \in 1 .. Len(t) : t[i].epoch = epoch[w]
  BY EntriesType
<1> HIDE DEF t
<1>2. /\ u \in Seq(Waiting) /\ Len(u) = Len(queue) + Len(t)
      /\ \A i \in 1 .. Len(queue) + Len(t) :
           u[i] = IF i <= Len(queue) THEN queue[i] ELSE t[i - Len(queue)]
  BY <1>1, ConcatProperties
<1>3. DOMAIN u = 1 .. Len(u) /\ DOMAIN queue = 1 .. Len(queue) /\ Len(t) \in Nat /\ Len(queue) \in Nat
  BY <1>1, <1>2, LenProperties
<1> HIDE DEF u
<1>4. ASSUME NEW i \in DOMAIN u PROVE u[i].epoch <= epoch[w]
  <2>1. i \in 1 .. Len(queue) + Len(t)
    BY <1>2, <1>3
  <2>2. CASE i <= Len(queue)
    <3>1. i \in DOMAIN queue
      BY <1>3, <2>1, <2>2
    <3> QED
      BY <1>2, <2>1, <2>2, <3>1
  <2>3. CASE ~(i <= Len(queue))
    <3>1. i - Len(queue) \in 1 .. Len(t)
      BY <1>3, <2>1, <2>3
    <3>2. u[i] = t[i - Len(queue)]
      BY <1>2, <2>1, <2>3
    <3>3. t[i - Len(queue)].epoch = epoch[w]
      BY <1>1, <3>1
    <3> QED
      BY <3>2, <3>3
  <2> QED
    BY <2>2, <2>3
<1> QED
  BY <1>4 DEF u, t

LEMMA EpochDeliver ==
  ASSUME TypeOK, EpochsMatch, DeliverEvent \/ ReachBarrier, NEW v \in Watchers
  PROVE  EpochMatches(v)'
<1>1. CASE DeliverEvent
  <2>1. phase' = phase /\ epoch' = epoch
    BY <1>1 DEF DeliverEvent, startVars
  <2> DEFINE W == {w \in Head(bus).to : phase[w] = "none"}
             events == Everyone(<<Head(bus).event>>)
  <2>2. Push(W, events)
    BY <1>1 DEF DeliverEvent
  <2>3. v \in W => phase[v] = "none"
    OBVIOUS
  <2>4. events[v] \in Seq(1 .. MaxEvents)
    BY <1>1, OneEvent DEF DeliverEvent
  <2> HIDE DEF W, events
  <2>5. /\ buffer'[v] = buffer[v] \/ (v \in W /\ buffer'[v] = buffer[v] \o Entries(v, events[v]))
        /\ tail'[v] = tail[v] \/ (v \in W /\ tail'[v] = tail[v] \o Entries(v, events[v]))
    BY <2>2 DEF Push
  <2>6. EpochMatches(v)
    BY DEF EpochsMatch
  <2>7. \A i \in DOMAIN buffer'[v] : buffer'[v][i].epoch <= epoch[v]
    BY <2>4, <2>5, <2>6, TypesOf, EpochPush DEF EpochMatches
  <2>8. \A i \in DOMAIN tail'[v] : tail'[v][i].epoch <= epoch[v]
    BY <2>4, <2>5, <2>6, TypesOf, EpochPush DEF EpochMatches
  <2>9. phase[v] # "none" => buffer'[v] = buffer[v] /\ tail'[v] = tail[v]
    BY <2>3, <2>5
  <2> QED
    BY <2>1, <2>6, <2>7, <2>8, <2>9 DEF EpochMatches
<1>2. CASE ReachBarrier
  <2>1. /\ UNCHANGED <<tail, buffer, epoch>>
        /\ phase'[v] # "none" => phase[v] # "none"
    BY <1>2 DEF ReachBarrier, streamVars, startVars
  <2> QED
    BY <2>1 DEF EpochsMatch, EpochMatches
<1> QED
  BY <1>1, <1>2

LEMMA StartKeepsQueue ==
  ASSUME TypeOK, WatchMatches, NEW w \in Watchers, Start(w)
  PROVE  tail'[w] = buffer[w] /\ tail[w] = <<>> /\ buffer'[w] = <<>>
<1>1. state[w] = "buffering" /\ tail' = [tail EXCEPT ![w] = tail[w] \o buffer[w]]
      /\ buffer' = [buffer EXCEPT ![w] = <<>>]
  BY DEF Start
<1>2. tail[w] = <<>>
  BY <1>1 DEF WatchMatches, Matched
<1>3. <<>> \o buffer[w] = buffer[w]
  BY TypesOf, ConcatEmptySeq
<1> QED
  BY <1>1, <1>2, <1>3 DEF TypeOK

LEMMA EpochStep ==
  ASSUME TypeOK, WatchMatches, EpochsMatch, NEW w \in Watchers, WatchStep(w)
  PROVE  EpochMatches(w)'
<1>1. EpochMatches(w)
  BY DEF EpochsMatch
<1>2. CASE BeginWatch(w) \/ EndWatch(w) \/ BeginCapture(w) \/ EndCapture(w) \/ ListenerReturns(w)
  <2>1. UNCHANGED <<tail, buffer, epoch, phase>>
    BY <1>2 DEF BeginWatch, EndWatch, BeginCapture, EndCapture, ListenerReturns, streamVars,
                startVars, againVars
  <2> QED
    BY <1>1, <2>1 DEF EpochMatches
<1>3. CASE Start(w)
  <2>1. UNCHANGED <<epoch, phase>>
    BY <1>3 DEF Start, againVars
  <2> QED
    BY <1>1, <1>3, <2>1, StartKeepsQueue DEF EpochMatches
<1>4. CASE Unsubscribe(w)
  <2>1. UNCHANGED <<tail, epoch, phase>> /\ buffer'[w] = <<>>
    BY <1>4 DEF Unsubscribe, againVars, TypeOK
  <2> QED
    BY <1>1, <2>1 DEF EpochMatches
<1>5. CASE Resnapshot(w)
  <2>1. UNCHANGED <<tail, buffer>> /\ epoch'[w] = epoch[w] + 1
    BY <1>5 DEF Resnapshot, streamVars, TypeOK
  <2>2. /\ \A i \in DOMAIN tail[w] : tail[w][i].epoch \in Nat
        /\ \A i \in DOMAIN buffer[w] : buffer[w][i].epoch \in Nat
        /\ epoch[w] \in Nat
    <3>1. ASSUME NEW queue \in Seq(Waiting), NEW i \in DOMAIN queue PROVE queue[i].epoch \in Nat
      <4>1. queue[i] \in Waiting
        BY ElementOfSeq, LenProperties
      <4> QED
        BY <4>1 DEF Waiting
    <3>2. tail[w] \in Seq(Waiting) /\ buffer[w] \in Seq(Waiting) /\ epoch[w] \in Nat
      BY TypesOf
    <3> QED
      BY <3>1, <3>2
  <2> QED
    BY <1>1, <2>1, <2>2 DEF EpochMatches
<1>6. CASE TakeEvent(w)
  <2>1. /\ UNCHANGED <<buffer, epoch, phase>>
        /\ tail[w] # <<>> /\ tail'[w] = Tail(tail[w])
    BY <1>6 DEF TakeEvent, againVars, TypeOK
  <2>2. /\ DOMAIN tail'[w] = 1 .. Len(tail[w]) - 1 /\ DOMAIN tail[w] = 1 .. Len(tail[w])
        /\ \A i \in 1 .. Len(tail[w]) - 1 : tail'[w][i] = tail[w][i + 1]
        /\ Len(tail[w]) \in Nat
    BY <2>1, TypesOf, HeadTailProperties, LenProperties
  <2>3. \A i \in DOMAIN tail'[w] : \E j \in DOMAIN tail[w] : tail'[w][i] = tail[w][j]
    <3> TAKE i \in DOMAIN tail'[w]
    <3>1. i + 1 \in DOMAIN tail[w] /\ tail'[w][i] = tail[w][i + 1]
      BY <2>2
    <3> QED
      BY <3>1
  <2> QED
    BY <1>1, <2>1, <2>3 DEF EpochMatches
<1>7. CASE InstallSnapshot(w) \/ RefuseResnapshot(w) \/ CaptureFails(w)
  <2>1. epoch' = epoch /\ phase'[w] = "none" /\ (Push({w}, held) \/ Push({}, held))
    BY <1>7 DEF InstallSnapshot, RefuseResnapshot, CaptureFails, Resume, TypeOK
  <2>2. /\ buffer'[w] = buffer[w] \/ buffer'[w] = buffer[w] \o Entries(w, held[w])
        /\ tail'[w] = tail[w] \/ tail'[w] = tail[w] \o Entries(w, held[w])
    BY <2>1 DEF Push
  <2>3. \A i \in DOMAIN buffer'[w] : buffer'[w][i].epoch <= epoch[w]
    BY <1>1, <2>2, TypesOf, EpochPush DEF EpochMatches
  <2>4. \A i \in DOMAIN tail'[w] : tail'[w][i].epoch <= epoch[w]
    BY <1>1, <2>2, TypesOf, EpochPush DEF EpochMatches
  <2> QED
    BY <2>1, <2>3, <2>4 DEF EpochMatches
<1> QED
  BY <1>2, <1>3, <1>4, <1>5, <1>6, <1>7 DEF WatchStep, Answer

LEMMA EpochsNext ==
  ASSUME TypeOK, WatchMatches, EpochsMatch, [Next]_vars
  PROVE  EpochsMatch'
<1> SUFFICES ASSUME NEW v \in Watchers PROVE EpochMatches(v)'
  BY DEF EpochsMatch
<1>1. ASSUME Kept(v) PROVE EpochMatches(v)'
  BY <1>1 DEF Kept, EpochsMatch, EpochMatches
<1>2. CASE QuietStep
  BY <1>1, <1>2, QuietKeeps
<1>3. CASE DeliverEvent \/ ReachBarrier
  BY <1>3, EpochDeliver
<1>4. ASSUME NEW w \in Watchers, WatchStep(w) PROVE EpochMatches(v)'
  BY <1>1, <1>4, EpochStep, OthersKeep
<1> QED
  BY <1>2, <1>3, <1>4, NextCases

----------------------------------------------------------------------------
(* The bus.                                                                 *)

\* Any item of a longer bus is an item of the old one or a new one.
LEMMA BusConcat ==
  ASSUME NEW b \in Seq(BusItem), NEW c \in Seq(BusItem)
  PROVE  /\ b \o c \in Seq(BusItem)
         /\ \A i \in DOMAIN b : i \in DOMAIN (b \o c) /\ (b \o c)[i] = b[i]
         /\ \A i \in DOMAIN (b \o c) :
              i \in DOMAIN b \/ \E j \in DOMAIN c : (b \o c)[i] = c[j]
<1> DEFINE u == b \o c
<1>1. /\ u \in Seq(BusItem) /\ Len(u) = Len(b) + Len(c)
      /\ \A i \in 1 .. Len(b) + Len(c) : u[i] = IF i <= Len(b) THEN b[i] ELSE c[i - Len(b)]
  BY ConcatProperties
<1>2. /\ DOMAIN u = 1 .. Len(b) + Len(c) /\ DOMAIN b = 1 .. Len(b) /\ DOMAIN c = 1 .. Len(c)
      /\ Len(b) \in Nat /\ Len(c) \in Nat
  BY <1>1, LenProperties
<1> HIDE DEF u
<1>3. ASSUME NEW i \in DOMAIN b PROVE i \in DOMAIN u /\ u[i] = b[i]
  <2>1. i \in 1 .. Len(b) + Len(c) /\ i <= Len(b)
    BY <1>2
  <2> QED
    BY <1>1, <1>2, <2>1
<1>4. ASSUME NEW i \in DOMAIN u PROVE i \in DOMAIN b \/ \E j \in DOMAIN c : u[i] = c[j]
  <2>1. CASE i <= Len(b)
    BY <1>2, <2>1
  <2>2. CASE ~(i <= Len(b))
    <3>1. i - Len(b) \in DOMAIN c
      BY <1>2, <2>2
    <3>2. u[i] = c[i - Len(b)]
      BY <1>1, <1>2, <2>2
    <3> QED
      BY <3>1, <3>2
  <2> QED
    BY <2>1, <2>2
<1> QED
  BY <1>1, <1>3, <1>4 DEF u

\* More of the bus without a barrier for this watch.
LEMMA BarrierKept ==
  ASSUME NEW v \in Watchers, BarrierMatches(v),
         state'[v] = state[v], phase'[v] = phase[v], reading'[v] = reading[v],
         \A i \in DOMAIN bus : i \in DOMAIN bus' /\ bus'[i] = bus[i],
         \A i \in DOMAIN bus' :
           i \in DOMAIN bus \/ (/\ ~IsBarrier(v, i)'
                                /\ state[v] = "none" \/ reading[v] = "first" => v \notin bus'[i].to)
  PROVE  BarrierMatches(v)'
<1>1. \A i \in DOMAIN bus' : IsBarrier(v, i)' => i \in DOMAIN bus /\ IsBarrier(v, i)
  BY DEF IsBarrier
<1>2. \A i \in DOMAIN bus : IsBarrier(v, i) => i \in DOMAIN bus' /\ IsBarrier(v, i)'
  BY DEF IsBarrier
<1>3. state[v] = "none" \/ reading[v] = "first" => \A i \in DOMAIN bus' : v \notin bus'[i].to
  BY DEF BarrierMatches
<1>4. phase[v] = "dropping" /\ reading[v] = "done" => \E i \in DOMAIN bus' : IsBarrier(v, i)'
  BY <1>2 DEF BarrierMatches
<1>5. /\ \A i \in DOMAIN bus' : IsBarrier(v, i)' => phase[v] = "dropping" /\ reading[v] = "done"
      /\ \A i, j \in DOMAIN bus' : IsBarrier(v, i)' /\ IsBarrier(v, j)' => i = j
  BY <1>1 DEF BarrierMatches
<1> QED
  BY <1>3, <1>4, <1>5 DEF BarrierMatches

LEMMA BarrierCommit ==
  ASSUME TypeOK, BusMatches, EndCommit, NEW v \in Watchers
  PROVE  BarrierMatches(v)'
<1>1. BarrierMatches(v) /\ UNCHANGED <<state, phase, reading>>
  BY DEF BusMatches, EndCommit, startVars, againVars
<1>2. reading[v] # "first"
  BY DEF EndCommit, TypeOK
<1>3. CASE bus' = bus
  BY <1>1, <1>3, BarrierKept
<1>4. CASE bus' # bus
  <2>1. PICK n \in 1 .. 2 : /\ committed + n <= MaxEvents
                            /\ bus' = bus \o [i \in 1 .. n |-> [event |-> published + i, to |-> Subscribed]]
    BY <1>4 DEF EndCommit
  <2> DEFINE new == [i \in 1 .. n |-> [event |-> published + i, to |-> Subscribed]]
  <2>2. \A i \in 1 .. n : published + i \in 1 .. MaxEvents
    BY <2>1 DEF TypeOK
  <2>3. new \in Seq(BusItem) /\ DOMAIN new = 1 .. n
    <3>1. new \in [1 .. n -> BusItem]
      BY <2>2 DEF BusItem, Subscribed
    <3> QED
      BY <3>1, SeqDef
  <2>4. \A j \in DOMAIN new : new[j].event # 0 /\ new[j].to = Subscribed
    BY <2>2, <2>3
  <2> HIDE DEF new
  <2>5. bus \in Seq(BusItem) /\ bus' = bus \o new
    BY <2>1 DEF new, TypeOK, BusItem
  <2>6. \A i \in DOMAIN bus : i \in DOMAIN bus' /\ bus'[i] = bus[i]
    BY <2>3, <2>5, BusConcat
  <2>7. \A i \in DOMAIN bus' : i \in DOMAIN bus \/ (bus'[i].event # 0 /\ bus'[i].to = Subscribed)
    BY <2>3, <2>4, <2>5, BusConcat
  <2>8. state[v] = "none" => v \notin Subscribed
    BY DEF Subscribed
  <2> QED
    BY <1>1, <1>2, <2>6, <2>7, <2>8, BarrierKept DEF IsBarrier
<1> QED
  BY <1>3, <1>4

LEMMA BarrierDeliver ==
  ASSUME TypeOK, BusMatches, DeliverEvent \/ ReachBarrier, NEW v \in Watchers
  PROVE  BarrierMatches(v)'
<1>1. BarrierMatches(v) /\ state' = state /\ reading' = reading
  BY DEF BusMatches, DeliverEvent, ReachBarrier, startVars
<1>2. bus # <<>> /\ bus' = Tail(bus) /\ bus \in Seq(BusItem)
  BY DEF DeliverEvent, ReachBarrier, TypeOK, BusItem
<1>3. /\ DOMAIN bus = 1 .. Len(bus) /\ DOMAIN bus' = 1 .. Len(bus) - 1 /\ Len(bus) \in Nat \ {0}
      /\ Head(bus) = bus[1]
      /\ \A i \in 1 .. Len(bus) - 1 : bus'[i] = bus[i + 1]
  BY <1>2, HeadTailProperties, LenProperties, EmptySeq
<1>4. ASSUME NEW i \in DOMAIN bus' PROVE i + 1 \in DOMAIN bus /\ bus'[i] = bus[i + 1] /\ i + 1 # 1
  BY <1>3
<1>5. \A i \in DOMAIN bus' : IsBarrier(v, i)' => IsBarrier(v, i + 1)
  BY <1>4 DEF IsBarrier
<1>6. ASSUME NEW i \in DOMAIN bus, i # 1, IsBarrier(v, i)
      PROVE  i - 1 \in DOMAIN bus' /\ IsBarrier(v, i - 1)'
  <2>1. i - 1 \in DOMAIN bus' /\ i - 1 + 1 = i
    BY <1>3, <1>6
  <2>2. bus'[i - 1] = bus[i]
    BY <1>3, <2>1
  <2> QED
    BY <1>6, <2>1, <2>2 DEF IsBarrier
<1>7. state[v] = "none" \/ reading[v] = "first" => \A i \in DOMAIN bus' : v \notin bus'[i].to
  BY <1>1, <1>4 DEF BarrierMatches
<1>8. \A i, j \in DOMAIN bus' : IsBarrier(v, i)' /\ IsBarrier(v, j)' => i = j
  <2> SUFFICES ASSUME NEW i \in DOMAIN bus', NEW j \in DOMAIN bus', IsBarrier(v, i)', IsBarrier(v, j)'
               PROVE  i = j
    OBVIOUS
  <2>1. i + 1 = j + 1
    BY <1>1, <1>4, <1>5 DEF BarrierMatches
  <2> QED
    BY <1>3, <2>1
<1>9. CASE IsBarrier(v, 1)
  <2>1. \A i \in DOMAIN bus' : ~IsBarrier(v, i)'
    BY <1>1, <1>3, <1>4, <1>5, <1>9 DEF BarrierMatches
  <2>2. phase'[v] = "holding"
    BY <1>1, <1>3, <1>9 DEF DeliverEvent, ReachBarrier, IsBarrier, BarrierMatches
  <2> QED
    BY <1>1, <1>7, <2>1, <2>2 DEF BarrierMatches
<1>10. CASE ~IsBarrier(v, 1)
  <2>1. phase'[v] = phase[v]
    BY <1>3, <1>10 DEF DeliverEvent, ReachBarrier, IsBarrier
  <2>2. phase[v] = "dropping" /\ reading[v] = "done" => \E i \in DOMAIN bus' : IsBarrier(v, i)'
    BY <1>1, <1>6, <1>10 DEF BarrierMatches
  <2>3. \A i \in DOMAIN bus' : IsBarrier(v, i)' => phase[v] = "dropping" /\ reading[v] = "done"
    BY <1>1, <1>4, <1>5 DEF BarrierMatches
  <2> QED
    BY <1>1, <1>7, <1>8, <2>1, <2>2, <2>3 DEF BarrierMatches
<1> QED
  BY <1>9, <1>10

LEMMA BarrierCapture ==
  ASSUME TypeOK, BusMatches, WatchMatches, NEW w \in Watchers, EndCapture(w), NEW v \in Watchers
  PROVE  BarrierMatches(v)'
<1> DEFINE x == [event |-> 0, to |-> {w}]
<1>1. BarrierMatches(v) /\ UNCHANGED <<state, phase>> /\ bus' = Append(bus, x) /\ bus \in Seq(BusItem)
      /\ reading' = [reading EXCEPT ![w] = "done"] /\ reading[w] = "again"
  BY DEF BusMatches, EndCapture, startVars, TypeOK, BusItem
<1>2. x \in BusItem /\ x.event = 0 /\ x.to = {w}
  BY DEF BusItem
<1> HIDE DEF x
<1>3. PICK k \in Nat : k = Len(bus) + 1
  BY <1>1, LenProperties
<1>4. /\ \A i \in DOMAIN bus : i \in DOMAIN bus' /\ bus'[i] = bus[i]
      /\ \A i \in DOMAIN bus' : i \in DOMAIN bus \/ i = k
      /\ k \in DOMAIN bus' /\ bus'[k] = x
  <2>1. /\ DOMAIN bus = 1 .. Len(bus) /\ DOMAIN bus' = 1 .. Len(bus) + 1 /\ Len(bus) \in Nat
        /\ \A i \in 1 .. Len(bus) : bus'[i] = bus[i]
        /\ bus'[Len(bus) + 1] = x
    BY <1>1, <1>2, AppendProperties, LenProperties
  <2> QED
    BY <1>3, <2>1
<1>5. CASE v # w
  <2>1. reading'[v] = reading[v]
    BY <1>1, <1>5 DEF TypeOK
  <2>2. \A i \in DOMAIN bus' : i \in DOMAIN bus \/ (~IsBarrier(v, i)' /\ v \notin bus'[i].to)
    BY <1>2, <1>4, <1>5 DEF IsBarrier
  <2> QED
    BY <1>1, <1>4, <2>1, <2>2, BarrierKept
<1>6. CASE v = w
  <2>1. reading'[v] = "done" /\ phase[v] = "dropping" /\ state[v] # "none"
    BY <1>1, <1>6 DEF TypeOK, WatchMatches, Matched
  <2>2. \A i \in DOMAIN bus : ~IsBarrier(v, i)
    BY <1>1, <1>6 DEF BarrierMatches
  <2>3. \A i \in DOMAIN bus' : IsBarrier(v, i)' => i = k
    BY <1>4, <2>2 DEF IsBarrier
  <2>4. IsBarrier(v, k)'
    BY <1>2, <1>4, <1>6 DEF IsBarrier
  <2> QED
    BY <1>1, <1>4, <2>1, <2>3, <2>4 DEF BarrierMatches
<1> QED
  BY <1>5, <1>6

LEMMA BarrierStep ==
  ASSUME TypeOK, BusMatches, WatchMatches, NEW w \in Watchers, WatchStep(w), ~EndCapture(w)
  PROVE  BarrierMatches(w)'
<1>1. BarrierMatches(w) /\ bus' = bus
  BY HarnessOf DEF BusMatches
<1>2. CASE BeginWatch(w)
  <2>1. state[w] = "none" /\ \A i \in DOMAIN bus : w \notin bus[i].to
    BY <1>1, <1>2 DEF BeginWatch, BarrierMatches
  <2>2. reading'[w] = "first"
    BY <1>2 DEF BeginWatch, TypeOK
  <2> QED
    BY <1>1, <2>1, <2>2 DEF BarrierMatches, IsBarrier
<1>3. CASE Start(w) \/ Unsubscribe(w) \/ TakeEvent(w) \/ ListenerReturns(w)
  <2>1. phase' = phase /\ reading' = reading /\ (state'[w] = "none" => state[w] = "none")
    BY <1>3 DEF Start, Unsubscribe, TakeEvent, ListenerReturns, againVars, TypeOK
  <2> QED
    BY <1>1, <2>1 DEF BarrierMatches, IsBarrier
<1>4. CASE \/ EndWatch(w) \/ Resnapshot(w) \/ BeginCapture(w) \/ InstallSnapshot(w)
           \/ RefuseResnapshot(w) \/ CaptureFails(w)
  <2>1. phase[w] = "holding" \/ reading[w] # "done"
    BY <1>4 DEF EndWatch, Resnapshot, BeginCapture, InstallSnapshot, RefuseResnapshot, CaptureFails,
                WatchMatches, Matched
  <2>2. \A i \in DOMAIN bus : ~IsBarrier(w, i)
    BY <1>1, <2>1 DEF BarrierMatches
  <2>3. reading'[w] # "first" /\ reading'[w] # "done"
    BY <1>4 DEF EndWatch, Resnapshot, BeginCapture, InstallSnapshot, RefuseResnapshot, CaptureFails,
                Resume, TypeOK
  <2>4. state'[w] # "none"
    <3>1. state[w] # "none"
      BY <1>4 DEF EndWatch, Resnapshot, BeginCapture, InstallSnapshot, RefuseResnapshot, CaptureFails,
                  Subscribed, WatchMatches, Matched
    <3> QED
      BY <1>4, <3>1 DEF EndWatch, Resnapshot, BeginCapture, InstallSnapshot, RefuseResnapshot, CaptureFails,
                        Resume, startVars, TypeOK
  <2> QED
    BY <1>1, <2>2, <2>3, <2>4 DEF BarrierMatches, IsBarrier
<1> QED
  BY <1>2, <1>3, <1>4 DEF WatchStep, Answer

LEMMA BusNext ==
  ASSUME TypeOK, WatchMatches, BusMatches, [Next]_vars
  PROVE  BusMatches'
<1> SUFFICES ASSUME NEW v \in Watchers PROVE BarrierMatches(v)'
  BY DEF BusMatches
<1>1. ASSUME Kept(v), bus' = bus PROVE BarrierMatches(v)'
  BY <1>1 DEF Kept, BusMatches, BarrierMatches, IsBarrier
<1>2. CASE QuietStep
  <2>1. CASE EndCommit
    BY <2>1, BarrierCommit
  <2>2. CASE ~EndCommit
    <3>1. bus' = bus
      BY <1>2, <2>2 DEF QuietStep, BeginCommit, Close, vars
    <3> QED
      BY <1>1, <1>2, <3>1, QuietKeeps
  <2> QED
    BY <2>1, <2>2
<1>3. CASE DeliverEvent \/ ReachBarrier
  BY <1>3, BarrierDeliver
<1>4. ASSUME NEW w \in Watchers, WatchStep(w) PROVE BarrierMatches(v)'
  <2>1. CASE EndCapture(w)
    BY <2>1, BarrierCapture
  <2>2. CASE ~EndCapture(w) /\ v = w
    BY <1>4, <2>2, BarrierStep
  <2>3. CASE ~EndCapture(w) /\ v # w
    <3>1. bus' = bus /\ Kept(v)
      BY <1>4, <2>3, OthersKeep, HarnessOf
    <3> QED
      BY <1>1, <3>1
  <2> QED
    BY <2>1, <2>2, <2>3
<1> QED
  BY <1>2, <1>3, <1>4, NextCases

----------------------------------------------------------------------------
(* What a listener is owed.                                                 *)

LEMMA OwedTypes ==
  ASSUME TypeOK, WatchMatches, NEW v \in Subscribed, base[v] # Refused
  PROVE  /\ v \in Watchers /\ Known(v) \in Nat /\ Pending(v) \in Seq(Waiting)
         /\ Waits(v) \in Seq(Nat) /\ Passing(v) \in Seq(Nat)
<1>1. v \in Watchers /\ state[v] # "none"
  BY DEF Subscribed
<1>2. Pending(v) \in Seq(Waiting)
  BY <1>1, TypesOf DEF Pending
<1>3. Waits(v) \in Seq(Nat)
  BY <1>2, QueuedType DEF Waits
<1>4. Passing(v) \in Seq(Nat)
  BY <1>1, TypesOf, BusType DEF Passing
<1>5. Known(v) \in Nat
  <2>1. CASE reading[v] \in {"first", "again", "done"}
    BY <1>1, <2>1, TypesOf DEF Known
  <2>2. CASE reading[v] \notin {"first", "again", "done"}
    <3>1. base[v] # NoSnapshot
      BY <1>1, <2>2 DEF WatchMatches, Matched
    <3>2. base[v] \in Nat
      <4>1. base[v] \in Refused .. MaxEvents
        BY <1>1, TypesOf
      <4> QED
        BY <3>1, <4>1 DEF NoSnapshot, Refused
    <3>3. Len(heard[v]) \in Nat
      BY <1>1, TypesOf
    <3> QED
      BY <2>2, <3>2, <3>3 DEF Known
  <2> QED
    BY <2>1, <2>2
<1> QED
  BY <1>1, <1>2, <1>3, <1>4, <1>5

LEMMA OwedKept ==
  ASSUME NEW v \in Watchers, Kept(v), Owed(v),
         \A a \in Nat : Runs(Passing(v), a, published) => Runs(Passing(v)', a, published'),
         Known(v) \in Nat
  PROVE  Owed(v)'
<1>1. /\ Waits(v)' = Waits(v) /\ Known(v)' = Known(v)
      /\ held'[v] = held[v] /\ phase'[v] = phase[v] /\ reading'[v] = reading[v]
  BY DEF Kept, Waits, Pending, Known
<1>2. ASSUME phase[v] = "none"
      PROVE  \E m \in Nat : Runs(Waits(v), Known(v), m) /\ Runs(Passing(v)', m, published')
  BY <1>2 DEF Owed
<1>3. ASSUME phase[v] = "holding"
      PROVE  \E m \in Nat : Runs(held[v], Known(v), m) /\ Runs(Passing(v)', m, published')
  BY <1>3 DEF Owed
<1>4. ASSUME phase[v] = "dropping", reading[v] = "done"
      PROVE  Runs(Passing(v)', Known(v), published')
  BY <1>4 DEF Owed
<1> QED
  BY <1>1, <1>2, <1>3, <1>4 DEF Owed, Runs

\* The bus takes the next event, bound to this watch.
LEMMA BusPublish ==
  ASSUME NEW b \in Seq(BusItem), NEW a \in Nat, NEW p \in Nat, NEW v, NEW drop \in BOOLEAN,
         NEW x \in BusItem, x.event = p + 1, v \in x.to, Runs(BusRun(b, v, drop), a, p)
  PROVE  Append(b, x) \in Seq(BusItem) /\ Runs(BusRun(Append(b, x), v, drop), a, p + 1)
<1>1. x.event # 0 /\ (x.event = 0 => v \notin x.to)
  OBVIOUS
<1>2. BusRun(Append(b, x), v, drop) = Append(BusRun(b, v, drop), p + 1)
  BY <1>1, BusAppend
<1>3. Runs(Append(BusRun(b, v, drop), p + 1), a, p + 1)
  BY BusType, RunsAppend
<1> QED
  BY <1>2, <1>3, AppendProperties

LEMMA ConcatOneOrTwo ==
  ASSUME NEW b \in Seq(BusItem), NEW n \in 1 .. 2, NEW x \in BusItem, NEW y \in BusItem,
         NEW new \in Seq(BusItem), Len(new) = n, new[1] = x, n = 2 => new[2] = y
  PROVE  /\ n = 1 => b \o new = Append(b, x)
         /\ n = 2 => b \o new = Append(Append(b, x), y)
<1> DEFINE u == b \o new
           c == Append(b, x)
           d == Append(c, y)
<1>1. /\ u \in Seq(BusItem) /\ Len(u) = Len(b) + n /\ Len(b) \in Nat
      /\ \A i \in 1 .. Len(b) + n : u[i] = IF i <= Len(b) THEN b[i] ELSE new[i - Len(b)]
  BY ConcatProperties, LenProperties
<1>2. /\ c \in Seq(BusItem) /\ Len(c) = Len(b) + 1
      /\ \A i \in 1 .. Len(b) : c[i] = b[i]
      /\ c[Len(b) + 1] = x
  BY AppendProperties
<1> HIDE DEF u, c
<1>3. /\ d \in Seq(BusItem) /\ Len(d) = Len(b) + 2
      /\ \A i \in 1 .. Len(b) + 1 : d[i] = c[i]
      /\ d[Len(b) + 2] = y
  <2>1. /\ d \in Seq(BusItem) /\ Len(d) = Len(c) + 1
        /\ \A i \in 1 .. Len(c) : d[i] = c[i]
        /\ d[Len(c) + 1] = y
    BY <1>2, AppendProperties
  <2>2. Len(c) + 1 = Len(b) + 2
    BY <1>1, <1>2
  <2> QED
    BY <1>2, <2>1, <2>2
<1> HIDE DEF d
<1>4. u[Len(b) + 1] = x
  <2>1. Len(b) + 1 \in 1 .. Len(b) + n /\ ~(Len(b) + 1 <= Len(b)) /\ Len(b) + 1 - Len(b) = 1
    BY <1>1
  <2> QED
    BY <1>1, <2>1
<1>5. \A i \in 1 .. Len(b) : u[i] = b[i]
  <2> TAKE i \in 1 .. Len(b)
  <2>1. i \in 1 .. Len(b) + n /\ i <= Len(b)
    BY <1>1
  <2> QED
    BY <1>1, <2>1
<1>6. ASSUME n = 1 PROVE u = c
  <2>1. ASSUME NEW i \in 1 .. Len(b) + 1 PROVE u[i] = c[i]
    <3>1. i \in 1 .. Len(b) \/ i = Len(b) + 1
      BY <1>1
    <3> QED
      BY <1>2, <1>4, <1>5, <3>1
  <2>2. Len(u) = Len(b) + 1
    BY <1>1, <1>6
  <2> QED
    BY <1>1, <1>2, <2>1, <2>2, SeqEqual
<1>7. ASSUME n = 2 PROVE u = d
  <2>1. u[Len(b) + 2] = y
    <3>1. Len(b) + 2 \in 1 .. Len(b) + n /\ ~(Len(b) + 2 <= Len(b)) /\ Len(b) + 2 - Len(b) = 2
      BY <1>1, <1>7
    <3> QED
      BY <1>1, <1>7, <3>1
  <2>2. ASSUME NEW i \in 1 .. Len(b) + 2 PROVE u[i] = d[i]
    <3>1. i \in 1 .. Len(b) \/ i = Len(b) + 1 \/ i = Len(b) + 2
      BY <1>1
    <3>2. CASE i \in 1 .. Len(b)
      <4>1. i \in 1 .. Len(b) + 1
        BY <1>1, <3>2
      <4> QED
        BY <1>2, <1>3, <1>5, <3>2, <4>1
    <3>3. CASE i = Len(b) + 1
      <4>1. i \in 1 .. Len(b) + 1
        BY <1>1, <3>3
      <4> QED
        BY <1>2, <1>3, <1>4, <3>3, <4>1
    <3>4. CASE i = Len(b) + 2
      BY <1>3, <2>1, <3>4
    <3> QED
      BY <3>1, <3>2, <3>3, <3>4
  <2>3. Len(u) = Len(b) + 2
    BY <1>1, <1>7
  <2> QED
    BY <1>1, <1>3, <2>2, <2>3, SeqEqual
<1> QED
  BY <1>6, <1>7 DEF u, c, d

LEMMA OwedCommit ==
  ASSUME TypeOK, WatchMatches, EndCommit, NEW v \in Subscribed, base[v] # Refused, NEW a \in Nat,
         Runs(Passing(v), a, published)
  PROVE  Runs(Passing(v)', a, published')
<1>1. v \in Watchers /\ phase' = phase /\ bus \in Seq(BusItem) /\ published \in Nat
  BY DEF Subscribed, EndCommit, againVars, TypeOK, BusItem
<1> DEFINE drop == phase[v] = "dropping"
<1>2. Passing(v) = BusRun(bus, v, drop) /\ Passing(v)' = BusRun(bus', v, drop)
  BY <1>1 DEF Passing
<1>3. drop \in BOOLEAN
  OBVIOUS
<1> HIDE DEF drop
<1>4. CASE ~open
  BY <1>1, <1>2, <1>4 DEF EndCommit
<1>5. CASE open
  <2>1. PICK n \in 1 .. 2 :
          /\ committed + n <= MaxEvents /\ published' = published + n
          /\ bus' = bus \o [i \in 1 .. n |-> [event |-> published + i, to |-> Subscribed]]
    BY <1>5 DEF EndCommit
  <2> DEFINE new == [i \in 1 .. n |-> [event |-> published + i, to |-> Subscribed]]
             x == [event |-> published + 1, to |-> Subscribed]
             y == [event |-> published + 2, to |-> Subscribed]
  <2>2. \A i \in 1 .. n : published + i \in 0 .. MaxEvents
    BY <2>1 DEF TypeOK
  <2>3. new \in Seq(BusItem) /\ Len(new) = n /\ new[1] = x /\ (n = 2 => new[2] = y)
    <3>1. new \in [1 .. n -> BusItem]
      BY <2>2 DEF BusItem, Subscribed
    <3>2. new \in Seq(BusItem) /\ Len(new) = n
      BY <3>1, SeqDef, LenProperties
    <3> QED
      BY <3>2
  <2>4. x \in BusItem /\ x.event = published + 1 /\ v \in x.to
    BY <2>2 DEF BusItem, Subscribed
  <2>5. n = 2 => y \in BusItem /\ y.event = published + 1 + 1 /\ v \in y.to
    BY <1>1, <2>2 DEF BusItem, Subscribed
  <2>6. bus' = bus \o new
    BY <2>1
  <2> HIDE DEF new, x, y
  <2>7. /\ Append(bus, x) \in Seq(BusItem)
        /\ Runs(BusRun(Append(bus, x), v, drop), a, published + 1)
    BY <1>1, <1>2, <1>3, <2>4, BusPublish
  <2>8. CASE n = 1
    <3>1. bus' = Append(bus, x)
      BY <1>1, <2>3, <2>4, <2>6, <2>8, ConcatOneOrTwo
    <3> QED
      BY <1>2, <2>1, <2>7, <2>8, <3>1
  <2>9. CASE n = 2
    <3>1. bus' = Append(Append(bus, x), y)
      <4>1. new \in Seq(BusItem) /\ Len(new) = 2 /\ new[1] = x /\ new[2] = y
        BY <2>3, <2>9
      <4>2. x \in BusItem /\ y \in BusItem
        BY <2>4, <2>5, <2>9
      <4>3. bus \o new = Append(Append(bus, x), y)
        BY <1>1, <4>1, <4>2, ConcatOneOrTwo
      <4> QED
        BY <2>6, <4>3
    <3>2. Runs(BusRun(Append(Append(bus, x), y), v, drop), a, published + 1 + 1)
      <4>1. published + 1 \in Nat
        BY <1>1
      <4> QED
        BY <1>3, <2>5, <2>7, <2>9, <4>1, BusPublish
    <3>3. published' = published + 1 + 1
      BY <1>1, <2>1, <2>9
    <3> QED
      BY <1>2, <3>1, <3>2, <3>3
  <2> QED
    BY <2>1, <2>8, <2>9
<1> QED
  BY <1>4, <1>5

\* What a delivery does to the bus as a watch sees it.
LEMMA PassingTail ==
  ASSUME TypeOK, WatchMatches, bus # <<>>, bus' = Tail(bus), NEW v \in Watchers,
         NEW a \in Nat, NEW p \in Nat, Runs(Passing(v), a, p)
  PROVE  /\ BusRun(bus', v, phase[v] = "dropping") \in Seq(Nat)
         /\ Passing(v)[1] = 0 => Runs(BusRun(bus', v, phase[v] = "dropping"), a, p)
         /\ Passing(v)[1] # 0 => /\ Passing(v)[1] = a + 1 /\ a + 1 <= p
                                 /\ Runs(BusRun(bus', v, phase[v] = "dropping"), a + 1, p)
<1>1. bus \in Seq(BusItem) /\ (phase[v] = "dropping") \in BOOLEAN
  BY TypesOf
<1>2. /\ Passing(v) # <<>> /\ Passing(v) \in Seq(Nat)
      /\ BusRun(bus', v, phase[v] = "dropping") = Tail(Passing(v))
  BY <1>1, BusTail, BusType DEF Passing
<1>3. Tail(Passing(v)) \in Seq(Nat)
  BY <1>2, HeadTailProperties
<1>4. /\ Passing(v)[1] = 0 => Runs(Tail(Passing(v)), a, p)
      /\ Passing(v)[1] # 0 => /\ Passing(v)[1] = a + 1 /\ a + 1 <= p
                              /\ Runs(Tail(Passing(v)), a + 1, p)
  BY <1>2, RunsTail
<1> QED
  BY <1>2, <1>3, <1>4

LEMMA PassingHead ==
  ASSUME TypeOK, bus # <<>>, NEW v \in Watchers
  PROVE  /\ phase[v] # "dropping" =>
              Passing(v)[1] = IF v \in Head(bus).to THEN Head(bus).event ELSE 0
         /\ v \notin Head(bus).to \/ Head(bus).event = 0 => Passing(v)[1] = 0
         /\ phase[v] = "dropping" /\ (\E i \in DOMAIN bus : i > 1 /\ IsBarrier(v, i)) => Passing(v)[1] = 0
<1>1. bus \in Seq(BusItem) /\ (phase[v] = "dropping") \in BOOLEAN
  BY TypesOf
<1>2. Passing(v)[1] =
        IF v \in Head(bus).to
           /\ ~(phase[v] = "dropping" /\ \E j \in DOMAIN bus : j > 1 /\ BarrierIn(bus, v, j))
        THEN Head(bus).event ELSE 0
  BY <1>1, BusTail DEF Passing
<1>3. \A i \in DOMAIN bus : IsBarrier(v, i) <=> BarrierIn(bus, v, i)
  BY DEF IsBarrier, BarrierIn
<1> QED
  BY <1>2, <1>3

LEMMA PushOne ==
  ASSUME TypeOK, WatchMatches, NEW v \in Subscribed, base[v] # Refused, NEW e \in 1 .. MaxEvents,
         NEW m \in Nat, e = m + 1, Runs(Waits(v), Known(v), m),
         \/ Pending(v)' = Pending(v) \o Entries(v, <<e>>)
         \/ Pending(v)' = Append(Pending(v), [event |-> e, epoch |-> epoch[v]]),
         epoch' = epoch
  PROVE  Runs(Waits(v)', Known(v), m + 1)
<1> DEFINE x == [event |-> e, epoch |-> epoch[v]]
<1>1. v \in Watchers /\ Pending(v) \in Seq(Waiting) /\ Waits(v) \in Seq(Nat) /\ Known(v) \in Nat
  BY OwedTypes
<1>2. x \in Waiting
  BY <1>1, TypesOf DEF Waiting
<1>3. Entries(v, <<e>>) = <<x>>
  <2>1. <<e>> \in Seq(1 .. MaxEvents) /\ Len(<<e>>) = 1
    OBVIOUS
  <2>2. DOMAIN <<e>> = 1 .. 1 /\ DOMAIN <<x>> = 1 .. 1
    OBVIOUS
  <2>3. Entries(v, <<e>>) = [i \in 1 .. 1 |-> [event |-> <<e>>[i], epoch |-> epoch[v]]]
    BY <2>2 DEF Entries
  <2>4. Entries(v, <<e>>) \in Seq(Waiting) /\ Len(Entries(v, <<e>>)) = 1
    BY <1>1, <2>1, TypesOf, EntriesType
  <2>5. <<x>> \in Seq(Waiting) /\ Len(<<x>>) = 1 /\ <<x>>[1] = x
    BY <1>2
  <2>6. Entries(v, <<e>>)[1] = x
    BY <2>3
  <2> HIDE DEF x
  <2>7. \A i \in 1 .. 1 : Entries(v, <<e>>)[i] = <<x>>[i]
    BY <2>5, <2>6
  <2> QED
    BY <2>4, <2>5, <2>7, SeqEqual
<1>4. Pending(v)' = Append(Pending(v), x)
  BY <1>1, <1>2, <1>3, AppendIsConcat
<1> HIDE DEF x
<1>5. x.epoch = epoch[v] /\ x.event = m + 1
  BY DEF x
<1>6. Waits(v)' = Append(Waits(v), m + 1)
  <2>1. Waits(v)' = QueuedAt(Append(Pending(v), x), epoch[v])
    BY <1>4 DEF Waits
  <2> QED
    BY <1>1, <1>2, <1>5, <2>1, QueuedAppend DEF Waits
<1> QED
  BY <1>1, <1>6, RunsAppend

LEMMA OwedDeliver ==
  ASSUME TypeOK, WatchMatches, BusMatches, DeliverEvent, NEW v \in Subscribed, base[v] # Refused,
         Owed(v)
  PROVE  Owed(v)'
<1>1. /\ bus # <<>> /\ bus' = Tail(bus) /\ Head(bus).event # 0
      /\ UNCHANGED <<published, state, base, heard, phase, reading, fresh, epoch>>
      /\ Push({w \in Head(bus).to : phase[w] = "none"}, Everyone(<<Head(bus).event>>))
      /\ held' = [w \in Watchers |-> IF w \in Head(bus).to /\ Holding(w)
                                     THEN Append(held[w], Head(bus).event) ELSE held[w]]
  BY DEF DeliverEvent, harnessVars, startVars
<1>2. /\ v \in Watchers /\ Known(v) \in Nat /\ Known(v)' = Known(v) /\ published \in Nat
      /\ Pending(v) \in Seq(Waiting) /\ Waits(v) \in Seq(Nat)
  BY <1>1, OwedTypes, TypesOf DEF Known
<1> DEFINE e == Head(bus).event
<1>3. e \in 1 .. MaxEvents
  <2>1. Head(bus) \in BusItem
    BY <1>1, <1>2, TypesOf, HeadTailProperties
  <2> QED
    BY <1>1, <2>1 DEF BusItem
<1>4. Passing(v)' = BusRun(bus', v, phase[v] = "dropping")
  BY <1>1 DEF Passing
<1> HIDE DEF e
<1>5. ASSUME phase[v] = "none"
      PROVE  \E m \in Nat : Runs(Waits(v)', Known(v), m) /\ Runs(Passing(v)', m, published)
  <2>1. PICK m \in Nat : Runs(Waits(v), Known(v), m) /\ Runs(Passing(v), m, published)
    BY <1>5 DEF Owed
  <2>2. CASE v \in Head(bus).to
    <3>1. Passing(v)[1] = e /\ e # 0
      BY <1>1, <1>2, <1>5, <2>2, PassingHead DEF e
    <3>2. e = m + 1 /\ Runs(Passing(v)', m + 1, published)
      BY <1>1, <1>2, <1>4, <2>1, <3>1, PassingTail
    <3>3. Pending(v)' = Pending(v) \o Entries(v, <<e>>)
      <4>1. v \in {w \in Head(bus).to : phase[w] = "none"} /\ Everyone(<<Head(bus).event>>)[v] = <<e>>
        BY <1>2, <1>5, <2>2 DEF Everyone, e
      <4>2. state[v] = "buffering" \/ state[v] = "started"
        BY DEF Subscribed
      <4> DEFINE W == {w \in Head(bus).to : phase[w] = "none"}
                 events == Everyone(<<Head(bus).event>>)
      <4> HIDE DEF W, events
      <4>3. Push(W, events) /\ v \in W /\ events[v] = <<e>>
        BY <1>1, <4>1 DEF W, events
      <4>4. /\ state[v] = "buffering" => buffer'[v] = buffer[v] \o Entries(v, <<e>>)
            /\ state[v] = "started" => tail'[v] = tail[v] \o Entries(v, <<e>>)
        BY <1>2, <4>3 DEF Push
      <4> QED
        BY <1>1, <4>2, <4>4 DEF Pending
    <3>4. Runs(Waits(v)', Known(v), m + 1)
      BY <1>1, <1>3, <2>1, <3>2, <3>3, PushOne
    <3> QED
      BY <3>2, <3>4
  <2>3. CASE v \notin Head(bus).to
    <3>1. Passing(v)[1] = 0
      BY <1>1, <1>2, <2>3, PassingHead
    <3>2. Runs(Passing(v)', m, published)
      BY <1>1, <1>2, <1>4, <2>1, <3>1, PassingTail
    <3>3. Pending(v)' = Pending(v)
      <4>1. v \notin {w \in Head(bus).to : phase[w] = "none"}
        BY <2>3
      <4> QED
        BY <1>1, <1>2, <4>1, PushLeaves DEF Pending
    <3>4. Waits(v)' = Waits(v)
      BY <1>1, <3>3 DEF Waits
    <3> QED
      BY <2>1, <3>2, <3>4
  <2> QED
    BY <2>2, <2>3
<1>6. ASSUME phase[v] = "holding"
      PROVE  \E m \in Nat : Runs(held'[v], Known(v), m) /\ Runs(Passing(v)', m, published)
  <2>1. PICK m \in Nat : Runs(held[v], Known(v), m) /\ Runs(Passing(v), m, published)
    BY <1>6 DEF Owed
  <2>2. CASE v \in Head(bus).to
    <3>1. Passing(v)[1] = e /\ e # 0
      BY <1>1, <1>2, <1>6, <2>2, PassingHead DEF e
    <3>2. e = m + 1 /\ Runs(Passing(v)', m + 1, published)
      BY <1>1, <1>2, <1>4, <2>1, <3>1, PassingTail
    <3>3. held'[v] = Append(held[v], m + 1)
      <4>1. Holding(v)
        BY <1>6 DEF Holding
      <4> QED
        BY <1>1, <1>2, <2>2, <3>2, <4>1 DEF e
    <3>4. Runs(Append(held[v], m + 1), Known(v), m + 1)
      BY <1>2, <2>1, TypesOf, RunsAppend
    <3>5. m + 1 \in Nat
      OBVIOUS
    <3> QED
      BY <3>2, <3>3, <3>4, <3>5
  <2>3. CASE v \notin Head(bus).to
    <3>1. Passing(v)[1] = 0 /\ held'[v] = held[v]
      BY <1>1, <1>2, <2>3, PassingHead
    <3>2. Runs(Passing(v)', m, published)
      BY <1>1, <1>2, <1>4, <2>1, <3>1, PassingTail
    <3> QED
      BY <2>1, <3>1, <3>2
  <2> QED
    BY <2>2, <2>3
<1>7. ASSUME phase[v] = "dropping", reading[v] = "done"
      PROVE  Runs(Passing(v)', Known(v), published)
  <2>1. Runs(Passing(v), Known(v), published)
    BY <1>7 DEF Owed
  <2>2. PICK i \in DOMAIN bus : IsBarrier(v, i)
    BY <1>2, <1>7 DEF BusMatches, BarrierMatches
  <2>3. i > 1
    <3>1. DOMAIN bus = 1 .. Len(bus) /\ Len(bus) \in Nat /\ Head(bus) = bus[1]
      BY <1>1, <1>2, TypesOf, LenProperties
    <3>2. i # 1
      BY <1>1, <2>2, <3>1 DEF IsBarrier
    <3> QED
      BY <3>1, <3>2
  <2>4. Passing(v)[1] = 0
    BY <1>1, <1>2, <1>7, <2>2, <2>3, PassingHead
  <2> QED
    BY <1>1, <1>2, <1>4, <2>1, <2>4, PassingTail
<1> QED
  BY <1>1, <1>2, <1>5, <1>6, <1>7 DEF Owed

LEMMA OwedReach ==
  ASSUME TypeOK, WatchMatches, BusMatches, ReachBarrier, NEW v \in Subscribed, base[v] # Refused,
         Owed(v)
  PROVE  Owed(v)'
<1>1. /\ bus # <<>> /\ bus' = Tail(bus) /\ Head(bus).event = 0
      /\ UNCHANGED <<published, state, base, heard, buffer, tail, reading, fresh, epoch, held>>
      /\ phase'[v] = IF v \in Head(bus).to /\ phase[v] = "dropping" THEN "holding" ELSE phase[v]
  BY OwedTypes DEF ReachBarrier, harnessVars, startVars, streamVars
<1>2. /\ v \in Watchers /\ Known(v) \in Nat /\ Known(v)' = Known(v) /\ published \in Nat
      /\ Waits(v)' = Waits(v)
  BY <1>1, OwedTypes, TypesOf DEF Known, Waits, Pending
<1>3. Passing(v)[1] = 0
  BY <1>1, <1>2, PassingHead
<1>4. \A a \in Nat : Runs(Passing(v), a, published) =>
                       Runs(BusRun(bus', v, phase[v] = "dropping"), a, published)
  BY <1>1, <1>2, <1>3, PassingTail
<1>5. CASE phase'[v] = phase[v]
  <2>1. Passing(v)' = BusRun(bus', v, phase[v] = "dropping")
    BY <1>5 DEF Passing
  <2> QED
    BY <1>1, <1>2, <1>4, <1>5, <2>1 DEF Owed
<1>6. CASE v \in Head(bus).to /\ phase[v] = "dropping" /\ phase'[v] = "holding"
  <2>1. /\ DOMAIN bus = 1 .. Len(bus) /\ DOMAIN bus' = 1 .. Len(bus) - 1 /\ Len(bus) \in Nat \ {0}
        /\ Head(bus) = bus[1]
        /\ \A i \in 1 .. Len(bus) - 1 : bus'[i] = bus[i + 1]
    BY <1>1, <1>2, TypesOf, HeadTailProperties, LenProperties, EmptySeq
  <2>2. IsBarrier(v, 1)
    BY <1>1, <1>6, <2>1 DEF IsBarrier
  <2>3. reading[v] = "done" /\ Runs(Passing(v), Known(v), published)
    BY <1>2, <1>6, <2>1, <2>2 DEF BusMatches, BarrierMatches, Owed
  <2>4. ASSUME NEW j \in DOMAIN bus' PROVE ~BarrierIn(bus', v, j)
    <3>1. j + 1 \in DOMAIN bus /\ bus'[j] = bus[j + 1] /\ j + 1 # 1
      BY <2>1
    <3>2. ~IsBarrier(v, j + 1)
      BY <1>2, <2>1, <2>2, <3>1 DEF BusMatches, BarrierMatches
    <3> QED
      BY <3>1, <3>2 DEF BarrierIn, IsBarrier
  <2>5. Passing(v)' = BusRun(bus', v, FALSE)
    BY <1>6 DEF Passing
  <2>6. BusRun(bus', v, phase[v] = "dropping") = BusRun(bus', v, FALSE)
    BY <1>6, <2>4, BusFree
  <2>7. Runs(Passing(v)', Known(v), published)
    BY <1>2, <1>4, <2>3, <2>5, <2>6
  <2>8. Runs(held[v], Known(v), Known(v))
    <3>1. held[v] = <<>> /\ held[v] \in Seq(Nat)
      BY <1>2, <1>6, TypesOf DEF WatchMatches, Matched
    <3> QED
      BY <1>2, <3>1, RunsEmpty
  <2> QED
    BY <1>1, <1>2, <1>6, <2>7, <2>8 DEF Owed
<1> QED
  BY <1>1, <1>5, <1>6

\* An event that a listener takes in its epoch is the next one it is owed.
LEMMA TakeHears ==
  ASSUME TypeOK, WatchMatches, EpochsMatch, OwedInOrder, NEW w \in Watchers, TakeEvent(w),
         state[w] = "started", Head(tail[w]).epoch = epoch[w]
  PROVE  /\ phase[w] = "none" /\ reading[w] = "none" /\ base[w] # NoSnapshot
         /\ base[w] # Refused =>
              /\ base[w] \in Nat /\ base[w] + Len(heard[w]) \in Nat
              /\ Head(tail[w]).event = base[w] + Len(heard[w]) + 1
              /\ base[w] + Len(heard[w]) + 1 <= published
              /\ \E m \in Nat : /\ Runs(QueuedAt(Tail(tail[w]), epoch[w]), base[w] + Len(heard[w]) + 1, m)
                                /\ Runs(Passing(w), m, published)
<1>1. tail[w] # <<>> /\ tail[w] \in Seq(Waiting)
  BY TypesOf DEF TakeEvent
<1>2. Head(tail[w]) = tail[w][1] /\ 1 \in DOMAIN tail[w] /\ Head(tail[w]) \in Waiting
  BY <1>1, HeadTailProperties, LenProperties, EmptySeq
<1>3. phase[w] = "none"
  BY <1>2 DEF EpochsMatch, EpochMatches
<1>4. reading[w] = "none" /\ base[w] # NoSnapshot
  BY <1>3 DEF WatchMatches, Matched, TypeOK
<1>5. ASSUME base[w] # Refused
      PROVE  /\ base[w] \in Nat /\ base[w] + Len(heard[w]) \in Nat
             /\ Head(tail[w]).event = base[w] + Len(heard[w]) + 1
             /\ base[w] + Len(heard[w]) + 1 <= published
             /\ \E m \in Nat : /\ Runs(QueuedAt(Tail(tail[w]), epoch[w]), base[w] + Len(heard[w]) + 1, m)
                               /\ Runs(Passing(w), m, published)
  <2>1. w \in Subscribed
    BY DEF Subscribed
  <2>2. Waits(w) = QueuedAt(tail[w], epoch[w]) /\ Known(w) = base[w] + Len(heard[w])
    BY <1>4 DEF Waits, Pending, Known
  <2>3. Known(w) \in Nat /\ Waits(w) \in Seq(Nat) /\ Passing(w) \in Seq(Nat)
    BY <1>5, <2>1, OwedTypes
  <2>4. PICK m \in Nat : Runs(Waits(w), Known(w), m) /\ Runs(Passing(w), m, published)
    BY <1>3, <1>5, <2>1 DEF OwedInOrder, Owed
  <2>5. /\ Waits(w) # <<>> /\ Waits(w)[1] = Head(tail[w]).event
        /\ QueuedAt(Tail(tail[w]), epoch[w]) = Tail(Waits(w))
    BY <1>1, <2>2, QueuedTail
  <2>6. Waits(w)[1] # 0
    BY <1>2, <2>5 DEF Waiting
  <2>7. /\ Waits(w)[1] = Known(w) + 1 /\ Known(w) + 1 <= m
        /\ Runs(Tail(Waits(w)), Known(w) + 1, m)
    BY <2>3, <2>4, <2>5, <2>6, RunsTail
  <2>8. m <= published /\ published \in Nat
    BY <2>3, <2>4, TypesOf DEF Runs
  <2>9. Known(w) + 1 <= published
    BY <2>3, <2>7, <2>8
  <2>10. base[w] \in Nat
    <3>1. base[w] \in Refused .. MaxEvents
      BY TypesOf
    <3> QED
      BY <1>4, <1>5, <3>1 DEF Refused, NoSnapshot
  <2> QED
    BY <2>2, <2>3, <2>4, <2>5, <2>7, <2>9, <2>10
<1> QED
  BY <1>3, <1>4, <1>5

LEMMA OwedTake ==
  ASSUME TypeOK, WatchMatches, EpochsMatch, OwedInOrder, NEW w \in Subscribed, TakeEvent(w),
         base[w] # Refused
  PROVE  Owed(w)'
<1>1. /\ tail[w] # <<>> /\ tail'[w] = Tail(tail[w]) /\ w \in Watchers
      /\ UNCHANGED <<published, bus, base, buffer, state, epoch, phase, held, reading, fresh>>
  BY OwedTypes DEF TakeEvent, harnessVars, againVars, TypeOK
<1>2. state[w] = "started"
  BY <1>1 DEF Subscribed, WatchMatches, Matched
<1>3. Waits(w)' = QueuedAt(Tail(tail[w]), epoch[w]) /\ Passing(w)' = Passing(w)
  BY <1>1, <1>2 DEF Waits, Pending, Passing
<1>4. CASE Head(tail[w]).epoch = epoch[w]
  <2>1. heard' = [heard EXCEPT ![w] = Append(heard[w], Head(tail[w]).event)]
    BY <1>2, <1>4 DEF TakeEvent
  <2>2. phase[w] = "none" /\ reading[w] = "none" /\ base[w] \in Nat
        /\ base[w] + Len(heard[w]) \in Nat
    BY <1>1, <1>2, <1>4, TakeHears
  <2>3. PICK m \in Nat : /\ Runs(QueuedAt(Tail(tail[w]), epoch[w]), base[w] + Len(heard[w]) + 1, m)
                         /\ Runs(Passing(w), m, published)
    BY <1>1, <1>2, <1>4, TakeHears
  <2>4. Len(heard'[w]) = Len(heard[w]) + 1 /\ Len(heard[w]) \in Nat
    <3>1. Head(tail[w]) \in Waiting
      BY <1>1, TypesOf, HeadTailProperties
    <3>2. Head(tail[w]).event \in 1 .. MaxEvents
      BY <3>1 DEF Waiting
    <3>3. heard'[w] = Append(heard[w], Head(tail[w]).event)
      BY <1>1, <2>1 DEF TypeOK
    <3> QED
      BY <1>1, <3>2, <3>3, TypesOf, AppendProperties
  <2>5. Known(w)' = base[w] + Len(heard[w]) + 1
    BY <1>1, <2>2, <2>4 DEF Known
  <2> QED
    BY <1>1, <1>3, <2>2, <2>3, <2>5 DEF Owed
<1>5. CASE Head(tail[w]).epoch # epoch[w]
  <2>1. heard' = heard
    BY <1>5 DEF TakeEvent
  <2>2. Known(w)' = Known(w)
    BY <1>1, <2>1 DEF Known
  <2>3. Waits(w) = QueuedAt(tail[w], epoch[w]) /\ Waits(w) \in Seq(Nat) /\ Known(w) \in Nat
    BY <1>2, OwedTypes DEF Waits, Pending
  <2>4. /\ Waits(w) # <<>> /\ Waits(w)[1] = 0
        /\ QueuedAt(Tail(tail[w]), epoch[w]) = Tail(Waits(w))
    <3>1. tail[w] \in Seq(Waiting)
      BY <1>1, TypesOf
    <3>2. /\ QueuedAt(tail[w], epoch[w]) # <<>> /\ QueuedAt(tail[w], epoch[w])[1] = 0
          /\ QueuedAt(Tail(tail[w]), epoch[w]) = Tail(QueuedAt(tail[w], epoch[w]))
      BY <1>1, <1>5, <3>1, QueuedTail
    <3> QED
      BY <2>3, <3>2
  <2>5. ASSUME NEW m \in Nat, Runs(Waits(w), Known(w), m) PROVE Runs(Waits(w)', Known(w), m)
    <3>1. Runs(Tail(Waits(w)), Known(w), m)
      BY <2>3, <2>4, <2>5, RunsTail
    <3> QED
      BY <1>3, <2>4, <3>1
  <2>6. Owed(w)
    BY DEF OwedInOrder
  <2> QED
    BY <1>1, <1>3, <2>2, <2>5, <2>6 DEF Owed
<1> QED
  BY <1>4, <1>5

LEMMA QueuedConcat ==
  ASSUME NEW q \in Seq(Waiting), NEW r \in Seq(Waiting), NEW e
  PROVE  QueuedAt(q \o r, e) = QueuedAt(q, e) \o QueuedAt(r, e)
<1> DEFINE u == q \o r
           s == QueuedAt(q, e)
           t == QueuedAt(r, e)
           v == s \o t
<1>1. /\ u \in Seq(Waiting) /\ Len(u) = Len(q) + Len(r) /\ Len(q) \in Nat /\ Len(r) \in Nat
      /\ \A i \in 1 .. Len(q) + Len(r) : u[i] = IF i <= Len(q) THEN q[i] ELSE r[i - Len(q)]
  BY ConcatProperties, LenProperties
<1>2. /\ s \in Seq(Nat) /\ Len(s) = Len(q)
      /\ \A i \in 1 .. Len(q) : s[i] = IF q[i].epoch = e THEN q[i].event ELSE 0
  BY QueuedType
<1>3. /\ t \in Seq(Nat) /\ Len(t) = Len(r)
      /\ \A i \in 1 .. Len(r) : t[i] = IF r[i].epoch = e THEN r[i].event ELSE 0
  BY QueuedType
<1> HIDE DEF s, t
<1>4. /\ v \in Seq(Nat) /\ Len(v) = Len(q) + Len(r)
      /\ \A i \in 1 .. Len(q) + Len(r) : v[i] = IF i <= Len(q) THEN s[i] ELSE t[i - Len(q)]
  BY <1>2, <1>3, ConcatProperties
<1> HIDE DEF u, v
<1>5. /\ QueuedAt(u, e) \in Seq(Nat) /\ Len(QueuedAt(u, e)) = Len(u)
      /\ \A i \in 1 .. Len(u) : QueuedAt(u, e)[i] = IF u[i].epoch = e THEN u[i].event ELSE 0
  BY <1>1, QueuedType
<1>6. ASSUME NEW i \in 1 .. Len(q) + Len(r) PROVE QueuedAt(u, e)[i] = v[i]
  <2>0. QueuedAt(u, e)[i] = IF u[i].epoch = e THEN u[i].event ELSE 0
    BY <1>1, <1>5
  <2>1. CASE i <= Len(q)
    <3>1. i \in 1 .. Len(q)
      BY <1>1, <2>1
    <3>2. u[i] = q[i] /\ v[i] = s[i]
      BY <1>1, <1>4, <2>1
    <3> QED
      BY <1>2, <2>0, <3>1, <3>2
  <2>2. CASE ~(i <= Len(q))
    <3>1. i - Len(q) \in 1 .. Len(r)
      BY <1>1, <2>2
    <3>2. u[i] = r[i - Len(q)] /\ v[i] = t[i - Len(q)]
      BY <1>1, <1>4, <2>2
    <3> QED
      BY <1>3, <2>0, <3>1, <3>2
  <2> QED
    BY <2>1, <2>2
<1>7. QueuedAt(u, e) = v
  BY <1>1, <1>4, <1>5, <1>6, SeqEqual
<1> QED
  BY <1>7 DEF u, v, s, t

LEMMA QueuedEntries ==
  ASSUME NEW s \in Seq(1 .. MaxEvents), s \in Seq(Nat), NEW w \in Watchers,
         epoch[w] \in 0 .. MaxResnapshots
  PROVE  QueuedAt(Entries(w, s), epoch[w]) = s
<1> DEFINE r == Entries(w, s)
<1>1. /\ r \in Seq(Waiting) /\ Len(r) = Len(s)
      /\ \A i \in 1 .. Len(s) : r[i].event = s[i] /\ r[i].epoch = epoch[w]
  BY EntriesType
<1> HIDE DEF r
<1>2. /\ QueuedAt(r, epoch[w]) \in Seq(Nat) /\ Len(QueuedAt(r, epoch[w])) = Len(s)
      /\ \A i \in 1 .. Len(r) :
           QueuedAt(r, epoch[w])[i] = IF r[i].epoch = epoch[w] THEN r[i].event ELSE 0
  BY <1>1, QueuedType
<1>3. QueuedAt(r, epoch[w]) = s
  <2>1. ASSUME NEW i \in 1 .. Len(s) PROVE QueuedAt(r, epoch[w])[i] = s[i]
    BY <1>1, <1>2
  <2> QED
    BY <1>2, <2>1, SeqEqual
<1> QED
  BY <1>3 DEF r

LEMMA OwedInstall ==
  ASSUME TypeOK, WatchMatches, EpochsMatch, OwedInOrder, NEW w \in Subscribed, InstallSnapshot(w)
  PROVE  Owed(w)'
<1>1. /\ w \in Watchers /\ reading[w] = "done" /\ phase[w] = "holding"
      /\ phase'[w] = "none" /\ reading'[w] = "none" /\ heard'[w] = <<>>
      /\ Push({w}, held)
      /\ UNCHANGED <<published, bus, state, epoch>>
  BY DEF Subscribed, InstallSnapshot, Resume, TypeOK, harnessVars
<1>2. base[w] # Refused /\ base'[w] = fresh[w] /\ fresh[w] \in Nat
  BY <1>1, TypesOf DEF InstallSnapshot, WatchMatches, Matched, TypeOK
<1>3. Known(w)' = fresh[w] /\ Known(w) = fresh[w]
  BY <1>1, <1>2 DEF Known
<1>4. PICK m \in Nat : Runs(held[w], fresh[w], m) /\ Runs(Passing(w), m, published)
  BY <1>1, <1>2, <1>3 DEF OwedInOrder, Owed
<1>5. Passing(w)' = Passing(w)
  BY <1>1 DEF Passing
<1>6. Pending(w)' = Pending(w) \o Entries(w, held[w])
  BY <1>1 DEF Pending, Push, Subscribed
<1>7. /\ held[w] \in Seq(1 .. MaxEvents) /\ held[w] \in Seq(Nat) /\ epoch[w] \in 0 .. MaxResnapshots
      /\ Entries(w, held[w]) \in Seq(Waiting) /\ Pending(w) \in Seq(Waiting) /\ Waits(w) \in Seq(Nat)
  BY <1>1, <1>2, TypesOf, EntriesType, OwedTypes
<1>8. Waits(w)' = Waits(w) \o held[w]
  <2>1. Waits(w)' = QueuedAt(Pending(w) \o Entries(w, held[w]), epoch[w])
    BY <1>1, <1>6 DEF Waits
  <2>2. QueuedAt(Entries(w, held[w]), epoch[w]) = held[w]
    BY <1>1, <1>7, QueuedEntries
  <2>3. QueuedAt(Pending(w) \o Entries(w, held[w]), epoch[w]) =
          QueuedAt(Pending(w), epoch[w]) \o QueuedAt(Entries(w, held[w]), epoch[w])
    BY <1>7, QueuedConcat
  <2>4. Waits(w) = QueuedAt(Pending(w), epoch[w])
    BY DEF Waits
  <2> QED
    BY <2>1, <2>2, <2>3, <2>4
<1>9. \A i \in 1 .. Len(Waits(w)) : Waits(w)[i] = 0
  <2>1. \A i \in DOMAIN Pending(w) : Pending(w)[i].epoch # epoch[w]
    BY <1>1 DEF EpochsMatch, EpochMatches, Pending
  <2>2. DOMAIN Pending(w) = 1 .. Len(Pending(w))
    BY <1>7, LenProperties
  <2>3. /\ Len(Waits(w)) = Len(Pending(w))
        /\ \A i \in 1 .. Len(Pending(w)) :
             Waits(w)[i] = IF Pending(w)[i].epoch = epoch[w] THEN Pending(w)[i].event ELSE 0
    BY <1>7, QueuedType DEF Waits
  <2> QED
    BY <2>1, <2>2, <2>3
<1>10. Runs(Waits(w), fresh[w], fresh[w])
  BY <1>2, <1>7, <1>9, RunsNothing
<1>11. Runs(Waits(w)', fresh[w], m)
  BY <1>2, <1>4, <1>7, <1>8, <1>10, RunsConcat
<1> QED
  BY <1>1, <1>3, <1>4, <1>5, <1>11 DEF Owed

LEMMA OwedBegin ==
  ASSUME TypeOK, WatchMatches, BusMatches, CapturesMatch, NEW w \in Watchers, BeginWatch(w)
  PROVE  Owed(w)'
<1>1. /\ state[w] = "none" /\ state'[w] = "buffering" /\ fresh'[w] = committed /\ open
      /\ reading'[w] = "first"
      /\ UNCHANGED <<published, bus, buffer, epoch, phase>>
  BY DEF BeginWatch, TypeOK, streamVars
<1>2. buffer[w] = <<>> /\ phase[w] = "none" /\ committed = published
      /\ \A i \in DOMAIN bus : w \notin bus[i].to
  BY <1>1 DEF WatchMatches, Matched, CapturesMatch, BusMatches, BarrierMatches
<1>3. Known(w)' = published /\ published \in Nat
  BY <1>1, <1>2, TypesOf DEF Known
<1>4. Runs(Waits(w)', published, published)
  <2>1. Waits(w)' = QueuedAt(buffer[w], epoch[w])
    BY <1>1 DEF Waits, Pending
  <2>2. buffer[w] \in Seq(Waiting) /\ Len(buffer[w]) = 0
    BY <1>2, TypesOf, EmptySeq
  <2>3. QueuedAt(buffer[w], epoch[w]) \in Seq(Nat) /\ Len(QueuedAt(buffer[w], epoch[w])) = 0
    BY <2>2, QueuedType
  <2>4. QueuedAt(buffer[w], epoch[w]) = <<>>
    BY <2>3, EmptySeq
  <2> QED
    BY <1>3, <2>1, <2>3, <2>4, RunsEmpty
<1>5. Runs(Passing(w)', published, published)
  <2>1. Passing(w)' = BusRun(bus, w, FALSE)
    BY <1>1, <1>2 DEF Passing
  <2>2. /\ BusRun(bus, w, FALSE) \in Seq(Nat) /\ Len(BusRun(bus, w, FALSE)) = Len(bus)
        /\ DOMAIN bus = 1 .. Len(bus)
        /\ \A i \in 1 .. Len(bus) : BusRun(bus, w, FALSE)[i] = BusAt(bus, w, FALSE, i)
    BY TypesOf, BusType, LenProperties
  <2>3. \A i \in 1 .. Len(bus) : BusAt(bus, w, FALSE, i) = 0
    BY <1>2, <2>2 DEF BusAt
  <2> QED
    BY <1>3, <2>1, <2>2, <2>3, RunsNothing
<1> QED
  BY <1>1, <1>2, <1>3, <1>4, <1>5 DEF Owed

LEMMA OwedCapture ==
  ASSUME TypeOK, WatchMatches, CapturesMatch, NEW w \in Watchers, EndCapture(w)
  PROVE  Owed(w)'
<1> DEFINE x == [event |-> 0, to |-> {w}]
<1>1. /\ reading[w] = "again" /\ reading'[w] = "done" /\ bus' = Append(bus, x)
      /\ UNCHANGED <<published, phase, fresh>> /\ bus \in Seq(BusItem)
  BY TypesOf DEF EndCapture, TypeOK, startVars
<1>2. phase[w] = "dropping" /\ fresh[w] = published
  BY <1>1 DEF WatchMatches, Matched, CapturesMatch, CaptureMatches
<1>3. x \in BusItem /\ x.event = 0 /\ w \in x.to
  BY DEF BusItem
<1> HIDE DEF x
<1>4. Passing(w)' = BusRun(Append(bus, x), w, TRUE) /\ Known(w)' = published /\ published \in Nat
  BY <1>1, <1>2, TypesOf DEF Passing, Known
<1>5. Runs(Passing(w)', published, published)
  <2> DEFINE c == BusRun(Append(bus, x), w, TRUE)
  <2>1. c \in Seq(Nat) /\ \A i \in 1 .. Len(c) : c[i] = 0
    BY <1>1, <1>3, BusBarrier
  <2> HIDE DEF c
  <2>2. Runs(c, published, published)
    BY <1>4, <2>1, RunsNothing
  <2> QED
    BY <1>4, <2>2 DEF c
<1> QED
  BY <1>1, <1>2, <1>4, <1>5 DEF Owed

LEMMA OwedStep ==
  ASSUME TypeOK, WatchInvariant, NEW w \in Watchers, WatchStep(w),
         w \in Subscribed', base'[w] # Refused
  PROVE  Owed(w)'
<1>1. TypeOK /\ WatchMatches /\ EpochsMatch /\ BusMatches /\ CapturesMatch /\ OwedInOrder
  BY DEF WatchInvariant
<1>2. CASE BeginWatch(w)
  BY <1>1, <1>2, OwedBegin
<1>3. CASE EndWatch(w)
  <2>1. /\ UNCHANGED <<published, bus, heard, buffer, tail, state, epoch, phase, held, fresh>>
        /\ base'[w] = fresh[w] /\ reading[w] = "first" /\ reading'[w] = "none"
    BY <1>3 DEF EndWatch, startVars, TypeOK
  <2>2. state[w] = "buffering" /\ base[w] = NoSnapshot /\ heard[w] = <<>> /\ phase[w] = "none"
    BY <1>1, <2>1 DEF WatchMatches, Matched
  <2>3. w \in Subscribed /\ base[w] # Refused
    BY <2>2 DEF Subscribed, NoSnapshot, Refused
  <2>4. Known(w) = fresh[w] /\ Known(w)' = fresh[w]
    <3>1. fresh[w] \in Nat
      BY TypesOf
    <3> QED
      BY <2>1, <2>2, <3>1 DEF Known
  <2>5. Waits(w)' = Waits(w) /\ Passing(w)' = Passing(w)
    BY <2>1 DEF Waits, Pending, Passing
  <2> QED
    BY <1>1, <2>1, <2>2, <2>3, <2>4, <2>5 DEF OwedInOrder, Owed
<1>4. CASE Start(w)
  <2>1. /\ UNCHANGED <<published, bus, base, heard, epoch, phase, held, reading, fresh>>
        /\ state[w] = "buffering" /\ state'[w] = "started"
    BY <1>4 DEF Start, harnessVars, againVars, TypeOK
  <2>2. Waits(w)' = Waits(w) /\ Passing(w)' = Passing(w) /\ Known(w)' = Known(w)
    BY <1>1, <1>4, <2>1, StartKeepsQueue DEF Waits, Pending, Passing, Known
  <2>3. w \in Subscribed /\ base[w] # Refused
    BY <2>1 DEF Subscribed
  <2> QED
    BY <1>1, <2>1, <2>2, <2>3 DEF OwedInOrder, Owed
<1>5. CASE Unsubscribe(w)
  BY <1>5 DEF Unsubscribe, Subscribed, TypeOK
<1>6. CASE Resnapshot(w) \/ BeginCapture(w)
  <2>1. /\ reading'[w] = "asked" \/ reading'[w] = "again"
        /\ phase'[w] = "dropping"
    BY <1>1, <1>6 DEF Resnapshot, BeginCapture, WatchMatches, Matched, TypeOK
  <2> QED
    BY <2>1 DEF Owed
<1>7. CASE EndCapture(w)
  BY <1>1, <1>7, OwedCapture
<1>8. CASE InstallSnapshot(w)
  <2>1. w \in Subscribed
    BY <1>8 DEF InstallSnapshot, Resume, Subscribed
  <2> QED
    BY <1>1, <1>8, <2>1, OwedInstall
<1>9. CASE RefuseResnapshot(w) \/ CaptureFails(w)
  BY <1>9 DEF RefuseResnapshot, CaptureFails, TypeOK
<1>10. CASE TakeEvent(w)
  <2>1. w \in Subscribed /\ base[w] # Refused
    BY <1>10 DEF TakeEvent, Subscribed
  <2> QED
    BY <1>1, <1>10, <2>1, OwedTake
<1>11. CASE ListenerReturns(w)
  <2>1. Kept(w) /\ UNCHANGED <<published, bus>>
    BY <1>11 DEF ListenerReturns, Kept, harnessVars, streamVars, againVars
  <2>2. w \in Subscribed /\ base[w] # Refused
    BY <2>1 DEF Kept, Subscribed
  <2>3. Passing(w)' = Passing(w) /\ Known(w) \in Nat
    BY <1>1, <2>1, <2>2, OwedTypes DEF Passing, Kept
  <2> QED
    BY <1>1, <2>1, <2>2, <2>3, OwedKept DEF OwedInOrder
<1> QED
  BY <1>2, <1>3, <1>4, <1>5, <1>6, <1>7, <1>8, <1>9, <1>10, <1>11 DEF WatchStep, Answer

LEMMA OwedNext ==
  ASSUME TypeOK, WatchInvariant, [Next]_vars
  PROVE  OwedInOrder'
<1> SUFFICES ASSUME NEW v \in Subscribed', base'[v] # Refused PROVE Owed(v)'
  BY DEF OwedInOrder
<1>1. TypeOK /\ WatchMatches /\ EpochsMatch /\ BusMatches /\ CapturesMatch /\ OwedInOrder
  BY DEF WatchInvariant
<1>2. v \in Watchers
  BY DEF Subscribed
<1>3. ASSUME Kept(v) PROVE v \in Subscribed /\ base[v] # Refused /\ Owed(v) /\ Known(v) \in Nat
                           /\ Passing(v) \in Seq(Nat)
  <2>1. v \in Subscribed /\ base[v] # Refused
    BY <1>2, <1>3 DEF Kept, Subscribed
  <2> QED
    BY <1>1, <2>1, OwedTypes DEF OwedInOrder
<1>4. ASSUME Kept(v), UNCHANGED <<published, bus>> PROVE Owed(v)'
  <2>1. Passing(v)' = Passing(v)
    BY <1>4 DEF Passing, Kept
  <2> QED
    BY <1>2, <1>3, <1>4, <2>1, OwedKept
<1>5. CASE QuietStep
  <2>1. Kept(v)
    BY <1>2, <1>5, QuietKeeps
  <2>2. CASE EndCommit
    <3>1. \A a \in Nat : Runs(Passing(v), a, published) => Runs(Passing(v)', a, published')
      BY <1>1, <1>3, <2>1, <2>2, OwedCommit
    <3> QED
      BY <1>2, <1>3, <2>1, <3>1, OwedKept
  <2>3. CASE ~EndCommit
    <3>1. UNCHANGED <<published, bus>>
      BY <1>5, <2>3 DEF QuietStep, BeginCommit, Close, vars, harnessVars
    <3> QED
      BY <1>4, <2>1, <3>1
  <2> QED
    BY <2>2, <2>3
<1>6. CASE DeliverEvent \/ ReachBarrier
  <2>1. v \in Subscribed /\ base[v] # Refused
    BY <1>2, <1>6 DEF DeliverEvent, ReachBarrier, startVars, streamVars, Subscribed
  <2>2. Owed(v)
    BY <1>1, <2>1 DEF OwedInOrder
  <2> QED
    BY <1>1, <1>6, <2>1, <2>2, OwedDeliver, OwedReach
<1>7. ASSUME NEW w \in Watchers, WatchStep(w) PROVE Owed(v)'
  <2>1. CASE v = w
    BY <1>7, <2>1, OwedStep
  <2>2. CASE v # w
    <3>1. Kept(v)
      BY <1>1, <1>2, <1>7, <2>2, OthersKeep
    <3>2. CASE EndCapture(w)
      <4> DEFINE x == [event |-> 0, to |-> {w}]
      <4>1. published' = published /\ phase' = phase /\ bus' = Append(bus, x) /\ bus \in Seq(BusItem)
        BY <1>2, <3>2, TypesOf DEF EndCapture
      <4>2. x \in BusItem /\ x.event = 0 /\ v \notin x.to
        BY <2>2 DEF BusItem
      <4> HIDE DEF x
      <4>3. (phase[v] = "dropping") \in BOOLEAN
        OBVIOUS
      <4>4. Passing(v)' = Append(Passing(v), 0)
        <5>1. BusRun(Append(bus, x), v, phase[v] = "dropping") =
                Append(BusRun(bus, v, phase[v] = "dropping"), 0)
          BY <4>1, <4>2, <4>3, BusAppend
        <5> QED
          BY <4>1, <5>1 DEF Passing
      <4>5. ASSUME NEW a \in Nat, Runs(Passing(v), a, published)
            PROVE  Runs(Passing(v)', a, published')
        <5>1. Passing(v) \in Seq(Nat) /\ published \in Nat
          BY <1>2, <1>3, <3>1, TypesOf
        <5>2. Runs(Append(Passing(v), 0), a, published)
          BY <4>5, <5>1, RunsAppend
        <5> QED
          BY <4>1, <4>4, <5>2
      <4> QED
        BY <1>2, <1>3, <3>1, <4>5, OwedKept
    <3>3. CASE ~EndCapture(w)
      <4>1. UNCHANGED <<published, bus>>
        BY <1>7, <3>3, HarnessOf
      <4> QED
        BY <1>4, <3>1, <4>1
    <3> QED
      BY <3>2, <3>3
  <2> QED
    BY <2>1, <2>2
<1> QED
  BY <1>5, <1>6, <1>7, NextCases

----------------------------------------------------------------------------
(* Captures.                                                                *)

LEMMA CaptureKept ==
  ASSUME TypeOK, NEW v \in Watchers, Kept(v), CaptureMatches(v), published' \in Nat,
         published <= published',
         published' = published \/ reading[v] \notin {"first", "again"}
  PROVE  CaptureMatches(v)'
<1>1. fresh[v] \in Nat /\ base[v] \in Int /\ Len(heard[v]) \in Nat /\ published \in Nat
  BY TypesOf
<1>2. /\ reading'[v] = reading[v] /\ fresh'[v] = fresh[v] /\ base'[v] = base[v]
      /\ heard'[v] = heard[v]
  BY DEF Kept
<1> QED
  BY <1>1, <1>2 DEF CaptureMatches

LEMMA CaptureStep ==
  ASSUME TypeOK, WatchInvariant, NEW w \in Watchers, WatchStep(w)
  PROVE  CaptureMatches(w)'
<1>1. TypeOK /\ WatchMatches /\ EpochsMatch /\ CapturesMatch /\ OwedInOrder
  BY DEF WatchInvariant
<1>2. /\ CaptureMatches(w) /\ Matched(w) /\ published' = published /\ published \in Nat
      /\ fresh[w] \in Nat /\ base[w] \in Int /\ Len(heard[w]) \in Nat
      /\ open => committed = published
  BY <1>1, HarnessOf, TypesOf DEF CapturesMatch, WatchMatches
<1>3. Refused = -2 /\ NoSnapshot = -1 /\ Len(<<>>) = 0
  BY DEF Refused, NoSnapshot
<1>4. CASE BeginWatch(w)
  <2>1. /\ reading'[w] = "first" /\ fresh'[w] = published /\ base'[w] = NoSnapshot
    BY <1>2, <1>4 DEF BeginWatch, streamVars, Matched, TypeOK
  <2> QED
    BY <1>2, <1>3, <2>1 DEF CaptureMatches
<1>5. CASE EndWatch(w)
  <2>1. /\ reading'[w] = "none" /\ base'[w] = fresh[w] /\ heard'[w] = <<>> /\ fresh[w] = published
    BY <1>2, <1>5 DEF EndWatch, Matched, CaptureMatches, TypeOK
  <2> QED
    BY <1>2, <1>3, <2>1 DEF CaptureMatches
<1>6. CASE Start(w) \/ Unsubscribe(w) \/ ListenerReturns(w)
  <2>1. UNCHANGED <<reading, fresh, base, heard>>
    BY <1>6 DEF Start, Unsubscribe, ListenerReturns, againVars, streamVars
  <2> QED
    BY <1>2, <2>1 DEF CaptureMatches
<1>7. CASE Resnapshot(w)
  <2>1. UNCHANGED <<base, heard>> /\ reading'[w] = "asked"
    BY <1>7 DEF Resnapshot, streamVars, TypeOK
  <2> QED
    BY <1>2, <2>1 DEF CaptureMatches
<1>8. CASE BeginCapture(w)
  <2>1. /\ UNCHANGED <<base, heard>> /\ reading'[w] = "again" /\ fresh'[w] = published
        /\ open /\ reading[w] = "asked"
    BY <1>2, <1>8 DEF BeginCapture, streamVars, TypeOK
  <2>2. base[w] # Refused /\ base[w] # NoSnapshot
    BY <1>2, <2>1 DEF Matched, TypeOK
  <2>3. base[w] \in Refused .. MaxEvents
    BY TypesOf
  <2>4. base[w] >= 0
    BY <1>3, <2>2, <2>3
  <2>5. base[w] + Len(heard[w]) <= published
    BY <1>2, <2>4 DEF CaptureMatches
  <2> QED
    BY <1>2, <2>1, <2>5 DEF CaptureMatches
<1>9. CASE EndCapture(w)
  <2>1. UNCHANGED <<base, heard, fresh>> /\ reading[w] = "again" /\ reading'[w] = "done"
    BY <1>9 DEF EndCapture, streamVars, TypeOK
  <2> QED
    BY <1>2, <2>1 DEF CaptureMatches
<1>10. CASE InstallSnapshot(w)
  <2>1. /\ reading[w] = "done" /\ reading'[w] = "none" /\ heard'[w] = <<>>
        /\ base'[w] = fresh[w]
    BY <1>2, <1>10 DEF InstallSnapshot, Resume, Matched, TypeOK
  <2> QED
    BY <1>2, <1>3, <2>1 DEF CaptureMatches
<1>11. CASE RefuseResnapshot(w) \/ CaptureFails(w)
  <2>1. reading'[w] = "none" /\ base'[w] = Refused
    BY <1>11 DEF RefuseResnapshot, CaptureFails, Resume, TypeOK
  <2> QED
    BY <1>3, <2>1 DEF CaptureMatches
<1>12. CASE TakeEvent(w)
  <2>1. UNCHANGED <<base, fresh, reading>>
    BY <1>12 DEF TakeEvent, againVars
  <2>2. CASE heard' = heard
    BY <1>2, <2>1, <2>2 DEF CaptureMatches
  <2>3. CASE heard' # heard
    <3>1. /\ state[w] = "started" /\ Head(tail[w]).epoch = epoch[w] /\ base[w] # Refused
          /\ heard' = [heard EXCEPT ![w] = Append(heard[w], Head(tail[w]).event)]
      BY <1>12, <2>3 DEF TakeEvent
    <3>2. reading[w] = "none" /\ base[w] + Len(heard[w]) + 1 <= published
      BY <1>1, <1>12, <3>1, TakeHears
    <3>3. Len(heard'[w]) = Len(heard[w]) + 1
      <4>1. Head(tail[w]) \in Waiting
        BY <1>12, TypesOf, HeadTailProperties DEF TakeEvent
      <4>2. Head(tail[w]).event \in 1 .. MaxEvents
        BY <4>1 DEF Waiting
      <4>3. heard'[w] = Append(heard[w], Head(tail[w]).event)
        BY <3>1 DEF TypeOK
      <4> QED
        BY <4>2, <4>3, TypesOf, AppendProperties
    <3> QED
      BY <1>2, <2>1, <3>2, <3>3 DEF CaptureMatches
  <2> QED
    BY <2>2, <2>3
<1> QED
  BY <1>4, <1>5, <1>6, <1>7, <1>8, <1>9, <1>10, <1>11, <1>12 DEF WatchStep, Answer

LEMMA QuietCounts ==
  ASSUME TypeOK, QuietStep
  PROVE  \/ UNCHANGED <<committed, published>> /\ (open' => open)
         \/ /\ EndCommit /\ open' = open /\ published <= published'
            /\ \A v \in Watchers : reading[v] \notin {"first", "again"}
            /\ open /\ committed = published => committed' = published'
<1>1. CASE EndCommit
  <2>1. open' = open /\ \A v \in Watchers : reading[v] \notin {"first", "again"}
    BY <1>1 DEF EndCommit, TypeOK
  <2>2. PICK n \in 1 .. 2 : /\ committed' = committed + n
                            /\ published' = IF open THEN published + n ELSE published
    BY <1>1 DEF EndCommit
  <2>3. published \in Nat /\ committed \in Nat
    BY DEF TypeOK
  <2> QED
    BY <1>1, <2>1, <2>2, <2>3
<1>2. CASE BeginCommit \/ Close
  BY <1>2 DEF BeginCommit, Close
<1>3. CASE UNCHANGED vars
  BY <1>3 DEF vars, harnessVars
<1> QED
  BY <1>1, <1>2, <1>3 DEF QuietStep

LEMMA CapturesNext ==
  ASSUME TypeOK, TypeOK', WatchInvariant, [Next]_vars
  PROVE  CapturesMatch'
<1>1. CapturesMatch
  BY DEF WatchInvariant
<1>2. published \in Nat /\ published' \in Nat /\ committed \in Nat
  BY DEF TypeOK
<1>3. open' => committed' = published'
  <2>1. CASE QuietStep
    BY <1>1, <2>1, QuietCounts DEF CapturesMatch
  <2>2. CASE DeliverEvent \/ ReachBarrier
    BY <1>1, <2>2 DEF DeliverEvent, ReachBarrier, harnessVars, CapturesMatch
  <2>3. ASSUME NEW w \in Watchers, WatchStep(w) PROVE open' => committed' = published'
    BY <1>1, <2>3, HarnessOf DEF CapturesMatch
  <2> QED
    BY <2>1, <2>2, <2>3, NextCases
<1>4. ASSUME NEW v \in Watchers PROVE CaptureMatches(v)'
  <2>1. CaptureMatches(v)
    BY <1>1 DEF CapturesMatch
  <2>2. CASE QuietStep
    <3>1. Kept(v)
      BY <2>2, QuietKeeps
    <3>2. /\ published <= published'
          /\ published' = published \/ reading[v] \notin {"first", "again"}
      BY <1>2, <2>2, QuietCounts
    <3> QED
      BY <1>2, <2>1, <3>1, <3>2, CaptureKept
  <2>3. CASE DeliverEvent \/ ReachBarrier
    <3>1. UNCHANGED <<published, reading, fresh, base, heard>>
      BY <2>3 DEF DeliverEvent, ReachBarrier, harnessVars, streamVars
    <3> QED
      BY <2>1, <3>1 DEF CaptureMatches
  <2>4. ASSUME NEW w \in Watchers, WatchStep(w) PROVE CaptureMatches(v)'
    <3>1. CASE v = w
      BY <2>4, <3>1, CaptureStep
    <3>2. CASE v # w
      <4>1. Kept(v) /\ published' = published
        BY <2>4, <3>2, OthersKeep, HarnessOf
      <4> QED
        BY <1>2, <2>1, <4>1, CaptureKept
    <3> QED
      BY <3>1, <3>2
  <2> QED
    BY <2>2, <2>3, <2>4, NextCases
<1> QED
  BY <1>3, <1>4 DEF CapturesMatch

----------------------------------------------------------------------------
(* The invariant.                                                           *)

LEMMA InvariantInit == Init => WatchInvariant
<1> SUFFICES ASSUME Init PROVE WatchInvariant
  OBVIOUS
<1>1. Refused # NoSnapshot /\ ~(NoSnapshot >= 0)
  BY DEF Refused, NoSnapshot
<1>2. WatchMatches
  BY <1>1 DEF Init, Everyone, WatchMatches, Matched
<1>3. EpochsMatch
  BY DEF Init, Everyone, EpochsMatch, EpochMatches
<1>4. BusMatches
  BY DEF Init, Everyone, BusMatches, BarrierMatches
<1>5. CapturesMatch
  BY <1>1 DEF Init, Everyone, CapturesMatch, CaptureMatches
<1>6. OwedInOrder
  BY DEF Init, Everyone, OwedInOrder, Subscribed
<1> QED
  BY <1>2, <1>3, <1>4, <1>5, <1>6 DEF WatchInvariant

LEMMA InvariantNext == TypeOK /\ WatchInvariant /\ [Next]_vars => WatchInvariant'
<1> SUFFICES ASSUME TypeOK, WatchInvariant, [Next]_vars PROVE WatchInvariant'
  OBVIOUS
<1>1. TypeOK'
  BY TypesNext
<1>2. WatchMatches /\ EpochsMatch /\ BusMatches
  BY DEF WatchInvariant
<1> QED
  BY <1>1, <1>2, MatchesNext, EpochsNext, BusNext, CapturesNext, OwedNext DEF WatchInvariant

LEMMA WatchInductive == Spec => [](TypeOK /\ WatchInvariant)
  BY TypesInit, TypesNext, InvariantInit, InvariantNext, PTL DEF Spec

----------------------------------------------------------------------------
(* The theorems.                                                            *)

LEMMA ZerosRun ==
  ASSUME NEW queue \in Seq(Waiting), NEW e, NEW a \in Nat,
         \A i \in DOMAIN queue : queue[i].epoch # e
  PROVE  QueuedAt(queue, e) \in Seq(Nat) /\ Runs(QueuedAt(queue, e), a, a)
<1> DEFINE s == QueuedAt(queue, e)
<1>1. /\ s \in Seq(Nat) /\ Len(s) = Len(queue) /\ DOMAIN queue = 1 .. Len(queue)
      /\ \A i \in 1 .. Len(queue) : s[i] = IF queue[i].epoch = e THEN queue[i].event ELSE 0
  BY QueuedType, LenProperties
<1> HIDE DEF s
<1>2. \A i \in 1 .. Len(s) : s[i] = 0
  BY <1>1
<1>3. Runs(s, a, a)
  BY <1>1, <1>2, RunsNothing
<1> QED
  BY <1>1, <1>3 DEF s

LEMMA OwedIsComing ==
  ASSUME TypeOK, WatchInvariant, NEW w \in Subscribed, base[w] # Refused,
         reading[w] \notin {"asked", "again"}
  PROVE  Runs(Coming(w), Known(w), published)
<1> DEFINE q == QueuedAt(tail[w], epoch[w])
           b == QueuedAt(buffer[w], epoch[w])
<1>1. /\ WatchMatches /\ Matched(w) /\ EpochMatches(w) /\ Owed(w) /\ w \in Watchers
  BY DEF WatchInvariant, WatchMatches, EpochsMatch, OwedInOrder, Subscribed
<1>2. /\ Known(w) \in Nat /\ Passing(w) \in Seq(Nat) /\ published \in Nat /\ held[w] \in Seq(Nat)
      /\ tail[w] \in Seq(Waiting) /\ buffer[w] \in Seq(Waiting)
  BY <1>1, OwedTypes, TypesOf
<1>3. q \in Seq(Nat) /\ b \in Seq(Nat)
  BY <1>2, QueuedType
<1>4. Coming(w) = q \o b \o held[w] \o Passing(w)
  BY RunsAreThose DEF Coming
<1>5. DOMAIN <<>> = {}
  OBVIOUS
<1>6. \E m, n \in Nat : /\ Runs(q, Known(w), m) /\ Runs(b, m, n)
                        /\ \E k \in Nat : Runs(held[w], n, k) /\ Runs(Passing(w), k, published)
  <2>1. CASE phase[w] = "none"
    <3>1. PICK m \in Nat : Runs(Waits(w), Known(w), m) /\ Runs(Passing(w), m, published)
      BY <1>1, <2>1 DEF Owed
    <3>2. Runs(held[w], m, m)
      <4>1. held[w] = <<>>
        BY <1>1, <2>1 DEF Matched
      <4> QED
        BY <1>2, <4>1, RunsEmpty
    <3>3. CASE state[w] = "buffering"
      <4>1. tail[w] = <<>> /\ Waits(w) = b
        BY <1>1, <3>3 DEF Matched, Waits, Pending
      <4>2. Runs(q, Known(w), Known(w))
        <5>1. \A i \in DOMAIN tail[w] : tail[w][i].epoch # epoch[w]
          BY <1>5, <4>1
        <5> QED
          BY <1>2, <5>1, ZerosRun
      <4> HIDE DEF q, b
      <4> QED
        BY <1>2, <3>1, <3>2, <4>1, <4>2
    <3>4. CASE state[w] = "started"
      <4>1. buffer[w] = <<>> /\ Waits(w) = q
        BY <1>1, <3>4 DEF Matched, Waits, Pending
      <4>2. Runs(b, m, m)
        <5>1. \A i \in DOMAIN buffer[w] : buffer[w][i].epoch # epoch[w]
          BY <1>5, <4>1
        <5> QED
          BY <1>2, <5>1, ZerosRun
      <4> HIDE DEF q, b
      <4> QED
        BY <1>2, <3>1, <3>2, <4>1, <4>2
    <3> QED
      BY <3>3, <3>4 DEF Subscribed
  <2>2. CASE phase[w] # "none"
    <3>1. Runs(q, Known(w), Known(w)) /\ Runs(b, Known(w), Known(w))
      <4>1. /\ \A i \in DOMAIN tail[w] : tail[w][i].epoch # epoch[w]
            /\ \A i \in DOMAIN buffer[w] : buffer[w][i].epoch # epoch[w]
        BY <1>1, <2>2 DEF EpochMatches
      <4> QED
        BY <1>2, <4>1, ZerosRun
    <3> HIDE DEF q, b
    <3>2. CASE phase[w] = "holding"
      BY <1>1, <1>2, <3>1, <3>2 DEF Owed
    <3>3. CASE phase[w] = "dropping"
      <4>1. reading[w] = "done" /\ held[w] = <<>>
        BY <1>1, <3>3 DEF Matched, TypeOK
      <4>2. Runs(held[w], Known(w), Known(w))
        BY <1>2, <4>1, RunsEmpty
      <4>3. Runs(Passing(w), Known(w), published)
        BY <1>1, <3>3, <4>1 DEF Owed
      <4> QED
        BY <1>2, <3>1, <4>2, <4>3
    <3> QED
      BY <1>1, <2>2, <3>2, <3>3 DEF TypeOK
  <2> QED
    BY <2>1, <2>2
<1> HIDE DEF q, b
<1>7. PICK m \in Nat, n \in Nat :
        /\ Runs(q, Known(w), m) /\ Runs(b, m, n)
        /\ \E k \in Nat : Runs(held[w], n, k) /\ Runs(Passing(w), k, published)
  BY <1>6
<1>8. PICK k \in Nat : Runs(held[w], n, k) /\ Runs(Passing(w), k, published)
  BY <1>7
<1>9. q \o b \in Seq(Nat) /\ Runs(q \o b, Known(w), n)
  BY <1>2, <1>3, <1>7, RunsConcat
<1>10. q \o b \o held[w] \in Seq(Nat) /\ Runs(q \o b \o held[w], Known(w), k)
  BY <1>2, <1>8, <1>9, RunsConcat
<1>11. Runs(q \o b \o held[w] \o Passing(w), Known(w), published)
  BY <1>2, <1>8, <1>10, RunsConcat
<1> QED
  BY <1>4, <1>11

\* Whatever commits, starts, resnapshots and closes come between, a snapshot and
\* the events still to come make up all that was published, once and in order.
THEOREM NothingIsMissed == Spec => []NothingFallsBetween
<1>1. TypeOK /\ WatchInvariant => NothingFallsBetween
  BY OwedIsComing DEF NothingFallsBetween
<1> QED
  BY <1>1, WatchInductive, PTL

LEMMA StreamInit == Init => Promised!Empty
  BY DEF Init, Everyone, Promised!Empty, Promised!NoSnapshot, NoSnapshot

LEMMA EndWatchRebases ==
  ASSUME TypeOK, WatchInvariant, NEW w \in Watchers, EndWatch(w)
  PROVE  Promised!Rebase(w)
<1>1. /\ UNCHANGED <<published, open, heard>> /\ reading[w] = "first"
      /\ base' = [base EXCEPT ![w] = fresh[w]]
  BY DEF EndWatch
<1>2. base[w] = NoSnapshot /\ heard[w] = <<>> /\ fresh[w] = published
  BY <1>1 DEF WatchInvariant, WatchMatches, Matched, CapturesMatch, CaptureMatches
<1>3. heard' = [heard EXCEPT ![w] = <<>>]
  BY <1>1, <1>2 DEF TypeOK
<1>4. base[w] # Promised!Refused /\ ~(base[w] # Promised!NoSnapshot)
  BY <1>2 DEF NoSnapshot, Promised!Refused, Promised!NoSnapshot
<1>5. fresh[w] \in 0 .. published
  BY <1>2, TypesOf
<1> QED
  BY <1>1, <1>3, <1>4, <1>5 DEF Promised!Rebase

LEMMA InstallRebases ==
  ASSUME TypeOK, WatchInvariant, NEW w \in Watchers, InstallSnapshot(w)
  PROVE  Promised!Rebase(w)
<1>1. /\ UNCHANGED <<published, open>> /\ reading[w] = "done"
      /\ base' = [base EXCEPT ![w] = IF base[w] = Refused THEN base[w] ELSE fresh[w]]
      /\ heard' = [heard EXCEPT ![w] = <<>>]
  BY DEF InstallSnapshot, Resume, harnessVars
<1>2. base[w] # Refused /\ fresh[w] <= published /\ base[w] + Len(heard[w]) <= fresh[w]
  BY <1>1 DEF WatchInvariant, WatchMatches, Matched, CapturesMatch, CaptureMatches
<1>3. base' = [base EXCEPT ![w] = fresh[w]]
  BY <1>1, <1>2
<1>4. base[w] # Promised!Refused
  BY <1>2 DEF Refused, Promised!Refused
<1>5. fresh[w] \in 0 .. published /\ fresh[w] >= Promised!View(w)
  <2>1. fresh[w] \in Nat /\ published \in Nat /\ base[w] \in Int /\ Len(heard[w]) \in Nat
    BY TypesOf
  <2> QED
    BY <1>2, <2>1 DEF Promised!View
<1> QED
  BY <1>1, <1>3, <1>4, <1>5 DEF Promised!Rebase

LEMMA EndsRefuse ==
  ASSUME TypeOK, NEW w \in Watchers, RefuseResnapshot(w) \/ CaptureFails(w)
  PROVE  Promised!Refuse(w)
<1>1. /\ published' = published /\ open' = FALSE
      /\ base' = [base EXCEPT ![w] = Refused]
      /\ heard' = [heard EXCEPT ![w] = <<>>]
  BY DEF RefuseResnapshot, CaptureFails, Resume, harnessVars, TypeOK
<1>2. Refused = Promised!Refused
  BY DEF Refused, Promised!Refused
<1> QED
  BY <1>1, <1>2 DEF Promised!Refuse

LEMMA TakeIsHear ==
  ASSUME TypeOK, WatchInvariant, NEW w \in Watchers, TakeEvent(w)
  PROVE  Promised!Hear(w) \/ UNCHANGED Promised!streamVars
<1>1. UNCHANGED <<published, open, base>>
  BY DEF TakeEvent, harnessVars
<1>2. CASE heard' = heard
  BY <1>1, <1>2 DEF Promised!streamVars
<1>3. CASE heard' # heard
  <2>1. /\ state[w] = "started" /\ Head(tail[w]).epoch = epoch[w] /\ base[w] # Refused
        /\ heard' = [heard EXCEPT ![w] = Append(heard[w], Head(tail[w]).event)]
    BY <1>3 DEF TakeEvent
  <2>2. /\ base[w] \in Nat /\ base[w] + Len(heard[w]) \in Nat
        /\ Head(tail[w]).event = base[w] + Len(heard[w]) + 1
        /\ base[w] + Len(heard[w]) + 1 <= published
    BY <2>1, TakeHears DEF WatchInvariant
  <2>3. /\ base[w] >= 0 /\ Promised!View(w) < published
        /\ Head(tail[w]).event = Promised!View(w) + 1
    BY <2>2, TypesOf DEF Promised!View
  <2>4. heard' = [heard EXCEPT ![w] = Append(heard[w], Promised!View(w) + 1)]
    BY <2>1, <2>3
  <2> QED
    BY <1>1, <2>3, <2>4 DEF Promised!Hear
<1> QED
  BY <1>2, <1>3

LEMMA StreamNext ==
  ASSUME TypeOK, WatchInvariant, [Next]_vars
  PROVE  [Promised!Flow]_(Promised!streamVars)
<1>1. ASSUME UNCHANGED <<published, open, base, heard>> PROVE UNCHANGED Promised!streamVars
  BY <1>1 DEF Promised!streamVars
<1>2. CASE QuietStep
  <2>1. CASE EndCommit
    <3>1. UNCHANGED <<open, base, heard>>
      BY <2>1 DEF EndCommit, streamVars
    <3>2. CASE open
      <4>1. published' \in published + 1 .. published + 2
        <5>1. PICK n \in 1 .. 2 : published' = published + n
          BY <2>1, <3>2 DEF EndCommit
        <5> QED
          BY <5>1 DEF TypeOK
      <4>2. Promised!Publish
        BY <3>1, <3>2, <4>1 DEF Promised!Publish
      <4> QED
        BY <4>2 DEF Promised!Flow
    <3>3. CASE ~open
      BY <1>1, <2>1, <3>1, <3>3 DEF EndCommit
    <3> QED
      BY <3>2, <3>3
  <2>2. CASE Close
    <3>1. open' = FALSE /\ UNCHANGED <<published, base, heard>>
      BY <2>2 DEF Close, streamVars
    <3>2. Promised!Finish
      BY <3>1 DEF Promised!Finish
    <3> QED
      BY <3>2 DEF Promised!Flow
  <2>3. CASE BeginCommit \/ UNCHANGED vars
    BY <1>1, <2>3 DEF BeginCommit, vars, harnessVars, streamVars
  <2> QED
    BY <1>2, <2>1, <2>2, <2>3 DEF QuietStep
<1>3. CASE DeliverEvent \/ ReachBarrier
  BY <1>1, <1>3 DEF DeliverEvent, ReachBarrier, harnessVars, streamVars
<1>4. ASSUME NEW w \in Watchers, WatchStep(w) PROVE [Promised!Flow]_(Promised!streamVars)
  <2>1. CASE EndWatch(w) \/ InstallSnapshot(w)
    <3>1. Promised!Rebase(w)
      BY <2>1, EndWatchRebases, InstallRebases
    <3> QED
      BY <3>1 DEF Promised!Flow
  <2>2. CASE RefuseResnapshot(w) \/ CaptureFails(w)
    <3>1. Promised!Refuse(w)
      BY <2>2, EndsRefuse
    <3> QED
      BY <3>1 DEF Promised!Flow
  <2>3. CASE TakeEvent(w)
    BY <2>3, TakeIsHear DEF Promised!Flow
  <2>4. CASE \/ BeginWatch(w) \/ Start(w) \/ Unsubscribe(w) \/ Resnapshot(w) \/ BeginCapture(w)
             \/ EndCapture(w) \/ ListenerReturns(w)
    BY <1>1, <2>4 DEF BeginWatch, Start, Unsubscribe, Resnapshot, BeginCapture, EndCapture,
                      ListenerReturns, harnessVars, streamVars
  <2> QED
    BY <1>4, <2>1, <2>2, <2>3, <2>4 DEF WatchStep, Answer
<1> QED
  BY <1>2, <1>3, <1>4, NextCases

\* Every watch is given what EventStream promises: after its snapshot, or a newer
\* one, each later event once and in order, until it is refused.
THEOREM WatchFollowsHistory == Spec => FollowsHistory
<1>1. Init => Promised!Empty
  BY StreamInit
<1>2. TypeOK /\ WatchInvariant /\ [Next]_vars => [Promised!Flow]_(Promised!streamVars)
  BY StreamNext
<1> QED
  BY <1>1, <1>2, WatchInductive, PTL DEF Spec, FollowsHistory, Promised!Stream
=============================================================================
