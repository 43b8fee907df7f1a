---------------------------- MODULE DeltasProofs ----------------------------
(***************************************************************************)
(* Theorems about Deltas, for any slots, channel capacity and bound: what   *)
(* is on the way to the pads stays in order, and so the pads implement      *)
(* PadStream.                                                               *)
(***************************************************************************)
EXTENDS Deltas, SequenceTheorems, TLAPS

-----------------------------------------------------------------------------
(* What is on the way, as one sequence.                                     *)

\* InOrder for a sequence w of updates and given pads and targets.
Ordered(w, at, to) ==
  /\ \A i \in DOMAIN w : w[i].state \in at[w[i].slot] + 1 .. to[w[i].slot]
  /\ \A i, j \in DOMAIN w : i < j /\ w[i].slot = w[j].slot => w[i].state < w[j].state

\* The types and the orders: what every step of the system keeps.
Invariant == TypeOK /\ OnePerSlot /\ InOrder /\ (output # "on" => busy = <<>>)

\* The domain and the elements of a sequence of updates.
LEMMA UpdateDomain ==
  ASSUME NEW w \in Seq(Updates)
  PROVE  DOMAIN w = 1 .. Len(w) /\ Len(w) \in Nat
OBVIOUS

LEMMA UpdateAt ==
  ASSUME NEW w \in Seq(Updates), NEW i \in 1 .. Len(w)
  PROVE  w[i].slot \in Slots /\ w[i].state \in Nat
<1>1. w[i] \in Updates
  OBVIOUS
<1> QED  BY <1>1 DEF Updates

\* The three parts of the way, laid end to end.
LEMMA WayAt ==
  ASSUME NEW b \in Seq(Updates), NEW c \in Seq(Updates), NEW p \in Seq(Updates)
  PROVE  /\ b \o c \o p \in Seq(Updates)
         /\ Len(b \o c \o p) = Len(b) + Len(c) + Len(p)
         /\ \A i \in 1 .. Len(b) : (b \o c \o p)[i] = b[i]
         /\ \A i \in 1 .. Len(c) : (b \o c \o p)[Len(b) + i] = c[i]
         /\ \A i \in 1 .. Len(p) : (b \o c \o p)[Len(b) + Len(c) + i] = p[i]
<1>1. /\ b \o c \in Seq(Updates) /\ Len(b \o c) = Len(b) + Len(c)
      /\ \A i \in 1 .. Len(b) + Len(c) :
           (b \o c)[i] = IF i <= Len(b) THEN b[i] ELSE c[i - Len(b)]
  BY ConcatProperties
<1>2. /\ (b \o c) \o p \in Seq(Updates) /\ Len((b \o c) \o p) = Len(b \o c) + Len(p)
      /\ \A i \in 1 .. Len(b \o c) + Len(p) :
           ((b \o c) \o p)[i] = IF i <= Len(b \o c) THEN (b \o c)[i] ELSE p[i - Len(b \o c)]
  BY <1>1, ConcatProperties
<1>3. Len(b) \in Nat /\ Len(c) \in Nat /\ Len(p) \in Nat
  OBVIOUS
<1> DEFINE w == (b \o c) \o p
<1> HIDE DEF w
<1>4. ASSUME NEW i \in 1 .. Len(b) PROVE w[i] = b[i]
  BY <1>1, <1>2, <1>3 DEF w
<1>5. ASSUME NEW i \in 1 .. Len(c) PROVE w[Len(b) + i] = c[i]
  <2>1. Len(b) + i \in 1 .. Len(b) + Len(c) /\ ~(Len(b) + i <= Len(b)) /\ Len(b) + i - Len(b) = i
    BY <1>3
  <2> QED  BY <2>1, <1>1, <1>2, <1>3 DEF w
<1>6. ASSUME NEW i \in 1 .. Len(p) PROVE w[Len(b) + Len(c) + i] = p[i]
  <2>1. /\ Len(b) + Len(c) + i \in 1 .. Len(b \o c) + Len(p)
        /\ ~(Len(b) + Len(c) + i <= Len(b \o c))
        /\ Len(b) + Len(c) + i - Len(b \o c) = i
    BY <1>1, <1>3
  <2> QED  BY <2>1, <1>2 DEF w
<1> QED  BY <1>1, <1>2, <1>4, <1>5, <1>6 DEF w

\* Whatever a step leaves out of the way, the rest stays in order: v is a
\* subsequence of w, along f.
LEMMA SubsequenceOrdered ==
  ASSUME NEW v \in Seq(Updates), NEW w \in Seq(Updates), NEW at, NEW to,
         NEW f \in [1 .. Len(v) -> 1 .. Len(w)],
         \A i \in 1 .. Len(v) : v[i] = w[f[i]],
         \A i, j \in 1 .. Len(v) : i < j => f[i] < f[j],
         Ordered(w, at, to)
  PROVE  Ordered(v, at, to)
<1>1. DOMAIN v = 1 .. Len(v) /\ DOMAIN w = 1 .. Len(w)
  OBVIOUS
<1> QED  BY <1>1 DEF Ordered

\* So it is for a suffix of each part of the way.
LEMMA SuffixesOrdered ==
  ASSUME busy \in Seq(Updates), channel \in Seq(Updates), pending \in Seq(Updates),
         busy' \in Seq(Updates), channel' \in Seq(Updates), pending' \in Seq(Updates),
         Len(busy') <= Len(busy),
         \A i \in 1 .. Len(busy') : busy'[i] = busy[Len(busy) - Len(busy') + i],
         Len(channel') <= Len(channel),
         \A i \in 1 .. Len(channel') : channel'[i] = channel[Len(channel) - Len(channel') + i],
         Len(pending') <= Len(pending),
         \A i \in 1 .. Len(pending') : pending'[i] = pending[Len(pending) - Len(pending') + i],
         Ordered(busy \o channel \o pending, shown, target)
  PROVE  Ordered(busy' \o channel' \o pending', shown, target)
<1> DEFINE w == busy \o channel \o pending
           v == busy' \o channel' \o pending'
           B == Len(busy) - Len(busy')
           C == Len(channel) - Len(channel')
           P == Len(pending) - Len(pending')
           m == Len(busy') + Len(channel')
           f == [i \in 1 .. Len(v) |-> IF i <= Len(busy') THEN B + i
                                      ELSE IF i <= m THEN B + C + i ELSE B + C + P + i]
<1>0. /\ Len(busy) \in Nat /\ Len(channel) \in Nat /\ Len(pending) \in Nat
      /\ Len(busy') \in Nat /\ Len(channel') \in Nat /\ Len(pending') \in Nat
      /\ B \in Nat /\ C \in Nat /\ P \in Nat /\ m \in Nat
      /\ Len(busy) = Len(busy') + B /\ Len(channel) = Len(channel') + C
      /\ Len(pending) = Len(pending') + P
      /\ m = Len(busy') + Len(channel')
  OBVIOUS
<1>1. /\ w \in Seq(Updates) /\ Len(w) = Len(busy) + Len(channel) + Len(pending)
      /\ \A i \in 1 .. Len(busy) : w[i] = busy[i]
      /\ \A i \in 1 .. Len(channel) : w[Len(busy) + i] = channel[i]
      /\ \A i \in 1 .. Len(pending) : w[Len(busy) + Len(channel) + i] = pending[i]
  BY WayAt
<1>2. /\ v \in Seq(Updates) /\ Len(v) = Len(busy') + Len(channel') + Len(pending')
      /\ \A i \in 1 .. Len(busy') : v[i] = busy'[i]
      /\ \A i \in 1 .. Len(channel') : v[Len(busy') + i] = channel'[i]
      /\ \A i \in 1 .. Len(pending') : v[Len(busy') + Len(channel') + i] = pending'[i]
  BY WayAt
<1>3. /\ \A i \in 1 .. Len(busy') : busy'[i] = busy[B + i]
      /\ \A i \in 1 .. Len(channel') : channel'[i] = channel[C + i]
      /\ \A i \in 1 .. Len(pending') : pending'[i] = pending[P + i]
  OBVIOUS
<1>4. Ordered(w, shown, target)
  OBVIOUS
<1>l. Len(w) = Len(busy) + Len(channel) + Len(pending) /\ Len(v) = m + Len(pending')
  BY <1>1, <1>2
<1>v. v \in Seq(Updates) /\ w \in Seq(Updates)
  BY <1>1, <1>2
<1> HIDE DEF v, w, B, C, P, m
<1>f. \A i \in 1 .. Len(v) : f[i] = IF i <= Len(busy') THEN B + i
                                  ELSE IF i <= m THEN B + C + i ELSE B + C + P + i
  OBVIOUS
<1> HIDE DEF f
<1>5. /\ f \in [1 .. Len(v) -> 1 .. Len(w)]
      /\ \A i, j \in 1 .. Len(v) : i < j => f[i] < f[j]
  <2>2. /\ Len(w) = Len(v) + B + C + P /\ Len(busy') <= m /\ m <= Len(v) /\ Len(v) \in Nat
        /\ Len(busy') \in Nat /\ m \in Nat /\ B \in Nat /\ C \in Nat /\ P \in Nat
    BY <1>0, <1>l
  <2>3. ASSUME NEW i \in 1 .. Len(v)
        PROVE  f[i] \in 1 .. Len(w)
    <3>1. i \in 1 .. Len(v)
      OBVIOUS
    <3>2. f[i] \in {B + i, B + C + i, B + C + P + i}
      BY ONLY <1>f, <3>1
    <3>3. \A k \in {B + i, B + C + i, B + C + P + i} : k \in 1 .. Len(w)
      BY ONLY <2>2, <3>1
    <3> QED  BY ONLY <3>2, <3>3
  <2>5. ASSUME NEW i \in 1 .. Len(v), NEW j \in 1 .. Len(v), i < j
        PROVE  f[i] < f[j]
    <3>1. i \in 1 .. Len(v) /\ j \in 1 .. Len(v) /\ i < j
      BY <2>5
    <3> QED  BY ONLY <1>f, <2>2, <3>1
  <2>4. f \in [1 .. Len(v) -> 1 .. Len(w)]
    BY <2>2, <2>3 DEF f
  <2> QED  BY <2>4, <2>5
<1>6. ASSUME NEW i \in 1 .. Len(v)
      PROVE  v[i] = w[f[i]]
  <2>1. CASE i <= Len(busy')
    <3>1. i \in 1 .. Len(busy') /\ B + i \in 1 .. Len(busy)
      BY <2>1, <1>0
    <3>2. f[i] = B + i
      BY <2>1, <1>f
    <3>3. v[i] = busy'[i]
      BY <3>1, <1>1, <1>2, <1>3
    <3>4. w[B + i] = busy[B + i]
      BY <3>1, <1>1, <1>2, <1>3
    <3>5. busy'[i] = busy[B + i]
      BY ONLY <3>1, <1>3
    <3> QED  BY ONLY <3>2, <3>3, <3>4, <3>5
  <2>2. CASE i > Len(busy') /\ i <= m
    <3> DEFINE k == i - Len(busy')
    <3>1. k \in 1 .. Len(channel') /\ C + k \in 1 .. Len(channel) /\ i = Len(busy') + k
      BY <2>2, <1>0
    <3>2. f[i] = Len(busy) + (C + k)
      BY <2>2, <1>0, <1>f
    <3> HIDE DEF k
    <3>3. v[i] = channel'[k] /\ w[Len(busy) + (C + k)] = channel[C + k] /\ channel'[k] = channel[C + k]
      BY <3>1, <1>1, <1>2, <1>3
    <3> QED  BY <3>2, <3>3
  <2>3. CASE i > m
    <3> DEFINE k == i - m
    <3>1. /\ k \in 1 .. Len(pending') /\ P + k \in 1 .. Len(pending)
          /\ i = Len(busy') + Len(channel') + k
      BY <2>3, <1>0, <1>l
    <3>2. f[i] = Len(busy) + Len(channel) + (P + k)
      BY <2>3, <1>0, <1>f
    <3> HIDE DEF k
    <3>3. /\ v[i] = pending'[k] /\ pending'[k] = pending[P + k]
          /\ w[Len(busy) + Len(channel) + (P + k)] = pending[P + k]
      BY <3>1, <1>1, <1>2, <1>3
    <3> QED  BY <3>2, <3>3
  <2>4. i \in Nat /\ Len(busy') \in Nat /\ m \in Nat
    BY <1>0
  <2>5. i <= Len(busy') \/ (i > Len(busy') /\ i <= m) \/ i > m
    BY ONLY <2>4
  <2> QED  BY ONLY <2>1, <2>2, <2>3, <2>5
<1>7. Ordered(v, shown, target)
  BY <1>v, <1>4, <1>5, <1>6, SubsequenceOrdered
<1> QED  BY <1>7 DEF v

\* The driver has taken the first update of the way: the rest is newer than it.
LEMMA ShownOrdered ==
  ASSUME NEW v \in Seq(Updates), NEW w \in Seq(Updates), Len(w) = Len(v) + 1,
         \A i \in 1 .. Len(v) : v[i] = w[i + 1],
         shown \in [Slots -> Nat], target \in [Slots -> Nat], shown' \in [Slots -> Nat],
         shown' = [shown EXCEPT ![w[1].slot] = w[1].state],
         Ordered(w, shown, target)
  PROVE  Ordered(v, shown', target) /\ shown[w[1].slot] < w[1].state /\ w[1].state <= target[w[1].slot]
<1>1. DOMAIN v = 1 .. Len(v) /\ DOMAIN w = 1 .. Len(w) /\ Len(v) \in Nat
  BY UpdateDomain
<1>2. \A i \in 1 .. Len(w) : w[i].slot \in Slots /\ w[i].state \in Nat
  BY UpdateAt
<1>3. 1 \in 1 .. Len(w) /\ \A i \in 1 .. Len(v) : i + 1 \in 1 .. Len(w) /\ 1 < i + 1
  BY <1>1
<1>4. \A i \in 1 .. Len(w) : w[i].state \in shown[w[i].slot] + 1 .. target[w[i].slot]
  BY <1>1 DEF Ordered
<1>5. \A i, j \in 1 .. Len(w) : i < j /\ w[i].slot = w[j].slot => w[i].state < w[j].state
  BY <1>1 DEF Ordered
<1>6. shown[w[1].slot] < w[1].state /\ w[1].state <= target[w[1].slot]
  BY <1>2, <1>3, <1>4
<1>7. ASSUME NEW i \in 1 .. Len(v)
      PROVE  v[i].state \in shown'[v[i].slot] + 1 .. target[v[i].slot]
  <2>1. v[i] = w[i + 1] /\ w[i + 1].slot \in Slots /\ w[i + 1].state \in Nat
    BY <1>2, <1>3
  <2>2. w[i + 1].state \in shown[w[i + 1].slot] + 1 .. target[w[i + 1].slot]
    BY <1>3, <1>4
  <2>3. CASE w[i + 1].slot = w[1].slot
    <3>1. w[1].state < w[i + 1].state
      BY ONLY <1>3, <1>5, <1>7, <2>3
    <3>2. shown'[w[1].slot] = w[1].state
      BY <1>2, <1>3
    <3>3. w[1].state \in Nat /\ target[w[1].slot] \in Nat
      BY <1>2, <1>3
    <3>4. w[i + 1].state \in w[1].state + 1 .. target[w[1].slot]
      <4>1. w[i + 1].state <= target[w[1].slot]
        BY <2>1, <2>2, <2>3
      <4> QED  BY ONLY <4>1, <3>1, <3>3, <2>1
    <3> QED  BY <2>1, <2>3, <3>2, <3>4
  <2>4. CASE w[i + 1].slot # w[1].slot
    BY <2>1, <2>2, <2>4
  <2> QED  BY <2>3, <2>4
<1>8. ASSUME NEW i \in 1 .. Len(v), NEW j \in 1 .. Len(v), i < j, v[i].slot = v[j].slot
      PROVE  v[i].state < v[j].state
  <2>1. v[i] = w[i + 1] /\ v[j] = w[j + 1] /\ i + 1 < j + 1
    BY <1>8
  <2> QED  BY <2>1, <1>3, <1>5, <1>8
<1> QED  BY <1>1, <1>6, <1>7, <1>8 DEF Ordered

\* A state newer than all of its slot's, put behind the first n of the way: either
\* in the place of one that waits there or at the end.
LEMMA NewerOrdered ==
  ASSUME NEW v \in Seq(Updates), NEW w \in Seq(Updates), NEW n \in Nat,
         n <= Len(v), n <= Len(w), NEW s \in Slots,
         NEW at \in [Slots -> Nat], NEW to \in [Slots -> Nat], NEW new \in [Slots -> Nat],
         new = [to EXCEPT ![s] = @ + 1], at[s] <= to[s],
         \A i \in 1 .. n : v[i] = w[i],
         \A i \in n + 1 .. Len(v) : \/ v[i].slot = s /\ v[i].state = to[s] + 1
                                    \/ v[i].slot # s /\ i <= Len(w) /\ v[i] = w[i],
         \A i, j \in n + 1 .. Len(v) : i < j => v[i].slot # v[j].slot,
         Ordered(w, at, to)
  PROVE  Ordered(v, at, new)
<1>1. DOMAIN v = 1 .. Len(v) /\ DOMAIN w = 1 .. Len(w) /\ Len(v) \in Nat /\ Len(w) \in Nat
  BY UpdateDomain
<1>2. \A i \in 1 .. Len(v) : v[i].slot \in Slots /\ v[i].state \in Nat
  BY UpdateAt
<1>3. \A i \in 1 .. Len(w) : w[i].slot \in Slots /\ w[i].state \in Nat
  BY UpdateAt
<1>4. /\ \A i \in 1 .. Len(w) : w[i].state >= at[w[i].slot] + 1 /\ w[i].state <= to[w[i].slot]
      /\ \A i, j \in 1 .. Len(w) : i < j /\ w[i].slot = w[j].slot => w[i].state < w[j].state
  <2>1. ASSUME NEW i \in 1 .. Len(w)
        PROVE  w[i].state >= at[w[i].slot] + 1 /\ w[i].state <= to[w[i].slot]
    <3>1. w[i].state \in at[w[i].slot] + 1 .. to[w[i].slot]
      BY <1>1 DEF Ordered
    <3>2. at[w[i].slot] \in Nat /\ to[w[i].slot] \in Nat
      BY <1>3
    <3> QED  BY <3>1, <3>2
  <2> QED  BY <2>1, <1>1 DEF Ordered
<1>5. new[s] = to[s] + 1 /\ \A x \in Slots : x # s => new[x] = to[x]
  OBVIOUS
<1>6. \A i \in 1 .. Len(v) : \/ v[i].slot = s /\ v[i].state = to[s] + 1 /\ i > n
                             \/ i \in 1 .. Len(w) /\ v[i] = w[i] /\ (i > n => v[i].slot # s)
  BY <1>1
<1>7. ASSUME NEW i \in 1 .. Len(v)
      PROVE  v[i].state \in at[v[i].slot] + 1 .. new[v[i].slot]
  <2>1. CASE v[i].slot = s /\ v[i].state = to[s] + 1
    BY <2>1, <1>5
  <2>2. CASE i \in 1 .. Len(w) /\ v[i] = w[i]
    BY <2>2, <1>2, <1>4, <1>5
  <2> QED  BY <2>1, <2>2, <1>6
<1>8. ASSUME NEW i \in 1 .. Len(v), NEW j \in 1 .. Len(v), i < j, v[i].slot = v[j].slot
      PROVE  v[i].state < v[j].state
  <2>1. i <= n
    BY <1>8, <1>1
  <2>2. i \in 1 .. Len(w) /\ v[i] = w[i]
    BY <2>1, <1>1
  <2>3. CASE v[j].slot = s /\ v[j].state = to[s] + 1
    BY <2>2, <2>3, <1>3, <1>4, <1>8
  <2>4. CASE j \in 1 .. Len(w) /\ v[j] = w[j]
    BY <2>2, <2>4, <1>4, <1>8
  <2> QED  BY <2>3, <2>4, <1>6
<1> QED  BY <1>1, <1>7, <1>8 DEF Ordered

-----------------------------------------------------------------------------
(* Each kind of step.                                                       *)

\* Queue keeps one pending state per slot, and it is the slot's newest one.
LEMMA QueueKeeps ==
  ASSUME NEW u \in Updates, pending \in Seq(Updates),
         \A i, j \in DOMAIN pending : pending[i].slot = pending[j].slot => i = j,
         pending' = Queue(u)
  PROVE  /\ pending' \in Seq(Updates)
         /\ Len(pending') \in {Len(pending), Len(pending) + 1}
         /\ \A i, j \in DOMAIN pending' : pending'[i].slot = pending'[j].slot => i = j
         /\ \E i \in DOMAIN pending' : pending'[i] = u
         /\ \A i \in DOMAIN pending' :
                pending'[i].slot # u.slot => i \in DOMAIN pending /\ pending'[i] = pending[i]
<1>1. CASE \E i \in DOMAIN pending : pending[i].slot = u.slot
  <2>1. pending' = [i \in DOMAIN pending |->
                      IF pending[i].slot = u.slot THEN u ELSE pending[i]]
    BY <1>1 DEF Queue
  <2>2. /\ pending' \in Seq(Updates) /\ Len(pending') = Len(pending)
        /\ DOMAIN pending' = DOMAIN pending
    BY <2>1
  <2>3. \A i \in DOMAIN pending' : pending'[i].slot = pending[i].slot
    BY <2>1, <2>2
  <2>4. \E i \in DOMAIN pending' : pending'[i] = u
    BY <1>1, <2>1
  <2>5. \A i \in DOMAIN pending' :
           pending'[i].slot # u.slot => i \in DOMAIN pending /\ pending'[i] = pending[i]
    BY <2>1, <2>2, <2>3
  <2> QED  BY <2>2, <2>3, <2>4, <2>5
<1>2. CASE ~ \E i \in DOMAIN pending : pending[i].slot = u.slot
  <2>1. pending' = Append(pending, u)
    BY <1>2 DEF Queue
  <2>2. /\ pending' \in Seq(Updates) /\ Len(pending') = Len(pending) + 1
        /\ \A i \in 1 .. Len(pending) : pending'[i] = pending[i]
        /\ pending'[Len(pending) + 1] = u
    BY <2>1, AppendProperties
  <2>3. /\ DOMAIN pending' = 1 .. Len(pending) + 1
        /\ DOMAIN pending = 1 .. Len(pending) /\ Len(pending) \in Nat
    BY <2>2
  <2>4. \A i \in DOMAIN pending' : pending'[i].slot = u.slot <=> i = Len(pending) + 1
    BY <2>2, <2>3, <1>2
  <2>5. \A i, j \in DOMAIN pending' : pending'[i].slot = pending'[j].slot => i = j
    BY <2>2, <2>3, <2>4
  <2> QED  BY <2>2, <2>3, <2>4, <2>5
<1> QED  BY <1>1, <1>2

-----------------------------------------------------------------------------
(* Each kind of step.                                                       *)

\* A step that takes updates off the way without showing one keeps the rest in
\* order; so does one that only moves them along it.
LEMMA WayShrinks ==
  ASSUME Invariant, UNCHANGED <<target, shown>>,
         pending' \in Seq(Updates), channel' \in Seq(Updates), busy' \in Seq(Updates),
         NEW f \in [1 .. Len(Way') -> 1 .. Len(Way)],
         \A i \in 1 .. Len(Way') : Way'[i] = Way[f[i]],
         \A i, j \in 1 .. Len(Way') : i < j => f[i] < f[j]
  PROVE  InOrder'
<1>1. Way \in Seq(Updates) /\ Way' \in Seq(Updates)
  BY WayAt DEF Invariant, TypeOK, Way
<1>2. Ordered(Way, shown, target)
  BY DEF Invariant, InOrder, Ordered
<1> DEFINE v == Way'
           w == Way
<1>3. v \in Seq(Updates) /\ w \in Seq(Updates)
  BY <1>1
<1>4. Ordered(v, shown, target)
  <2> HIDE DEF v, w
  <2>1. /\ f \in [1 .. Len(v) -> 1 .. Len(w)]
        /\ \A i \in 1 .. Len(v) : v[i] = w[f[i]]
        /\ \A i, j \in 1 .. Len(v) : i < j => f[i] < f[j]
        /\ Ordered(w, shown, target)
    BY <1>2 DEF v, w
  <2> QED  BY <2>1, <1>3, SubsequenceOrdered
<1> QED  BY <1>4 DEF Invariant, InOrder, Ordered

\* A new state of slot s goes behind everything on the way.
LEMMA ChangeKeeps ==
  ASSUME Invariant, NEW s \in Slots, Change(s)
  PROVE  Invariant'
<1> DEFINE u == [slot |-> s, state |-> target[s] + 1]
<1>i. TypeOK /\ OnePerSlot /\ InOrder
  BY DEF Invariant
<1>t. /\ target \in [Slots -> Nat] /\ shown \in [Slots -> Nat] /\ pending \in Seq(Updates)
      /\ channel \in Seq(Updates) /\ busy \in Seq(Updates)
  BY <1>i DEF TypeOK
<1>0. /\ target' = [target EXCEPT ![s] = @ + 1] /\ target'[s] = target[s] + 1
      /\ target' \in [Slots -> Nat]
      /\ pending' = Queue(u) /\ engine' = "flush"
      /\ UNCHANGED <<channel, busy, shown, stopping, output>>
  BY <1>t DEF Change, pads
<1>u. u \in Updates /\ u.slot = s /\ u.state = target[s] + 1
  BY <1>t DEF Updates
<1> HIDE DEF u
<1>o. \A i, j \in DOMAIN pending : pending[i].slot = pending[j].slot => i = j
  BY <1>i DEF OnePerSlot
<1>q. \A i \in DOMAIN pending : pending[i].state = target[pending[i].slot]
  BY <1>i DEF OnePerSlot
<1>1. /\ pending' \in Seq(Updates)
      /\ Len(pending') \in {Len(pending), Len(pending) + 1}
      /\ \A i, j \in DOMAIN pending' : pending'[i].slot = pending'[j].slot => i = j
      /\ \E i \in DOMAIN pending' : pending'[i] = u
      /\ \A i \in DOMAIN pending' :
             pending'[i].slot # u.slot => i \in DOMAIN pending /\ pending'[i] = pending[i]
  BY <1>0, <1>t, <1>u, <1>o, QueueKeeps
<1>2. \A i \in DOMAIN pending' : pending'[i].slot = s => pending'[i].state = target[s] + 1
  BY <1>1, <1>u
<1>3. TypeOK'
  BY <1>i, <1>0, <1>1 DEF TypeOK
<1>4. OnePerSlot'
  <2>1. ASSUME NEW i \in DOMAIN pending'
        PROVE  pending'[i].state = target'[pending'[i].slot]
    <3>1. CASE pending'[i].slot = s
      BY <3>1, <1>2, <1>0
    <3>2. CASE pending'[i].slot # s
      <4>1. i \in DOMAIN pending /\ pending'[i] = pending[i]
        BY <3>2, <1>1, <1>u
      <4>2. pending[i].slot \in Slots
        BY <4>1, <1>t, UpdateAt
      <4> QED  BY <3>2, <4>1, <4>2, <1>q, <1>0, <1>t
    <3> QED  BY <3>1, <3>2
  <2> QED  BY <2>1, <1>1 DEF OnePerSlot
<1>5. InOrder'
  <2> DEFINE v == busy \o channel \o pending'
             w == busy \o channel \o pending
             n == Len(busy) + Len(channel)
  <2>1. /\ w \in Seq(Updates) /\ Len(w) = n + Len(pending)
        /\ \A i \in 1 .. Len(busy) : w[i] = busy[i]
        /\ \A i \in 1 .. Len(channel) : w[Len(busy) + i] = channel[i]
        /\ \A i \in 1 .. Len(pending) : w[n + i] = pending[i]
    BY <1>t, WayAt
  <2>2. /\ v \in Seq(Updates) /\ Len(v) = n + Len(pending')
        /\ \A i \in 1 .. Len(busy) : v[i] = busy[i]
        /\ \A i \in 1 .. Len(channel) : v[Len(busy) + i] = channel[i]
        /\ \A i \in 1 .. Len(pending') : v[n + i] = pending'[i]
    BY <1>t, <1>1, WayAt
  <2>3. /\ Len(busy) \in Nat /\ Len(channel) \in Nat /\ Len(pending) \in Nat /\ n \in Nat
        /\ Len(pending') \in Nat
        /\ DOMAIN pending = 1 .. Len(pending) /\ DOMAIN pending' = 1 .. Len(pending')
    BY <1>1, <1>t
  <2>4. Ordered(w, shown, target) /\ \A x \in Slots : shown[x] <= target[x]
    BY <1>i DEF InOrder, Ordered, Way
  <2>w. Way' = v
    BY <1>0 DEF Way
  <2> HIDE DEF v, w
  <2>5. \A i \in 1 .. n : v[i] = w[i]
    <3> SUFFICES ASSUME NEW i \in 1 .. n PROVE v[i] = w[i]
      OBVIOUS
    <3>1. CASE i \in 1 .. Len(busy)
      BY <3>1, <2>1, <2>2
    <3>2. CASE ~(i \in 1 .. Len(busy))
      <4>1. i - Len(busy) \in 1 .. Len(channel) /\ i = Len(busy) + (i - Len(busy))
        BY <3>2, <2>3
      <4>2. v[Len(busy) + (i - Len(busy))] = w[Len(busy) + (i - Len(busy))]
        BY <4>1, <2>1, <2>2
      <4> QED  BY <4>1, <4>2
    <3> QED  BY <3>1, <3>2
  <2> HIDE DEF n
  <2>6. ASSUME NEW i \in n + 1 .. Len(v)
        PROVE  /\ i - n \in DOMAIN pending' /\ v[i] = pending'[i - n]
               /\ \/ v[i].slot = s /\ v[i].state = target[s] + 1
                  \/ v[i].slot # s /\ i <= Len(w) /\ v[i] = w[i]
    <3>1. i - n \in 1 .. Len(pending') /\ i = n + (i - n)
      BY <2>2, <2>3
    <3>2. v[i] = pending'[i - n]
      BY <3>1, <2>2
    <3>3. CASE v[i].slot = s
      BY <3>1, <3>2, <3>3, <1>2, <2>3
    <3>4. CASE v[i].slot # s
      <4>1. i - n \in 1 .. Len(pending) /\ v[i] = pending[i - n]
        BY <3>1, <3>2, <3>4, <1>1, <1>u, <2>3
      <4>2. v[i] = w[n + (i - n)] /\ i <= Len(w)
        BY <4>1, <2>1, <2>3
      <4> QED  BY <4>2, <3>1, <3>2, <3>4, <2>3
    <3> QED  BY <3>3, <3>4
  <2>7. \A i, j \in n + 1 .. Len(v) : i < j => v[i].slot # v[j].slot
    <3> SUFFICES ASSUME NEW i \in n + 1 .. Len(v), NEW j \in n + 1 .. Len(v), i < j
                 PROVE  v[i].slot # v[j].slot
      OBVIOUS
    <3>1. /\ i - n \in DOMAIN pending' /\ v[i] = pending'[i - n]
          /\ j - n \in DOMAIN pending' /\ v[j] = pending'[j - n]
      BY <2>6
    <3>2. i - n # j - n
      BY <2>2, <2>3
    <3> QED  BY <3>1, <3>2, <1>1
  <2>8. n <= Len(v) /\ n <= Len(w) /\ shown[s] <= target[s]
    BY <2>1, <2>2, <2>3, <2>4
  <2>9. Ordered(v, shown, target')
    <3>1. \A i \in n + 1 .. Len(v) : \/ v[i].slot = s /\ v[i].state = target[s] + 1
                                     \/ v[i].slot # s /\ i <= Len(w) /\ v[i] = w[i]
      BY <2>6
    <3>2. v \in Seq(Updates) /\ w \in Seq(Updates) /\ n \in Nat
      BY <2>1, <2>2, <2>3
    <3>3. Ordered(w, shown, target)
      BY <2>4
    <3>4. target' \in [Slots -> Nat] /\ target' = [target EXCEPT ![s] = @ + 1]
      BY <1>0
    <3>5. s \in Slots
      OBVIOUS
    <3> QED  BY ONLY <3>1, <3>2, <3>3, <3>4, <3>5, <2>5, <2>7, <2>8, <1>t, NewerOrdered, ZenonT(60)
  <2>10. \A x \in Slots : shown[x] <= target'[x]
    BY <2>4, <1>0, <1>t
  <2> QED  BY <2>9, <2>10, <2>w, <1>0 DEF InOrder, Ordered
<1>6. (output # "on" => busy = <<>>)'
  BY <1>0 DEF Invariant
<1> QED  BY <1>3, <1>4, <1>5, <1>6 DEF Invariant
\* One try_send moves the head of pending to the end of the channel: the way is
\* the same.
LEMMA FlushKeeps ==
  ASSUME Invariant, Flush
  PROVE  Invariant'
<1>0. /\ pending # <<>> /\ Len(channel) < Capacity
      /\ channel' = Append(channel, Head(pending)) /\ pending' = Tail(pending)
      /\ UNCHANGED <<target, engine, stopping, busy, shown, output>>
  BY DEF Flush, FlushOne, pads
<1>i. TypeOK /\ OnePerSlot
  BY DEF Invariant
<1>t. pending \in Seq(Updates) /\ channel \in Seq(Updates) /\ busy \in Seq(Updates)
  BY <1>i DEF TypeOK
<1>1. /\ pending' \in Seq(Updates) /\ Len(pending') = Len(pending) - 1
      /\ \A i \in 1 .. Len(pending') : pending'[i] = pending[i + 1]
      /\ Head(pending) \in Updates /\ Head(pending) = pending[1]
      /\ DOMAIN pending' = 1 .. Len(pending') /\ DOMAIN pending = 1 .. Len(pending)
  BY <1>0, <1>t, HeadTailProperties
<1>2. /\ channel' \in Seq(Updates) /\ Len(channel') = Len(channel) + 1
      /\ \A i \in 1 .. Len(channel) : channel'[i] = channel[i]
      /\ channel'[Len(channel) + 1] = pending[1]
  BY <1>0, <1>1, <1>t, AppendProperties
<1>3. Len(busy) \in Nat /\ Len(channel) \in Nat /\ Len(pending) \in Nat /\ Len(pending) > 0
  BY <1>0, <1>t
<1>4. TypeOK'
  BY <1>i, <1>0, <1>1, <1>2, <1>3, DeltasAssumption DEF TypeOK
<1>5. OnePerSlot'
  <2>1. \A i \in DOMAIN pending' : i + 1 \in DOMAIN pending /\ pending'[i] = pending[i + 1]
    BY <1>1, <1>3
  <2>2. ASSUME NEW i \in DOMAIN pending', NEW j \in DOMAIN pending',
               pending'[i].slot = pending'[j].slot
        PROVE  i = j
    <3>1. i \in Nat /\ j \in Nat
      BY <1>1
    <3>2. i + 1 = j + 1
      BY <2>1, <2>2, <1>i DEF OnePerSlot
    <3> QED  BY <3>1, <3>2
  <2>3. ASSUME NEW i \in DOMAIN pending'
        PROVE  pending'[i].state = target'[pending'[i].slot]
    BY <2>1, <2>3, <1>i, <1>0 DEF OnePerSlot
  <2> QED  BY <2>2, <2>3 DEF OnePerSlot
<1>6. InOrder'
  <2> DEFINE v == busy \o channel' \o pending'
             w == busy \o channel \o pending
  <2>1. /\ Len(w) = Len(busy) + Len(channel) + Len(pending)
        /\ \A i \in 1 .. Len(busy) : w[i] = busy[i]
        /\ \A i \in 1 .. Len(channel) : w[Len(busy) + i] = channel[i]
        /\ \A i \in 1 .. Len(pending) : w[Len(busy) + Len(channel) + i] = pending[i]
    BY <1>t, WayAt
  <2>2. /\ Len(v) = Len(busy) + Len(channel') + Len(pending')
        /\ \A i \in 1 .. Len(busy) : v[i] = busy[i]
        /\ \A i \in 1 .. Len(channel') : v[Len(busy) + i] = channel'[i]
        /\ \A i \in 1 .. Len(pending') : v[Len(busy) + Len(channel') + i] = pending'[i]
    <3>1. pending' \in Seq(Updates) /\ channel' \in Seq(Updates)
      BY <1>1, <1>2
    <3> QED  BY <3>1, <1>t, WayAt
  <2>w. Way = w /\ Way' = v
    BY <1>0 DEF Way
  <2> HIDE DEF v, w
  <2>3. Len(v) = Len(w)
    BY <2>1, <2>2, <1>1, <1>2, <1>3
  <2>4. ASSUME NEW i \in 1 .. Len(v)
        PROVE  v[i] = w[i]
    <3>1. CASE i \in 1 .. Len(busy)
      BY <3>1, <2>1, <2>2
    <3>2. CASE i - Len(busy) \in 1 .. Len(channel)
      <4> DEFINE k == i - Len(busy)
      <4>1. k \in 1 .. Len(channel) /\ k \in 1 .. Len(channel') /\ i = Len(busy) + k
        BY <3>2, <1>2, <1>3
      <4> HIDE DEF k
      <4> QED  BY <4>1, <2>1, <2>2, <1>2
    <3>3. CASE i = Len(busy) + (Len(channel) + 1)
      <4>1. Len(channel) + 1 \in 1 .. Len(channel') /\ 1 \in 1 .. Len(pending)
        BY <1>2, <1>3
      <4>2. v[i] = pending[1]
        BY <4>1, <3>3, <2>2, <1>2
      <4>3. i = Len(busy) + Len(channel) + 1
        BY <3>3, <1>3
      <4> QED  BY <4>1, <4>2, <4>3, <2>1
    <3>4. CASE i > Len(busy) + Len(channel) + 1
      <4> DEFINE k == i - (Len(busy) + Len(channel'))
      <4>1. /\ k \in 1 .. Len(pending') /\ i = Len(busy) + Len(channel') + k
            /\ k + 1 \in 1 .. Len(pending) /\ i = Len(busy) + Len(channel) + (k + 1)
        BY <3>4, <2>2, <1>1, <1>2, <1>3
      <4> HIDE DEF k
      <4>2. v[i] = pending'[k] /\ pending'[k] = pending[k + 1]
        BY <4>1, <2>2, <1>1
      <4>3. w[i] = pending[k + 1]
        BY <4>1, <2>1
      <4> QED  BY <4>2, <4>3
    <3> QED  BY <3>1, <3>2, <3>3, <3>4, <2>2, <1>2, <1>3
  <2> DEFINE f == [i \in 1 .. Len(v) |-> i]
  <2>5. /\ f \in [1 .. Len(v) -> 1 .. Len(w)]
        /\ \A i \in 1 .. Len(v) : v[i] = w[f[i]]
        /\ \A i, j \in 1 .. Len(v) : i < j => f[i] < f[j]
    BY <2>3, <2>4
  <2> HIDE DEF f
  <2> QED  BY <2>5, <2>w, <1>0, <1>1, <1>2, <1>t, WayShrinks
<1>7. (output # "on" => busy = <<>>)'
  BY <1>0 DEF Invariant
<1> QED  BY <1>4, <1>5, <1>6, <1>7 DEF Invariant
\* What a step may leave of one part of the way.
LEMMA SuffixAt ==
  ASSUME NEW w \in Seq(Updates), NEW x,
         \/ x = w
         \/ x = <<>>
         \/ w # <<>> /\ x = Tail(w)
  PROVE  /\ x \in Seq(Updates) /\ Len(x) <= Len(w)
         /\ \A i \in 1 .. Len(x) : x[i] = w[Len(w) - Len(x) + i]
<1>1. CASE x = w
  BY <1>1
<1>2. CASE x = <<>>
  BY <1>2
<1>3. CASE w # <<>> /\ x = Tail(w)
  BY <1>3, HeadTailProperties
<1> QED  BY <1>1, <1>2, <1>3

\* The steps that show nothing: each takes the driver's update, the channel, its
\* head, or what is pending off the way, or moves nothing on it.
Silent == \/ Retry \/ Flushed \/ OutputGone \/ Stop \/ Finish \/ EngineDies
          \/ Fails \/ Drain \/ Unplug

LEMMA SilentKeeps ==
  ASSUME Invariant, Silent
  PROVE  Invariant'
<1>i. TypeOK /\ OnePerSlot /\ InOrder
  BY DEF Invariant
<1>t. pending \in Seq(Updates) /\ channel \in Seq(Updates) /\ busy \in Seq(Updates)
  BY <1>i DEF TypeOK
<1>0. /\ UNCHANGED <<target, shown>>
      /\ pending' = pending \/ pending' = <<>>
      /\ \/ channel' = channel
         \/ channel' = <<>>
         \/ channel # <<>> /\ channel' = Tail(channel)
      /\ busy' = busy \/ busy' = <<>>
      /\ output' # "on" => busy' = <<>>
      /\ engine' \in {"idle", "flush", "last", "gone"} /\ stopping' \in BOOLEAN
      /\ output' \in {"on", "failed", "gone"}
  <2> USE <1>i DEF Invariant, TypeOK, pads
  <2>1. CASE Retry  BY <2>1 DEF Retry
  <2>2. CASE Flushed  BY <2>2 DEF Flushed, KeepPending
  <2>3. CASE OutputGone  BY <2>3 DEF OutputGone
  <2>4. CASE Stop  BY <2>4 DEF Stop
  <2>5. CASE Finish  BY <2>5 DEF Finish
  <2>6. CASE EngineDies  BY <2>6 DEF EngineDies
  <2>7. CASE Fails  BY <2>7 DEF Fails
  <2>8. CASE Drain  BY <2>8 DEF Drain
  <2>9. CASE Unplug  BY <2>9 DEF Unplug
  <2> QED  BY <2>1, <2>2, <2>3, <2>4, <2>5, <2>6, <2>7, <2>8, <2>9 DEF Silent
<1>1. /\ pending' \in Seq(Updates) /\ Len(pending') <= Len(pending)
      /\ \A i \in 1 .. Len(pending') : pending'[i] = pending[Len(pending) - Len(pending') + i]
  BY <1>0, <1>t, SuffixAt
<1>2. /\ channel' \in Seq(Updates) /\ Len(channel') <= Len(channel)
      /\ \A i \in 1 .. Len(channel') : channel'[i] = channel[Len(channel) - Len(channel') + i]
  BY <1>0, <1>t, SuffixAt
<1>3. /\ busy' \in Seq(Updates) /\ Len(busy') <= Len(busy)
      /\ \A i \in 1 .. Len(busy') : busy'[i] = busy[Len(busy) - Len(busy') + i]
  BY <1>0, <1>t, SuffixAt
<1>4. TypeOK'
  <2>1. Len(channel') <= Capacity /\ Len(busy') <= 1
    BY <1>i, <1>1, <1>2, <1>3, <1>t, DeltasAssumption DEF TypeOK
  <2> QED  BY <2>1, <1>i, <1>0, <1>1, <1>2, <1>3 DEF TypeOK
<1>5. OnePerSlot'
  BY <1>i, <1>0, <1>t DEF OnePerSlot
<1>6. InOrder'
  <2>1. Ordered(busy \o channel \o pending, shown, target)
    BY <1>i DEF InOrder, Ordered, Way
  <2>2. Ordered(busy' \o channel' \o pending', shown, target)
    BY <2>1, <1>1, <1>2, <1>3, <1>t, SuffixesOrdered
  <2>3. \A x \in Slots : shown[x] <= target[x]
    BY <1>i DEF InOrder
  <2> QED  BY <2>2, <2>3, <1>0 DEF InOrder, Ordered, Way
<1>7. (output # "on" => busy = <<>>)'
  BY <1>0
<1> QED  BY <1>4, <1>5, <1>6, <1>7 DEF Invariant

\* The head of the channel becomes the driver's update: the way is the same.
LEMMA UpdateKeeps ==
  ASSUME Invariant, Update
  PROVE  Invariant'
<1>0. /\ channel # <<>> /\ busy = <<>> /\ output = "on"
      /\ busy' = <<Head(channel)>> /\ channel' = Tail(channel)
      /\ UNCHANGED <<target, pending, shown, engine, stopping, output>>
  BY DEF Update, Take
<1>i. TypeOK /\ OnePerSlot /\ InOrder
  BY DEF Invariant
<1>t. pending \in Seq(Updates) /\ channel \in Seq(Updates) /\ busy \in Seq(Updates)
  BY <1>i DEF TypeOK
<1>1. /\ channel' \in Seq(Updates) /\ Len(channel') = Len(channel) - 1
      /\ \A i \in 1 .. Len(channel') : channel'[i] = channel[i + 1]
      /\ Head(channel) \in Updates /\ Head(channel) = channel[1]
  BY <1>0, <1>t, HeadTailProperties
<1>2. busy' \in Seq(Updates) /\ Len(busy') = 1 /\ busy'[1] = channel[1] /\ Len(busy) = 0
  BY <1>0, <1>1
<1>3. Len(channel) \in Nat /\ Len(pending) \in Nat /\ Len(channel) > 0
  BY <1>0, <1>t
<1>4. TypeOK'
  <2>1. Len(channel') <= Capacity
    BY <1>i, <1>1, <1>3, DeltasAssumption DEF TypeOK
  <2> QED  BY <2>1, <1>i, <1>0, <1>1, <1>2 DEF TypeOK
<1>5. OnePerSlot'
  BY <1>i, <1>0 DEF OnePerSlot
<1>6. InOrder'
  <2> DEFINE v == busy' \o channel' \o pending
             w == busy \o channel \o pending
  <2>1. /\ Len(w) = Len(busy) + Len(channel) + Len(pending)
        /\ \A i \in 1 .. Len(channel) : w[Len(busy) + i] = channel[i]
        /\ \A i \in 1 .. Len(pending) : w[Len(busy) + Len(channel) + i] = pending[i]
    BY <1>t, WayAt
  <2>2. /\ Len(v) = Len(busy') + Len(channel') + Len(pending)
        /\ \A i \in 1 .. Len(busy') : v[i] = busy'[i]
        /\ \A i \in 1 .. Len(channel') : v[Len(busy') + i] = channel'[i]
        /\ \A i \in 1 .. Len(pending) : v[Len(busy') + Len(channel') + i] = pending[i]
    <3>1. busy' \in Seq(Updates) /\ channel' \in Seq(Updates)
      BY <1>1, <1>2
    <3> QED  BY <3>1, <1>t, WayAt
  <2>w. Way = w /\ Way' = v
    BY <1>0 DEF Way
  <2> HIDE DEF v, w
  <2>3. Len(v) = Len(w)
    BY <2>1, <2>2, <1>1, <1>2, <1>3
  <2>4. ASSUME NEW i \in 1 .. Len(v)
        PROVE  v[i] = w[i]
    <3>1. CASE i = 1
      <4>1. 1 \in 1 .. Len(channel) /\ 1 \in 1 .. Len(busy') /\ Len(busy) + 1 = 1
        BY <1>2, <1>3
      <4>2. v[1] = busy'[1] /\ w[1] = channel[1]
        BY <4>1, <2>1, <2>2
      <4> QED  BY <3>1, <4>2, <1>2
    <3>2. CASE i > 1 /\ i <= Len(channel)
      <4> DEFINE k == i - 1
      <4>1. /\ k \in 1 .. Len(channel') /\ i = Len(busy') + k /\ i = k + 1
            /\ i \in 1 .. Len(channel) /\ i = Len(busy) + i
        BY <3>2, <1>1, <1>2, <1>3
      <4> HIDE DEF k
      <4>2. v[i] = channel'[k] /\ channel'[k] = channel[k + 1]
        BY <4>1, <2>2, <1>1
      <4>3. w[Len(busy) + i] = channel[i]
        BY <4>1, <2>1
      <4> QED  BY <4>1, <4>2, <4>3
    <3>3. CASE i > Len(channel)
      <4> DEFINE k == i - Len(channel)
      <4>1. /\ k \in 1 .. Len(pending) /\ i = Len(busy') + Len(channel') + k
            /\ i = Len(busy) + Len(channel) + k
        BY <3>3, <2>2, <1>1, <1>2, <1>3
      <4> HIDE DEF k
      <4>2. v[i] = pending[k] /\ w[i] = pending[k]
        BY <4>1, <2>1, <2>2
      <4> QED  BY <4>2
    <3> QED  BY <3>1, <3>2, <3>3, <1>3
  <2> DEFINE f == [i \in 1 .. Len(v) |-> i]
  <2>5. /\ f \in [1 .. Len(v) -> 1 .. Len(w)]
        /\ \A i \in 1 .. Len(v) : v[i] = w[f[i]]
        /\ \A i, j \in 1 .. Len(v) : i < j => f[i] < f[j]
    BY <2>3, <2>4
  <2> HIDE DEF f
  <2>6. /\ UNCHANGED <<target, shown>>
        /\ pending' \in Seq(Updates) /\ channel' \in Seq(Updates) /\ busy' \in Seq(Updates)
    BY <1>0, <1>1, <1>2, <1>t
  <2> QED  BY <2>5, <2>6, <2>w, WayShrinks
<1>7. (output # "on" => busy = <<>>)'
  BY <1>0
<1> QED  BY <1>4, <1>5, <1>6, <1>7 DEF Invariant

\* The driver takes its update: the pad moves forward, to a state of its slot.
LEMMA UpdatedKeeps ==
  ASSUME Invariant, Updated
  PROVE  /\ Invariant'
         /\ Stream!Show(busy[1].slot)
<1>0. /\ busy # <<>> /\ busy' = <<>>
      /\ shown' = [shown EXCEPT ![busy[1].slot] = busy[1].state]
      /\ UNCHANGED <<target, pending, channel, engine, stopping, output>>
  BY DEF Updated
<1>i. TypeOK /\ OnePerSlot /\ InOrder
  BY DEF Invariant
<1>t. /\ pending \in Seq(Updates) /\ channel \in Seq(Updates) /\ busy \in Seq(Updates)
      /\ target \in [Slots -> Nat] /\ shown \in [Slots -> Nat]
  BY <1>i DEF TypeOK
<1>1. Len(busy) = 1 /\ 1 \in 1 .. Len(busy)
  <2>1. Len(busy) <= 1 /\ Len(busy) \in Nat
    BY <1>i, <1>t DEF TypeOK
  <2>2. Len(busy) # 0
    BY <1>0, <1>t, EmptySeq
  <2> QED  BY <2>1, <2>2
<1>2. busy[1].slot \in Slots /\ busy[1].state \in Nat
  BY <1>1, <1>t, UpdateAt
<1>3. shown' \in [Slots -> Nat]
  BY <1>0, <1>2, <1>t
<1> DEFINE v == <<>> \o channel \o pending
           w == busy \o channel \o pending
<1>4. /\ w \in Seq(Updates) /\ Len(w) = Len(busy) + Len(channel) + Len(pending)
      /\ \A i \in 1 .. Len(busy) : w[i] = busy[i]
      /\ \A i \in 1 .. Len(channel) : w[Len(busy) + i] = channel[i]
      /\ \A i \in 1 .. Len(pending) : w[Len(busy) + Len(channel) + i] = pending[i]
  BY <1>t, WayAt
<1>5. /\ v \in Seq(Updates) /\ Len(v) = 0 + Len(channel) + Len(pending)
      /\ \A i \in 1 .. Len(channel) : v[0 + i] = channel[i]
      /\ \A i \in 1 .. Len(pending) : v[0 + Len(channel) + i] = pending[i]
  <2>1. <<>> \in Seq(Updates) /\ Len(<<>>) = 0
    OBVIOUS
  <2> QED  BY <2>1, <1>t, WayAt
<1>w. Way = w /\ Way' = v
  BY <1>0 DEF Way
<1>n. Len(channel) \in Nat /\ Len(pending) \in Nat
  BY <1>t
<1>6. Ordered(w, shown, target) /\ \A x \in Slots : shown[x] <= target[x]
  BY <1>i DEF InOrder, Ordered, Way
<1> HIDE DEF v, w
<1>7. ASSUME NEW i \in 1 .. Len(v)
      PROVE  v[i] = w[i + 1]
  <2>1. CASE i <= Len(channel)
    <3>1. i \in 1 .. Len(channel) /\ i = 0 + i /\ i + 1 = Len(busy) + i
      BY <2>1, <1>1, <1>n
    <3>2. v[0 + i] = channel[i] /\ w[Len(busy) + i] = channel[i]
      BY <3>1, <1>4, <1>5
    <3> QED  BY <3>1, <3>2
  <2>2. CASE i > Len(channel)
    <3> DEFINE k == i - Len(channel)
    <3>1. /\ k \in 1 .. Len(pending) /\ i = 0 + Len(channel) + k
          /\ i + 1 = Len(busy) + Len(channel) + k
      BY <2>2, <1>1, <1>5, <1>n
    <3> HIDE DEF k
    <3>2. v[i] = pending[k] /\ w[i + 1] = pending[k]
      BY <3>1, <1>4, <1>5
    <3> QED  BY <3>2
  <2> QED  BY <2>1, <2>2, <1>n
<1>8. w[1] = busy[1] /\ Len(w) = Len(v) + 1
  BY <1>1, <1>4, <1>5, <1>n
<1>9. /\ Ordered(v, shown', target)
      /\ shown[busy[1].slot] < busy[1].state /\ busy[1].state <= target[busy[1].slot]
  <2>1. v \in Seq(Updates) /\ w \in Seq(Updates)
    BY <1>4, <1>5
  <2>2. shown' = [shown EXCEPT ![w[1].slot] = w[1].state]
    BY <1>0, <1>8
  <2>3. Ordered(w, shown, target)
    BY <1>6
  <2>4. /\ Ordered(v, shown', target)
        /\ shown[w[1].slot] < w[1].state /\ w[1].state <= target[w[1].slot]
    <3>1. \A i \in 1 .. Len(v) : v[i] = w[i + 1]
      BY <1>7
    <3> QED  BY ONLY <3>1, <2>1, <2>2, <2>3, <1>3, <1>8, <1>t, ShownOrdered
  <2> QED  BY <2>4, <1>8
<1>10. InOrder'
  <2>1. \A x \in Slots : shown'[x] <= target[x]
    BY <1>0, <1>2, <1>6, <1>9, <1>t
  <2> QED  BY <2>1, <1>9, <1>w, <1>0 DEF InOrder, Ordered
<1>11. TypeOK'
  BY <1>0, <1>3, <1>i DEF TypeOK
<1>12. OnePerSlot'
  BY <1>i, <1>0 DEF OnePerSlot
<1>13. Stream!Show(busy[1].slot)
  <2>1. busy[1].state \in shown[busy[1].slot] + 1 .. target[busy[1].slot]
    BY <1>2, <1>9, <1>t
  <2> QED  BY <2>1, <1>0 DEF Stream!Show
<1> QED  BY <1>10, <1>11, <1>12, <1>13, <1>0 DEF Invariant

-----------------------------------------------------------------------------
(* The theorems.                                                            *)

LEMMA InitInvariant == Init => Invariant
<1> SUFFICES ASSUME Init PROVE Invariant
  OBVIOUS
<1>1. Way = <<>>
  BY DEF Init, Way
<1>2. TypeOK
  <2>1. <<>> \in Seq(Updates) /\ Len(<<>>) = 0
    OBVIOUS
  <2>2. Len(channel) <= Capacity /\ Len(busy) <= 1
    BY <2>1, DeltasAssumption DEF Init
  <2> QED  BY <2>1, <2>2 DEF Init, TypeOK
<1>3. OnePerSlot
  BY DEF Init, OnePerSlot
<1>4. InOrder
  <2>1. DOMAIN Way = {}
    BY <1>1
  <2>2. \A x \in Slots : shown[x] <= target[x]
    BY DEF Init
  <2> QED  BY <2>1, <2>2 DEF InOrder
<1> QED  BY <1>2, <1>3, <1>4 DEF Invariant, Init

LEMMA NextInvariant == Invariant /\ [Next]_vars => Invariant'
<1> SUFFICES ASSUME Invariant, [Next]_vars PROVE Invariant'
  OBVIOUS
<1>1. ASSUME NEW s \in Slots, Change(s) PROVE Invariant'
  BY <1>1, ChangeKeeps
<1>2. CASE Flush  BY <1>2, FlushKeeps
<1>3. CASE Silent  BY <1>3, SilentKeeps
<1>4. CASE Update  BY <1>4, UpdateKeeps
<1>5. CASE Updated  BY <1>5, UpdatedKeeps
<1>6. CASE UNCHANGED vars
  <2>1. UNCHANGED <<target, pending, channel, busy, shown, engine, stopping, output>>
    BY <1>6 DEF vars
  <2>2. Way' = Way
    BY <2>1 DEF Way
  <2>3. TypeOK' /\ OnePerSlot'
    BY <2>1 DEF Invariant, TypeOK, OnePerSlot
  <2>4. InOrder'
    BY <2>1, <2>2 DEF Invariant, InOrder
  <2> QED  BY <2>1, <2>3, <2>4 DEF Invariant
<1> QED  BY <1>1, <1>2, <1>3, <1>4, <1>5, <1>6 DEF Next, Engine, Output, Silent

LEMMA AlwaysInvariant == Spec => []Invariant
BY InitInvariant, NextInvariant, PTL DEF Spec

\* However long the driver hangs, one state per slot waits, the newest
\* (DeltaTx::send, DeltaTx::flush).
THEOREM OneStatePerSlot == Spec => []OnePerSlot
<1>1. Invariant => OnePerSlot
  BY DEF Invariant
<1> QED  BY <1>1, AlwaysInvariant, PTL

\* Nothing on the way to a pad is older than what is ahead of it.
THEOREM StatesStayInOrder == Spec => []InOrder
<1>1. Invariant => InOrder
  BY DEF Invariant
<1> QED  BY <1>1, AlwaysInvariant, PTL

\* DeltaTx, the channel and the output thread implement the abstract stream: a
\* pad only moves forward through the states of its own slot.
THEOREM PadsFollowTheStream == Spec => StreamSpec
<1>1. Init => Stream!Init
  BY DEF Init, Stream!Init
<1>2. Invariant /\ [Next]_vars => [Stream!Next]_<<target, shown>>
  <2> SUFFICES ASSUME Invariant, [Next]_vars PROVE [Stream!Next]_<<target, shown>>
    OBVIOUS
  <2>1. ASSUME NEW s \in Slots, Change(s) PROVE Stream!Next
    BY <2>1 DEF Change, pads, Stream!Next, Stream!Change
  <2>2. CASE Flush \/ Silent \/ Update \/ UNCHANGED vars
    BY <2>2 DEF Flush, FlushOne, Silent, Retry, Flushed, OutputGone, Stop, Finish,
                EngineDies, Fails, Drain, Unplug, Update, Take, vars, pads
  <2>3. CASE Updated
    <3>1. Stream!Show(busy[1].slot)
      BY <2>3, UpdatedKeeps
    <3>2. busy[1].slot \in Slots
      BY <2>3, UpdateAt DEF Invariant, TypeOK, Updated
    <3> QED  BY <3>1, <3>2 DEF Stream!Next
  <2> QED  BY <2>1, <2>2, <2>3 DEF Next, Engine, Output, Silent
<1> QED  BY <1>1, <1>2, AlwaysInvariant, PTL DEF Spec, StreamSpec, Stream!Spec
-----------------------------------------------------------------------------
(* No newest state is lost.                                                 *)

In(u, w) == \E i \in 1 .. Len(w) : w[i] = u
New(s)   == [slot |-> s, state |-> target[s]]

\* NewestIsKept, with the parts of the way told apart.
Kept(s) == shown[s] = target[s] \/ In(New(s), busy) \/ In(New(s), channel) \/ In(New(s), pending)
Newest  == engine # "gone" /\ output = "on" => \A s \in Slots : Kept(s)

\* What is in a sequence is its head or in its tail.
LEMMA InTail ==
  ASSUME NEW w \in Seq(Updates), w # <<>>, NEW u, In(u, w)
  PROVE  u = Head(w) \/ In(u, Tail(w))
<1>1. PICK i \in 1 .. Len(w) : w[i] = u
  BY DEF In
<1>2. /\ Len(Tail(w)) = Len(w) - 1 /\ Len(w) \in Nat
      /\ \A j \in 1 .. Len(Tail(w)) : Tail(w)[j] = w[j + 1]
  BY HeadTailProperties
<1>3. CASE i = 1
  BY <1>1, <1>3
<1>4. CASE i # 1
  <2>1. i - 1 \in 1 .. Len(Tail(w)) /\ (i - 1) + 1 = i
    BY <1>2, <1>4
  <2>2. Tail(w)[i - 1] = u
    BY <1>1, <1>2, <2>1
  <2> QED  BY <2>1, <2>2 DEF In
<1> QED  BY <1>3, <1>4

\* Appending adds what is appended and loses nothing.
LEMMA InAppend ==
  ASSUME NEW w \in Seq(Updates), NEW h \in Updates, NEW u, In(u, w) \/ u = h
  PROVE  In(u, Append(w, h))
<1>1. /\ Len(Append(w, h)) = Len(w) + 1 /\ Append(w, h)[Len(w) + 1] = h /\ Len(w) \in Nat
      /\ \A i \in 1 .. Len(w) : Append(w, h)[i] = w[i]
  BY AppendProperties
<1>2. Len(w) + 1 \in 1 .. Len(Append(w, h)) /\ 1 .. Len(w) \subseteq 1 .. Len(Append(w, h))
  BY <1>1
<1>3. CASE In(u, w)
  BY <1>1, <1>2, <1>3 DEF In
<1>4. CASE u = h
  BY <1>1, <1>2, <1>4 DEF In
<1> QED  BY <1>3, <1>4

\* Queue has the new state, and of every other slot what was pending.
LEMMA InQueue ==
  ASSUME NEW w \in Updates, pending \in Seq(Updates), NEW u,
         u = w \/ (In(u, pending) /\ u.slot # w.slot)
  PROVE  In(u, Queue(w))
<1>1. CASE \E i \in DOMAIN pending : pending[i].slot = w.slot
  <2> DEFINE q == [i \in DOMAIN pending |-> IF pending[i].slot = w.slot THEN w ELSE pending[i]]
  <2>1. Queue(w) = q
    BY <1>1 DEF Queue
  <2>2. Len(q) = Len(pending) /\ DOMAIN pending = 1 .. Len(pending)
    OBVIOUS
  <2>3. \E i \in 1 .. Len(q) : q[i] = u
    BY <1>1, <2>2 DEF In
  <2> QED  BY <2>1, <2>3 DEF In
<1>2. CASE ~ \E i \in DOMAIN pending : pending[i].slot = w.slot
  BY <1>2, InAppend DEF Queue
<1> QED  BY <1>1, <1>2

LEMMA NextNewest == Invariant /\ Newest /\ [Next]_vars => Newest'
<1> SUFFICES ASSUME Invariant, Newest, [Next]_vars, (engine # "gone" /\ output = "on")',
                    NEW s \in Slots
             PROVE  Kept(s)'
  BY DEF Newest
<1>t. /\ pending \in Seq(Updates) /\ channel \in Seq(Updates) /\ busy \in Seq(Updates)
      /\ Len(busy) <= 1 /\ target \in [Slots -> Nat] /\ shown \in [Slots -> Nat]
  BY DEF Invariant, TypeOK
<1>1. ASSUME NEW x \in Slots, Change(x) PROVE Kept(s)'
  <2> DEFINE w == [slot |-> x, state |-> target'[x]]
  <2>1. /\ target' = [target EXCEPT ![x] = @ + 1] /\ pending' = Queue(w)
        /\ UNCHANGED <<channel, busy, shown>> /\ engine = "idle" /\ output = "on"
    BY <1>1 DEF Change, pads
  <2>2. w \in Updates
    BY <2>1, <1>t DEF Updates
  <2>3. CASE s = x
    <3>1. New(s)' = w
      BY <2>3 DEF New
    <3> QED  BY <3>1, <2>1, <2>2, <1>t, InQueue DEF Kept
  <2>4. CASE s # x
    <3>1. New(s)' = New(s) /\ target'[s] = target[s] /\ New(s).slot # w.slot
      BY <2>1, <2>4, <1>t DEF New
    <3>2. Kept(s)
      BY <2>1 DEF Newest
    <3>3. In(New(s), pending) => In(New(s), pending')
      BY <3>1, <2>1, <2>2, <1>t, InQueue
    <3> QED  BY <3>1, <3>2, <3>3, <2>1 DEF Kept
  <2> QED  BY <2>3, <2>4
<1>2. CASE Flush
  <2>1. /\ pending # <<>> /\ channel' = Append(channel, Head(pending)) /\ pending' = Tail(pending)
        /\ UNCHANGED <<target, engine, busy, shown, output>>
    BY <1>2 DEF Flush, FlushOne, pads
  <2>2. Kept(s) /\ New(s)' = New(s)
    BY <2>1 DEF Newest, New
  <2>3. Head(pending) \in Updates
    BY <2>1, <1>t
  <2>4. In(New(s), pending) => New(s) = Head(pending) \/ In(New(s), pending')
    BY <2>1, <1>t, InTail
  <2>5. In(New(s), channel) \/ New(s) = Head(pending) => In(New(s), channel')
    BY <2>1, <2>3, <1>t, InAppend
  <2> QED  BY <2>1, <2>2, <2>4, <2>5 DEF Kept
<1>3. CASE Update
  <2>1. /\ busy = <<>> /\ channel # <<>> /\ busy' = <<Head(channel)>> /\ channel' = Tail(channel)
        /\ UNCHANGED <<target, pending, shown, engine, output>>
    BY <1>3 DEF Update, Take
  <2>2. Kept(s) /\ New(s)' = New(s)
    BY <2>1 DEF Newest, New
  <2>3. In(New(s), channel) => New(s) = Head(channel) \/ In(New(s), channel')
    BY <2>1, <1>t, InTail
  <2>4. New(s) = Head(channel) => In(New(s), busy')
    BY <2>1 DEF In
  <2>5. ~In(New(s), busy)
    BY <2>1 DEF In
  <2> QED  BY <2>1, <2>2, <2>3, <2>4, <2>5 DEF Kept
<1>4. CASE Updated
  <2>1. /\ busy # <<>> /\ busy' = <<>> /\ shown' = [shown EXCEPT ![busy[1].slot] = busy[1].state]
        /\ UNCHANGED <<target, pending, channel, engine, output>>
    BY <1>4 DEF Updated
  <2>2. Kept(s) /\ New(s)' = New(s)
    BY <2>1 DEF Newest, New
  <2>3. /\ busy[1].slot \in Slots
        /\ shown'[busy[1].slot] \in shown[busy[1].slot] + 1 .. target[busy[1].slot]
    <3>1. Len(busy) # 0 /\ Len(busy) \in Nat
      BY <2>1, <1>t, EmptySeq
    <3>2. busy[1].slot \in Slots
      BY <3>1, <1>t, UpdateAt
    <3>3. Stream!Show(busy[1].slot)
      BY <1>4, UpdatedKeeps
    <3>4. PICK n \in shown[busy[1].slot] + 1 .. target[busy[1].slot] :
                 shown' = [shown EXCEPT ![busy[1].slot] = n]
      BY <3>3 DEF Stream!Show
    <3>5. shown'[busy[1].slot] = n
      BY <3>2, <3>4, <1>t
    <3> QED  BY <3>2, <3>4, <3>5
  <2>4. CASE In(New(s), busy)
    <3>1. New(s) = busy[1]
      BY <2>4, <1>t DEF In
    <3>2. busy[1].slot = s /\ busy[1].state = target[s]
      BY <3>1 DEF New
    <3> QED  BY <3>2, <2>1, <2>3, <1>t DEF Kept
  <2>5. CASE shown[s] = target[s]
    <3>1. s # busy[1].slot
      BY <2>3, <2>5, <1>t
    <3> QED  BY <3>1, <2>1, <2>5, <1>t DEF Kept
  <2> QED  BY <2>1, <2>2, <2>4, <2>5 DEF Kept
<1>5. CASE Silent \/ UNCHANGED vars
  <2>1. /\ UNCHANGED <<target, shown, pending, channel, busy>>
        /\ engine # "gone" /\ output = "on"
    BY <1>5 DEF Silent, Retry, Flushed, KeepPending, OutputGone, Stop, Finish, EngineDies, Fails,
                Drain, Unplug, vars, pads
  <2> QED  BY <2>1 DEF Newest, Kept, New
<1> QED  BY <1>1, <1>2, <1>3, <1>4, <1>5 DEF Next, Engine, Output, Silent

\* Coalescing loses no newest state: while both threads work it is on its pad or
\* on the way there, however full the channel and however slow the driver.
THEOREM NewestStatesAreKept == Spec => []NewestIsKept
<1>1. Init => Newest
  BY DEF Init, Newest, Kept
<1>2. Invariant /\ Newest => NewestIsKept
  <2> SUFFICES ASSUME Invariant, Newest, engine # "gone", output = "on", NEW s \in Slots,
                      shown[s] # target[s]
               PROVE  \E i \in DOMAIN Way : Way[i] = New(s)
    BY DEF NewestIsKept, New
  <2>1. /\ pending \in Seq(Updates) /\ channel \in Seq(Updates) /\ busy \in Seq(Updates)
    BY DEF Invariant, TypeOK
  <2>2. /\ Way \in Seq(Updates) /\ Len(Way) = Len(busy) + Len(channel) + Len(pending)
        /\ \A i \in 1 .. Len(busy) : Way[i] = busy[i]
        /\ \A i \in 1 .. Len(channel) : Way[Len(busy) + i] = channel[i]
        /\ \A i \in 1 .. Len(pending) : Way[Len(busy) + Len(channel) + i] = pending[i]
    BY <2>1, WayAt DEF Way
  <2>3. /\ DOMAIN Way = 1 .. Len(Way)
        /\ Len(busy) \in Nat /\ Len(channel) \in Nat /\ Len(pending) \in Nat
    BY <2>1, <2>2
  <2>4. CASE In(New(s), busy)
    BY <2>2, <2>3, <2>4 DEF In
  <2>5. CASE In(New(s), channel)
    <3>1. PICK i \in 1 .. Len(channel) : channel[i] = New(s)
      BY <2>5 DEF In
    <3>2. Len(busy) + i \in DOMAIN Way
      BY <2>2, <2>3
    <3> QED  BY <3>1, <3>2, <2>2
  <2>6. CASE In(New(s), pending)
    <3>1. PICK i \in 1 .. Len(pending) : pending[i] = New(s)
      BY <2>6 DEF In
    <3>2. Len(busy) + Len(channel) + i \in DOMAIN Way
      BY <2>2, <2>3
    <3> QED  BY <3>1, <3>2, <2>2
  <2> QED  BY <2>4, <2>5, <2>6 DEF Newest, Kept
<1> QED  BY <1>1, <1>2, NextNewest, AlwaysInvariant, PTL DEF Spec
=============================================================================
