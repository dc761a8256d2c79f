------------------------------ MODULE SignalProofs -----------------------------
(***************************************************************************)
(* Proofs about the squelch, for any first estimate, any alpha, and any    *)
(* envelopes; about the windows that measure the tones, for any size and   *)
(* any samples; and about the transform of mw_cal, for any power of two    *)
(* and any samples.                                                        *)
(***************************************************************************)
EXTENDS Squelch, Window, Spectrum, WellFoundedInduction, TLAPS

(* The envelopes of the channel are numbers; nothing else is asked of them. *)
Heard == channel \in Channels /\ channel.signal \in Int /\ channel.noise \in Int

(* The threshold is halfway, but for the initial estimate: until the first  *)
(* envelope it is where the caller wants it.                                *)
Inv == /\ Heard
       /\ low_ema \in Int /\ high_ema \in Int /\ threshold \in Int
       /\ LevelsStayApart

LEMMA Constants ==
  /\ Threshold \in Nat \ {0} /\ Slowness \in Nat /\ Slowness > 1 /\ Envelopes \subseteq Int
  /\ \A c \in Channels : c.signal \in Int /\ c.noise \in Int
<1>1. {Threshold, Slowness} \subseteq Nat \ {0} /\ Slowness # 1
  BY SquelchAssumption
<1>2. Envelopes \subseteq Int
  BY SquelchAssumption
<1>3. \A c \in Channels : c.signal \in Int /\ c.noise \in Int
  BY SquelchAssumption
<1> QED
  BY <1>1, <1>2, <1>3

(* An average moves towards the envelope, does not pass it, and does not    *)
(* reach it either.                                                         *)
LEMMA AveragedBetween ==
  ASSUME NEW a \in Int, NEW e \in Int
  PROVE  /\ Averaged(a, e) \in Int
         /\ e < a => e < Averaged(a, e) /\ Averaged(a, e) <= a
         /\ a < e => a <= Averaged(a, e) /\ Averaged(a, e) < e
         /\ a = e => Averaged(a, e) = a
<1>1. ASSUME NEW d \in Nat
      PROVE  /\ d \div Slowness \in Nat /\ d \div Slowness <= d
             /\ d # 0 => d \div Slowness < d
  <2>1. PICK n \in Int : /\ n = d \div Slowness /\ Slowness * n <= d
                         /\ d < Slowness * n + Slowness
    BY Constants
  <2>2. n \in Nat
    <3> SUFFICES ASSUME n <= -1 PROVE FALSE
      BY <2>1
    <3>1. Slowness * n <= Slowness * (-1)
      BY <2>1, Constants
    <3> QED
      BY <2>1, <3>1, Constants
  <2>3. 2 * n <= Slowness * n /\ Slowness * n \in Int
    BY <2>2, Constants
  <2>4. 2 * n <= d
    BY <2>1, <2>2, <2>3
  <2>5. n <= d /\ (d # 0 => n < d)
    BY <2>2, <2>4
  <2> QED
    BY <2>1, <2>2, <2>5
<1>2. CASE e < a
  <2>1. a - e \in Nat /\ a - e # 0
    BY <1>2
  <2>2. Averaged(a, e) = a - (a - e) \div Slowness
    BY <1>2 DEF Averaged
  <2>3. PICK n \in Nat : n = (a - e) \div Slowness /\ n < a - e
    BY <1>1, <2>1
  <2> QED
    BY <1>2, <2>2, <2>3
<1>3. CASE ~(e < a)
  <2>1. e - a \in Nat
    BY <1>3
  <2>2. Averaged(a, e) = a + (e - a) \div Slowness
    BY <1>3 DEF Averaged
  <2>3. PICK n \in Nat : n = (e - a) \div Slowness /\ n <= e - a /\ (e - a # 0 => n < e - a)
    BY <1>1, <2>1
  <2> QED
    BY <1>3, <2>2, <2>3
<1> QED
  BY <1>2, <1>3

(* A low envelope leaves the low average below the high one, and a high     *)
(* envelope the high average above the low one.                             *)
LEMMA ProcessInv ==
  ASSUME Inv, NEW e \in Int, SqlProcess(e)
  PROVE  Inv'
<1>1. PICK l \in Int, h \in Int, t \in Int :
        l = low_ema /\ h = high_ema /\ t = threshold /\ l <= t /\ t <= h /\ l < h
  BY DEF Inv, LevelsStayApart
<1>2. /\ low_ema' \in Int /\ high_ema' \in Int /\ low_ema' < high_ema'
  <2>1. CASE e < t
    <3>1. low_ema' = Averaged(l, e) /\ high_ema' = h
      BY <1>1, <2>1 DEF SqlProcess
    <3>2. PICK n \in Int : n = Averaged(l, e)
      BY AveragedBetween
    <3>3. (e < l => n <= l) /\ (l < e => n < e) /\ (e = l => n = l)
      BY <3>2, AveragedBetween
    <3>4. n \in Int /\ n < h
      BY <1>1, <2>1, <3>3
    <3> QED
      BY <1>1, <3>1, <3>2, <3>4
  <2>2. CASE ~(e < t)
    <3>1. high_ema' = Averaged(h, e) /\ low_ema' = l
      BY <1>1, <2>2 DEF SqlProcess
    <3>2. PICK n \in Int : n = Averaged(h, e)
      BY AveragedBetween
    <3>3. (e < h => e < n) /\ (h < e => h <= n) /\ (e = h => n = h)
      BY <3>2, AveragedBetween
    <3>4. n \in Int /\ l < n
      BY <1>1, <2>2, <3>3
    <3> QED
      BY <1>1, <3>1, <3>2, <3>4
  <2> QED
    BY <2>1, <2>2
<1>3. threshold' = (low_ema' + high_ema') \div 2 /\ UNCHANGED channel
  BY DEF SqlProcess
<1>4. ASSUME NEW x \in Int, NEW y \in Int, x < y
      PROVE  (x + y) \div 2 \in Int /\ x <= (x + y) \div 2 /\ (x + y) \div 2 <= y
  BY <1>4
<1>5. threshold' \in Int /\ low_ema' <= threshold' /\ threshold' <= high_ema'
  BY <1>2, <1>3, <1>4
<1>6. Heard'
  BY <1>3 DEF Inv, Heard
<1> QED
  BY <1>2, <1>5, <1>6 DEF Inv, LevelsStayApart

LEMMA InitInv == SqlInit => Inv
<1> SUFFICES ASSUME SqlInit PROVE Inv
  OBVIOUS
<1>1. /\ Threshold \div 4 \in Int /\ Threshold \div 4 < Threshold
      /\ (155 * Threshold) \div 100 \in Int /\ Threshold <= (155 * Threshold) \div 100
  <2>1. PICK n \in Nat : n = Threshold /\ n # 0
    BY Constants
  <2> QED
    BY <2>1
<1>2. Heard
  BY Constants DEF SqlInit, Heard
<1>3. /\ low_ema = Threshold \div 4 /\ high_ema = (155 * Threshold) \div 100
      /\ threshold = Threshold
  BY DEF SqlInit
<1>4. low_ema \in Int /\ high_ema \in Int /\ threshold \in Int
  BY <1>1, <1>3, Constants
<1>5. LevelsStayApart
  <2>1. PICK l \in Int, h \in Int, t \in Int :
          l = low_ema /\ h = high_ema /\ t = threshold
    BY <1>4
  <2>2. l < t /\ t <= h
    BY <1>1, <1>3, <2>1
  <2> QED
    BY <2>1, <2>2 DEF LevelsStayApart
<1> QED
  BY <1>2, <1>4, <1>5 DEF Inv

LEMMA NextInv == Inv /\ [SqlNext]_sqlVars => Inv'
<1> SUFFICES ASSUME Inv, [SqlNext]_sqlVars PROVE Inv'
  OBVIOUS
<1>1. ASSUME Signal PROVE Inv'
  BY <1>1, ProcessInv DEF Signal, Inv, Heard
<1>2. ASSUME Noise PROVE Inv'
  BY <1>2, ProcessInv DEF Noise, Inv, Heard
<1>3. ASSUME Fading PROVE Inv'
  <2>1. PICK e \in Envelopes : SqlProcess(e)
    BY <1>3 DEF Fading
  <2> QED
    BY <2>1, Constants, ProcessInv
<1>4. ASSUME UNCHANGED sqlVars PROVE Inv'
  BY <1>4 DEF sqlVars, Inv, Heard, LevelsStayApart
<1> QED
  BY <1>1, <1>2, <1>3, <1>4 DEF SqlNext

(* The averages of sql_process never cross and never meet, whatever is      *)
(* heard: for every first estimate but zero, and every alpha below one.     *)
THEOREM SquelchNeverTurnsOver == SqlSpec => []LevelsStayApart
<1>1. Inv => LevelsStayApart
  BY DEF Inv
<1> QED
  BY <1>1, InitInv, NextInv, PTL DEF SqlSpec

--------------------------------------------------------------------------------
(* Induction, as a fact about sets.                                         *)

Below == OpToRel(<, Nat)

LEMMA SetInduction ==
  ASSUME NEW S, 0 \in S, \A n \in Nat : n \in S => n + 1 \in S
  PROVE  Nat \subseteq S
<1> DEFINE T == Nat \ S
<1> SUFFICES ASSUME T # {} PROVE FALSE
  OBVIOUS
<1>1. IsWellFoundedOn(Below, Nat)
  BY NatLessThanWellFounded, Zenon DEF Below
<1>2. Below = {p \in Nat \X Nat : p[1] < p[2]}
  BY DEF Below, OpToRel
<1>3. PICK x \in T : \A y \in T : ~ (<<y, x>> \in Below)
  <2>1. T \subseteq Nat
    OBVIOUS
  <2> QED
    BY <1>1, <2>1, WFMin
<1>4. x \in Nat /\ x # 0 /\ x \notin S
  OBVIOUS
<1>5. x - 1 \in Nat /\ (x - 1) + 1 = x
  BY <1>4
<1>6. CASE x - 1 \in S
  BY <1>4, <1>5, <1>6
<1>7. CASE x - 1 \notin S
  <2>1. <<x - 1, x>> \in Below
    BY <1>2, <1>4, <1>5
  <2> QED
    BY <1>3, <1>5, <1>7, <2>1
<1> QED
  BY <1>6, <1>7

(* A function over the numbers by recursion, as far as a definition needs   *)
(* it.                                                                      *)
Unfolds(f, a, step) == f[0] = a /\ \A n \in Nat : f[n + 1] = step[<<n, f[n]>>]

LEMMA Recursion ==
  ASSUME NEW V, NEW a \in V, NEW step \in [Nat \X V -> V]
  PROVE  \E f \in [Nat -> V] : Unfolds(f, a, step)
<1> DEFINE Upto(n) == {g \in [0..n -> V] :
                         g[0] = a /\ \A i \in 0..(n - 1) : g[i + 1] = step[<<i, g[i]>>]}
           S == {n \in Nat : Upto(n) # {}}
<1>1. 0 \in S
  <2> DEFINE g == [i \in 0..0 |-> a]
  <2>1. g \in Upto(0)
    OBVIOUS
  <2> QED
    BY <2>1
<1>2. ASSUME NEW n \in Nat, n \in S PROVE n + 1 \in S
  <2>1. PICK g \in Upto(n) : TRUE
    BY <1>2
  <2> DEFINE h == [i \in 0..(n + 1) |-> IF i = n + 1 THEN step[<<n, g[n]>>] ELSE g[i]]
  <2>2. g \in [0..n -> V] /\ n \in 0..n /\ g[n] \in V
    BY <2>1
  <2>3. h \in [0..(n + 1) -> V]
    <3>1. step[<<n, g[n]>>] \in V
      BY <2>2
    <3>2. ASSUME NEW i \in 0..(n + 1), i # n + 1 PROVE g[i] \in V
      BY <2>2, <3>2
    <3> QED
      BY <3>1, <3>2
  <2>4. h[0] = a
    BY <2>1
  <2>5. ASSUME NEW i \in 0..n PROVE h[i + 1] = step[<<i, h[i]>>]
    <3>1. CASE i = n
      <4>1. h[n + 1] = step[<<n, g[n]>>] /\ h[n] = g[n]
        OBVIOUS
      <4> QED
        BY <3>1, <4>1, Zenon
    <3>2. CASE i # n
      <4>1. i \in 0..(n - 1) /\ i + 1 \in 0..n
        BY <3>2
      <4>2. h[i + 1] = g[i + 1] /\ h[i] = g[i]
        BY <4>1
      <4> QED
        BY <2>1, <4>1, <4>2
    <3> QED
      BY <3>1, <3>2
  <2>6. (n + 1) - 1 = n
    OBVIOUS
  <2> HIDE DEF h
  <2>7. h \in Upto(n + 1)
    BY <2>3, <2>4, <2>5, <2>6
  <2> QED
    BY <2>7
<1>3. Nat \subseteq S
  <2> HIDE DEF S
  <2> QED
    BY <1>1, <1>2, SetInduction
<1> DEFINE G(n) == CHOOSE g : g \in Upto(n)
           f == [n \in Nat |-> G(n)[n]]
<1>4. ASSUME NEW n \in Nat
      PROVE  /\ G(n) \in [0..n -> V] /\ G(n)[0] = a
             /\ \A i \in 0..(n - 1) : G(n)[i + 1] = step[<<i, G(n)[i]>>]
  <2>1. Upto(n) # {}
    BY <1>3
  <2>2. G(n) \in Upto(n)
    <3> HIDE DEF Upto
    <3> QED
      BY <2>1
  <2> HIDE DEF G
  <2> QED
    BY <2>2
<1> HIDE DEF G, Upto
<1>5. ASSUME NEW n \in Nat PROVE G(n + 1)[n] = G(n)[n]
  <2> DEFINE E == {k \in Nat : k <= n => G(n + 1)[k] = G(n)[k]}
  <2>1. 0 \in E
    BY <1>4
  <2>2. ASSUME NEW k \in Nat, k \in E PROVE k + 1 \in E
    <3> SUFFICES ASSUME k + 1 <= n PROVE G(n + 1)[k + 1] = G(n)[k + 1]
      OBVIOUS
    <3>1. k \in 0..(n - 1) /\ k \in 0..((n + 1) - 1) /\ n + 1 \in Nat
      OBVIOUS
    <3>2. G(n + 1)[k] = G(n)[k]
      BY <2>2
    <3>3. G(n)[k + 1] = step[<<k, G(n)[k]>>]
      BY <1>4, <3>1
    <3>4. G(n + 1)[k + 1] = step[<<k, G(n + 1)[k]>>]
      BY <1>4, <3>1
    <3> QED
      BY <3>2, <3>3, <3>4
  <2>3. Nat \subseteq E
    <3> HIDE DEF E
    <3> QED
      BY <2>1, <2>2, SetInduction
  <2>4. n \in E
    BY <2>3
  <2> QED
    BY <2>4
<1>6. f \in [Nat -> V] /\ f[0] = a
  <2>1. ASSUME NEW n \in Nat PROVE G(n)[n] \in V
    BY <1>4
  <2> QED
    BY <1>4, <2>1
<1>7. ASSUME NEW n \in Nat PROVE f[n + 1] = step[<<n, f[n]>>]
  <2>1. n \in 0..((n + 1) - 1) /\ n + 1 \in Nat
    OBVIOUS
  <2>2. G(n + 1)[n + 1] = step[<<n, G(n + 1)[n]>>]
    BY <1>4, <2>1
  <2> QED
    BY <1>5, <2>1, <2>2
<1> QED
  BY <1>6, <1>7 DEF Unfolds

--------------------------------------------------------------------------------
(* Numbers that are equal as residues.                                      *)
Same(a, b) == \E k \in Int : a = b + k * Prime

LEMMA Division ==
  ASSUME NEW p \in Nat \ {0}, NEW a \in Int
  PROVE  \E n, r \in Int : /\ n = a \div p /\ r = a % p
                           /\ 0 <= r /\ r < p /\ a = n * p + r
<1>1. PICK n \in Int, r \in Int : n = a \div p /\ r = a % p
  OBVIOUS
<1>2. 0 <= r /\ r < p
  BY <1>1
<1>3. a = p * n + r
  BY <1>1
<1>4. n * p = p * n
  OBVIOUS
<1>5. a = n * p + r
  BY <1>3, <1>4, Zenon
<1> QED
  BY <1>1, <1>2, <1>5

(* There is one way to divide. *)
LEMMA OneQuotient ==
  ASSUME NEW p \in Nat \ {0}, NEW n \in Int, NEW r \in Int, NEW a \in Int,
         0 <= r, r < p, a = n * p + r
  PROVE  a \div p = n /\ a % p = r
<1>1. PICK m \in Int, s \in Int : m = a \div p /\ s = a % p /\ 0 <= s /\ s < p /\ a = m * p + s
  BY Division
<1>2. m = n
  <2>1. CASE m < n
    <3>1. (m + 1) * p <= n * p
      BY <2>1
    <3>2. (m + 1) * p = m * p + p
      OBVIOUS
    <3>3. PICK x \in Int, y \in Int : x = m * p /\ y = n * p
      OBVIOUS
    <3> QED
      BY <1>1, <3>1, <3>2, <3>3
  <2>2. CASE n < m
    <3>1. (n + 1) * p <= m * p
      BY <2>2
    <3>2. (n + 1) * p = n * p + p
      OBVIOUS
    <3>3. PICK x \in Int, y \in Int : x = m * p /\ y = n * p
      OBVIOUS
    <3> QED
      BY <1>1, <3>1, <3>2, <3>3
  <2> QED
    BY <2>1, <2>2
<1>3. PICK x \in Int : x = n * p
  OBVIOUS
<1>4. s = r
  BY <1>1, <1>2, <1>3
<1> QED
  BY <1>1, <1>2, <1>4

LEMMA RemainderOfTwice ==
  ASSUME NEW m \in Nat \ {0}, NEW n \in Int, NEW r \in Int, NEW a \in Int,
         0 <= r, r < 2 * m, a = n * (2 * m) + r
  PROVE  a % (2 * m) = r
<1>1. PICK p \in Nat \ {0} : p = 2 * m
  OBVIOUS
<1>2. r < p /\ a = n * p + r
  BY <1>1
<1>3. a % p = r
  BY <1>2, OneQuotient
<1> QED
  BY <1>1, <1>3

LEMMA SmallIsRemainder ==
  ASSUME NEW p \in Nat \ {0}, NEW r \in Int, 0 <= r, r < p
  PROVE  r \div p = 0 /\ r % p = r
OBVIOUS

LEMMA SameBasics ==
  ASSUME Prime \in Nat \ {0}
  PROVE  /\ \A a \in Int : Same(a, a)
         /\ \A a, b \in Int : Same(a, b) => Same(b, a)
         /\ \A a, b, c \in Int : Same(a, b) /\ Same(b, c) => Same(a, c)
<1>1. ASSUME NEW a \in Int PROVE Same(a, a)
  <2>1. a = a + 0 * Prime
    OBVIOUS
  <2> QED
    BY <2>1 DEF Same
<1>2. ASSUME NEW a \in Int, NEW b \in Int, Same(a, b) PROVE Same(b, a)
  <2>1. PICK k \in Int : a = b + k * Prime
    BY <1>2 DEF Same
  <2>2. PICK x \in Int : x = k * Prime
    OBVIOUS
  <2>3. (-k) * Prime = -(k * Prime) /\ -k \in Int
    OBVIOUS
  <2>4. b = a + (-x)
    BY <2>1, <2>2
  <2> QED
    BY <2>2, <2>3, <2>4 DEF Same
<1>3. ASSUME NEW a \in Int, NEW b \in Int, NEW c \in Int, Same(a, b), Same(b, c)
      PROVE  Same(a, c)
  <2>1. PICK k \in Int : a = b + k * Prime
    BY <1>3 DEF Same
  <2>2. PICK n \in Int : b = c + n * Prime
    BY <1>3 DEF Same
  <2>3. (c + n * Prime) + k * Prime = c + (n + k) * Prime /\ n + k \in Int
    OBVIOUS
  <2> QED
    BY <2>1, <2>2, <2>3 DEF Same
<1> QED
  BY <1>1, <1>2, <1>3

LEMMA SameArithmetic ==
  ASSUME Prime \in Nat \ {0}, NEW a \in Int, NEW b \in Int, NEW c \in Int, NEW d \in Int,
         Same(a, b), Same(c, d)
  PROVE  /\ Same(a + c, b + d) /\ Same(a - c, b - d) /\ Same(a * c, b * d)
<1>1. PICK k \in Int : a = b + k * Prime
  BY DEF Same
<1>2. PICK n \in Int : c = d + n * Prime
  BY DEF Same
<1>3. /\ (b + k * Prime) + (d + n * Prime) = (b + d) + (k + n) * Prime
      /\ (b + k * Prime) - (d + n * Prime) = (b - d) + (k - n) * Prime
      /\ (b + k * Prime) * (d + n * Prime)
           = b * d + (b * n + k * d + k * n * Prime) * Prime
  OBVIOUS
<1>4. k + n \in Int /\ k - n \in Int /\ b * n + k * d + k * n * Prime \in Int
  OBVIOUS
<1>5. Same(a + c, b + d)
  BY <1>1, <1>2, <1>3, <1>4 DEF Same
<1>6. Same(a - c, b - d)
  BY <1>1, <1>2, <1>3, <1>4 DEF Same
<1>7. Same(a * c, b * d)
  BY <1>1, <1>2, <1>3, <1>4 DEF Same
<1> QED
  BY <1>5, <1>6, <1>7

LEMMA SameOneLater ==
  ASSUME Prime \in Nat \ {0}, NEW c \in Int, NEW x \in Int, NEW y \in Int,
         NEW v \in Int, NEW w \in Int, Same(x, v), Same(y, w)
  PROVE  Same(c * x - y, c * v - w)
<1>1. PICK l \in Int, m \in Int : l = c * x /\ m = c * v
  OBVIOUS
<1>2. Same(l, m)
  BY <1>1, SameBasics, SameArithmetic
<1>3. Same(l - y, m - w)
  BY <1>2, SameArithmetic
<1> QED
  BY <1>1, <1>3

LEMMA Residue ==
  ASSUME Prime \in Nat \ {0}, NEW a \in Int
  PROVE  /\ a % Prime \in Int /\ Same(a % Prime, a) /\ (a % Prime) % Prime = a % Prime
         /\ \A b \in Int : Same(a, b) => a % Prime = b % Prime
<1>1. PICK n \in Int, r \in Int : /\ r = a % Prime /\ 0 <= r /\ r < Prime
                                  /\ a = n * Prime + r
  BY Division
<1>2. Same(r, a)
  <2>1. n * Prime + r = r + n * Prime
    <3>1. PICK x \in Int : x = n * Prime
      OBVIOUS
    <3> QED
      BY <3>1
  <2>2. Same(a, r)
    BY <1>1, <2>1 DEF Same
  <2> QED
    BY <2>2, SameBasics
<1>3. r % Prime = r
  BY <1>1, SmallIsRemainder
<1>4. ASSUME NEW b \in Int, Same(a, b) PROVE a % Prime = b % Prime
  <2>1. Same(b, a)
    BY <1>4, SameBasics
  <2>2. PICK k \in Int : b = a + k * Prime
    BY <2>1 DEF Same
  <2>3. (n * Prime + r) + k * Prime = (n + k) * Prime + r /\ n + k \in Int
    OBVIOUS
  <2>4. PICK m \in Int : b = m * Prime + r
    BY <1>1, <2>2, <2>3
  <2>5. b % Prime = r
    BY <1>1, <2>4, OneQuotient
  <2> QED
    BY <1>1, <2>5
<1> QED
  BY <1>1, <1>2, <1>3, <1>4

--------------------------------------------------------------------------------
(* The sliding windows of the tone detectors (ring_simple_t, goertzel_t),   *)
(* for any size of the window that is not one sample.                       *)

WindowSize == Size \in Nat /\ 1 < Size

LEMMA WindowConstants ==
  WindowSize /\ Prime \in Nat \ {0} /\ Levels \subseteq Int
BY WindowAssumption DEF WindowSize

(* Where the ring keeps the sample of i samples before the newest.          *)
Place(i) == IF i < head THEN head - 1 - i ELSE head - 1 - i + Size

RingOfRecent == /\ head \in Slots /\ DOMAIN buffer = Slots /\ DOMAIN recent = Slots
                /\ \A i \in Slots : recent[i] = buffer[Place(i)]

LEMMA NextHead ==
  ASSUME WindowSize, NEW h \in Slots
  PROVE  (h + 1) % Size = IF h = Size - 1 THEN 0 ELSE h + 1
  BY DEF WindowSize, Slots

LEMMA RingOfRecentInit == WindowSize /\ ToneInit => RingOfRecent
  BY DEF WindowSize, ToneInit, Slots, RingOfRecent, Place

LEMMA RingOfRecentInv ==
  ASSUME WindowSize, RingOfRecent, [ToneNext]_toneVars
  PROVE  RingOfRecent'
<1>1. ASSUME NEW sample \in Levels, Process(sample) PROVE RingOfRecent'
  <2>1. /\ buffer' = [buffer EXCEPT ![head] = sample]
        /\ head' = IF head = Size - 1 THEN 0 ELSE head + 1
        /\ recent' = [i \in Slots |-> IF i = 0 THEN sample ELSE recent[i - 1]]
    BY <1>1, NextHead DEF Process, Shift1, RingOfRecent
  <2>2. head' \in Slots /\ DOMAIN buffer' = Slots /\ DOMAIN recent' = Slots
    BY <2>1 DEF WindowSize, RingOfRecent, Slots
  <2>3. ASSUME NEW i \in Slots PROVE recent'[i] = buffer'[Place(i)']
    <3>1. CASE i = 0
      <4>1. Place(i)' = head
        BY <2>1, <3>1 DEF WindowSize, RingOfRecent, Slots, Place
      <4> QED
        BY <2>1, <3>1, <4>1 DEF RingOfRecent
    <3>2. CASE i # 0
      <4>1. i - 1 \in Slots
        BY <3>2 DEF WindowSize, Slots
      <4>2. Place(i)' = Place(i - 1) /\ Place(i - 1) # head /\ Place(i - 1) \in Slots
        BY <2>1, <3>2 DEF WindowSize, RingOfRecent, Slots, Place
      <4>3. recent'[i] = buffer[Place(i - 1)]
        BY <2>1, <3>2, <4>1 DEF RingOfRecent
      <4> QED
        BY <2>1, <4>2, <4>3 DEF RingOfRecent
    <3> QED
      BY <3>1, <3>2
  <2> QED
    BY <2>2, <2>3 DEF RingOfRecent
<1>2. ASSUME UNCHANGED toneVars PROVE RingOfRecent'
  BY <1>2 DEF toneVars, RingOfRecent, Place
<1> QED
  BY <1>1, <1>2 DEF ToneNext

LEMMA RingShiftsOutOldest ==
  ASSUME WindowSize, RingOfRecent
  PROVE  ShiftedOut = recent[Size - 1]
<1>1. Size - 1 \in Slots /\ Place(Size - 1) = head
  BY DEF WindowSize, RingOfRecent, Slots, Place
<1> QED
  BY <1>1 DEF RingOfRecent, ShiftedOut

(* ring_simple_shift1 hands out the sample of one window ago, wherever the  *)
(* head is: the one that leaves the window, never a newer or an older one.  *)
THEOREM OldestIsShiftedOut == ToneSpec => [](ShiftedOut = recent[Size - 1])
<1>1. ToneInit => RingOfRecent
  BY WindowConstants, RingOfRecentInit
<1>2. RingOfRecent /\ [ToneNext]_toneVars => RingOfRecent'
  BY WindowConstants, RingOfRecentInv
<1>3. RingOfRecent => ShiftedOut = recent[Size - 1]
  BY WindowConstants, RingShiftsOutOldest
<1> QED
  BY <1>1, <1>2, <1>3, PTL DEF ToneSpec

(* What the filter of a tone answers to a single sample of one, before it   *)
(* is reduced to a residue: after Size samples it is back at the start.     *)
Response(c, u) ==
  /\ c \in Int /\ u \in [0..Size -> Int] /\ u[0] = 1 /\ u[1] = c
  /\ \A n \in 1..(Size - 1) : u[n + 1] = c * u[n] - u[n - 1]
  /\ Same(u[Size - 1], 0) /\ Same(u[Size], 1)

OneLater(u) == [i \in Slots |-> IF i = 0 THEN 0 ELSE u[i - 1]]
Pushed(x, sample) == [i \in Slots |-> IF i = 0 THEN sample ELSE x[i - 1]]

LEMMA AnswerStep ==
  ASSUME WindowSize, NEW c, NEW u, Response(c, u), NEW i \in Slots
  PROVE  /\ u[i] \in Int /\ OneLater(u)[i] \in Int
         /\ u[i + 1] = c * u[i] - OneLater(u)[i]
         /\ i + 1 \in Slots => OneLater(u)[i + 1] = u[i]
<1>1. Size \in Int /\ 1 < Size /\ Slots = 0..(Size - 1) /\ c \in Int
  BY DEF WindowSize, Slots, Response
<1>2. \A k \in 0..Size : u[k] \in Int
  BY DEF Response
<1>3. u[0] = 1 /\ u[1] = c /\ \A n \in 1..(Size - 1) : u[n + 1] = c * u[n] - u[n - 1]
  BY DEF Response
<1>4. u[i] \in Int /\ (i # 0 => u[i - 1] \in Int)
  BY <1>1, <1>2
<1>5. i + 1 \in Slots => OneLater(u)[i + 1] = u[i]
  BY <1>1 DEF OneLater
<1>6. CASE i = 0
  <2>1. OneLater(u)[i] = 0 /\ u[i + 1] = c /\ u[i] = 1
    BY <1>1, <1>3, <1>6 DEF OneLater
  <2>2. c = c * 1 - 0
    BY <1>1
  <2> QED
    BY <1>5, <2>1, <2>2
<1>7. CASE i # 0
  <2>1. i \in 1..(Size - 1)
    BY <1>1, <1>7
  <2>2. OneLater(u)[i] = u[i - 1]
    BY <1>7 DEF OneLater
  <2> QED
    BY <1>3, <1>4, <1>5, <1>7, <2>1, <2>2
<1> QED
  BY <1>6, <1>7

(* A residue of the sum of weight[i] * x[i] over the window, by the partial *)
(* sums.                                                                    *)
PartialSums(s, weight, x) ==
  /\ s \in [0..Size -> Int] /\ s[0] = 0
  /\ \A i \in Slots : s[i + 1] = s[i] + weight[i] * x[i]
IsSum(total, weight, x) ==
  \E s \in [0..Size -> Int] : PartialSums(s, weight, x) /\ Same(s[Size], total)

(* One step of the filter: every partial sum moves on by one, and what the  *)
(* filter remembers of the oldest sample is what front takes away.          *)
LEMMA SumsSlide ==
  ASSUME WindowSize, NEW c, NEW u, Response(c, u), NEW x \in [Slots -> Int],
         NEW a \in Int, NEW b \in Int, IsSum(a, u, x), IsSum(b, OneLater(u), x),
         NEW sample \in Int
  PROVE  /\ IsSum((sample - x[Size - 1] + c * a - b) % Prime, u, Pushed(x, sample))
         /\ IsSum(a, OneLater(u), Pushed(x, sample))
<1>1. PICK s \in [0..Size -> Int] : PartialSums(s, u, x) /\ Same(s[Size], a)
  BY DEF IsSum
<1>2. PICK p \in [0..Size -> Int] : PartialSums(p, OneLater(u), x) /\ Same(p[Size], b)
  BY DEF IsSum
<1>3. /\ Size \in Int /\ 1 < Size /\ c \in Int /\ u \in [0..Size -> Int]
      /\ \A i \in Slots : i \in 0..Size /\ i + 1 \in 0..Size
  <2>1. Size \in Int /\ 1 < Size /\ c \in Int /\ u \in [0..Size -> Int]
    BY DEF WindowSize, Response
  <2>2. Slots = 0..(Size - 1)
    BY DEF Slots
  <2>3. \A i \in 0..(Size - 1) : i \in 0..Size /\ i + 1 \in 0..Size
    BY <2>1
  <2> QED
    BY <2>1, <2>2, <2>3
<1>4. ASSUME NEW i \in Slots
      PROVE  /\ s[i] \in Int /\ s[i + 1] \in Int /\ p[i] \in Int /\ p[i + 1] \in Int
             /\ u[i] \in Int /\ x[i] \in Int
             /\ s[i + 1] = s[i] + u[i] * x[i]
             /\ p[i + 1] = p[i] + OneLater(u)[i] * x[i]
  BY <1>1, <1>2, <1>3, <1>4 DEF PartialSums
(* c times one sum less the other is the sum with the weights moved by one. *)
<1>5. ASSUME NEW i \in Slots
      PROVE  c * s[i + 1] - p[i + 1] = (c * s[i] - p[i]) + u[i + 1] * x[i]
  <2>1. PICK d \in Int : d = OneLater(u)[i] /\ u[i + 1] = c * u[i] - d
    BY AnswerStep
  <2>2. PICK si \in Int, pi \in Int, ui \in Int, xi \in Int :
          si = s[i] /\ pi = p[i] /\ ui = u[i] /\ xi = x[i]
    BY <1>4
  <2>3. s[i + 1] = si + ui * xi /\ p[i + 1] = pi + d * xi
    BY <1>4, <2>1, <2>2
  <2>4. c * (si + ui * xi) - (pi + d * xi) = (c * si - pi) + (c * ui - d) * xi
    BY <1>3
  <2> QED
    BY <2>1, <2>2, <2>3, <2>4
<1> DEFINE y == Pushed(x, sample)
           z == [n \in 0..Size |-> IF n = 0 THEN 0 ELSE sample + c * s[n - 1] - p[n - 1]]
           r == [n \in 0..Size |-> IF n = 0 THEN 0 ELSE s[n - 1]]
<1>6. ASSUME NEW n \in 0..Size
      PROVE  /\ n # 0 => n - 1 \in Slots
             /\ z[n] \in Int /\ r[n] \in Int
  <2>1. n # 0 => n - 1 \in Slots
    BY <1>3 DEF Slots
  <2>2. CASE n = 0
    BY <2>2
  <2>3. CASE n # 0
    <3>1. PICK k \in Slots : k = n - 1
      BY <2>1, <2>3
    <3>2. PICK v \in Int, w \in Int : v = s[k] /\ w = p[k]
      BY <1>4
    <3>3. z[n] = sample + c * v - w /\ r[n] = v
      BY <2>3, <3>1, <3>2
    <3>4. sample + c * v - w \in Int
      BY <1>3
    <3> QED
      BY <2>1, <3>3, <3>4
  <2> QED
    BY <2>1, <2>2, <2>3
<1>7. /\ z \in [0..Size -> Int] /\ r \in [0..Size -> Int]
      /\ z[0] = 0 /\ r[0] = 0
  <2>1. z[0] = 0 /\ r[0] = 0
    BY <1>3
  <2>2. z \in [0..Size -> Int]
    BY <1>6
  <2>3. r \in [0..Size -> Int]
    BY <1>6
  <2> QED
    BY <2>1, <2>2, <2>3
<1>8. PartialSums(z, u, y)
  <2>1. ASSUME NEW i \in Slots PROVE z[i + 1] = z[i] + u[i] * y[i]
    <3>1. z[i + 1] = sample + c * s[i] - p[i]
      BY <1>3 DEF Slots
    <3>2. CASE i = 0
      <4>1. s[0] = 0 /\ p[0] = 0 /\ u[0] = 1 /\ y[i] = sample /\ z[i] = 0
        BY <1>1, <1>2, <1>3, <3>2 DEF PartialSums, Response, Pushed
      <4> QED
        BY <1>3, <3>1, <3>2, <4>1
    <3>3. CASE i # 0
      <4>1. PICK k \in Slots : k = i - 1 /\ i = k + 1
        BY <1>3, <3>3 DEF Slots
      <4>2. z[i] = sample + c * s[k] - p[k] /\ y[i] = x[k]
        BY <1>3, <3>3, <4>1 DEF Pushed
      <4>3. c * s[i] - p[i] = (c * s[k] - p[k]) + u[i] * x[k]
        BY <1>5, <4>1
      <4>4. PICK e \in Int, f \in Int, g \in Int, h \in Int, w \in Int :
              e = c * s[i] /\ f = p[i] /\ g = c * s[k] /\ h = p[k] /\ w = u[i] * x[k]
        <5>1. s[i] \in Int /\ s[k] \in Int /\ u[i] \in Int /\ x[k] \in Int
              /\ p[i] \in Int /\ p[k] \in Int
          BY <1>4
        <5>2. ASSUME NEW v \in Int, NEW w \in Int PROVE v * w \in Int
          OBVIOUS
        <5>3. c * s[i] \in Int /\ c * s[k] \in Int /\ u[i] * x[k] \in Int
          BY <1>3, <5>1, <5>2
        <5> QED
          BY <5>1, <5>3
      <4>5. e - f = (g - h) + w
        BY <4>3, <4>4
      <4>6. sample + e - f = (sample + g - h) + w
        BY <4>5
      <4> QED
        BY <3>1, <4>2, <4>4, <4>6
    <3> QED
      BY <3>2, <3>3
  <2> HIDE DEF z, r, y
  <2> QED
    BY <1>7, <2>1 DEF PartialSums
<1>9. Same(z[Size], (sample - x[Size - 1] + c * a - b) % Prime)
  <2>1. PICK k \in Slots : k = Size - 1 /\ k + 1 = Size
    BY <1>3 DEF Slots
  <2>2. PICK A \in Int, B \in Int, C \in Int, D \in Int, h \in Int, U \in Int :
          /\ A = s[Size] /\ B = p[Size] /\ C = s[k] /\ D = p[k] /\ h = x[k]
          /\ U = u[Size]
    BY <1>3, <1>4, <2>1
  <2>3. Same(A, a) /\ Same(B, b) /\ Same(U, 1)
    BY <1>1, <1>2, <2>2 DEF Response
  <2>4. c * A - B = (c * C - D) + U * h
    BY <1>5, <2>1, <2>2
  <2>5. z[Size] = sample + c * C - D
    BY <1>3, <2>1, <2>2
  <2>6. sample + c * C - D = sample - U * h + c * A - B
    <3>1. PICK e \in Int, f \in Int, g \in Int : e = c * A /\ f = c * C /\ g = U * h
      BY <1>3
    <3>2. e - B = (f - D) + g
      BY <2>4, <3>1
    <3>3. sample + f - D = sample - g + e - B
      BY <3>2
    <3> QED
      BY <3>1, <3>3
  <2>7. Same(sample - U * h + c * A - B, sample - h + c * a - b)
    <3>1. Same(U * h, 1 * h)
      BY <2>3, SameBasics, SameArithmetic, WindowConstants
    <3>2. Same(c * A, c * a)
      BY <1>3, <2>3, SameBasics, SameArithmetic, WindowConstants
    <3>3. PICK e \in Int, f \in Int, g \in Int :
            e = c * A /\ f = c * a /\ g = U * h /\ 1 * h = h
      BY <1>3
    <3>4. Same(sample - g, sample - h)
      <4>1. Same(g, h) /\ Same(sample, sample)
        BY <3>1, <3>3, SameBasics, WindowConstants
      <4> QED
        BY <4>1, SameArithmetic, WindowConstants
    <3>5. sample - g \in Int /\ sample - h \in Int
      OBVIOUS
    <3>6. Same((sample - g) + e, (sample - h) + f)
      BY <3>2, <3>3, <3>4, <3>5, SameArithmetic, WindowConstants
    <3>7. (sample - g) + e \in Int /\ (sample - h) + f \in Int
      OBVIOUS
    <3>8. Same((sample - g) + e - B, (sample - h) + f - b)
      BY <2>3, <3>6, <3>7, SameArithmetic, WindowConstants
    <3> QED
      BY <3>3, <3>8
  <2>8. PICK m \in Int, n \in Int :
          m = sample - h + c * a - b /\ n = sample - U * h + c * A - B
    BY <1>3
  <2>9. Same(n, m % Prime)
    <3>1. PICK q \in Int : q = m % Prime /\ Same(q, m)
      BY Residue, WindowConstants
    <3>2. Same(n, m) /\ Same(m, q)
      BY <2>7, <2>8, <3>1, SameBasics, WindowConstants
    <3> QED
      BY <3>1, <3>2, SameBasics, WindowConstants
  <2> QED
    BY <2>1, <2>2, <2>5, <2>6, <2>8, <2>9
<1>10. PartialSums(r, OneLater(u), y)
  <2>1. ASSUME NEW i \in Slots PROVE r[i + 1] = r[i] + OneLater(u)[i] * y[i]
    <3>1. r[i + 1] = s[i]
      BY <1>3 DEF Slots
    <3>2. CASE i = 0
      <4>1. s[0] = 0 /\ r[i] = 0 /\ OneLater(u)[i] = 0 /\ y[i] = sample
        BY <1>1, <1>3, <3>2 DEF PartialSums, OneLater, Pushed
      <4> QED
        BY <3>1, <3>2, <4>1
    <3>3. CASE i # 0
      <4>1. PICK k \in Slots : k = i - 1 /\ i = k + 1
        BY <1>3, <3>3 DEF Slots
      <4>2. r[i] = s[k] /\ OneLater(u)[i] = u[k] /\ y[i] = x[k]
        BY <1>3, <3>3, <4>1 DEF OneLater, Pushed
      <4> QED
        BY <1>4, <3>1, <4>1, <4>2
    <3> QED
      BY <3>2, <3>3
  <2> HIDE DEF z, r, y
  <2> QED
    BY <1>7, <2>1 DEF PartialSums
<1>11. Same(r[Size], a)
  <2>1. PICK k \in Slots : k = Size - 1 /\ k + 1 = Size
    BY <1>3 DEF Slots
  <2>2. PICK A \in Int, C \in Int, h \in Int, U \in Int :
          A = s[Size] /\ C = s[k] /\ h = x[k] /\ U = u[k] /\ A = C + U * h
    BY <1>3, <1>4, <2>1
  <2>3. Same(U, 0) /\ Same(A, a)
    BY <1>1, <2>1, <2>2 DEF Response
  <2>4. Same(U * h, 0 * h) /\ 0 * h = 0
    <3>1. Same(h, h) /\ 0 * h = 0
      BY SameBasics, WindowConstants
    <3> QED
      BY <2>3, <3>1, SameArithmetic, WindowConstants
  <2>5. PICK g \in Int : g = U * h
    OBVIOUS
  <2>6. Same(C + g, C + 0) /\ C + 0 = C
    BY <2>4, <2>5, SameBasics, SameArithmetic, WindowConstants
  <2>7. Same(C, a)
    BY <2>2, <2>3, <2>5, <2>6, SameBasics, WindowConstants
  <2>8. r[Size] = C
    BY <1>3, <2>1, <2>2
  <2> QED
    BY <2>7, <2>8
<1> HIDE DEF y, z, r
<1> QED
  BY <1>7, <1>8, <1>9, <1>10, <1>11 DEF IsSum, y

(* The filters remember one window of samples: what is in q1 and q2 is the  *)
(* sum of their answers to the samples of the window.                       *)
FilterOfWindow(u) ==
  \A t \in Tones : /\ q1[t] \in Int /\ q2[t] \in Int
                   /\ IsSum(q1[t], u[t], recent) /\ IsSum(q2[t], OneLater(u[t]), recent)

WindowInv(u) == /\ RingOfRecent /\ recent \in [Slots -> Int]
                /\ DOMAIN q1 = Tones /\ DOMAIN q2 = Tones /\ FilterOfWindow(u)

LEMMA NothingSums ==
  ASSUME WindowSize, NEW weight, \A i \in Slots : weight[i] \in Int,
         NEW x, \A i \in Slots : x[i] = 0
  PROVE  IsSum(0, weight, x)
<1> DEFINE s == [n \in 0..Size |-> 0]
<1>1. s \in [0..Size -> Int] /\ s[0] = 0 /\ s[Size] = 0
  BY DEF WindowSize
<1>2. ASSUME NEW i \in Slots PROVE s[i + 1] = s[i] + weight[i] * x[i]
  <2>1. s[i + 1] = 0 /\ s[i] = 0
    BY DEF WindowSize, Slots
  <2>2. weight[i] * x[i] = 0
    OBVIOUS
  <2> QED
    BY <2>1, <2>2
<1>3. Same(0, 0)
  BY SameBasics, WindowConstants
<1> HIDE DEF s
<1> QED
  BY <1>1, <1>2, <1>3 DEF IsSum, PartialSums

LEMMA WindowInit ==
  ASSUME WindowSize, NEW u, \A t \in Tones : Response(Coeff[t], u[t]), ToneInit
  PROVE  WindowInv(u)
<1>1. RingOfRecent
  BY RingOfRecentInit
<1>2. /\ recent = [i \in Slots |-> 0]
      /\ q1 = [t \in Tones |-> 0] /\ q2 = [t \in Tones |-> 0]
  BY DEF ToneInit
<1>3. ASSUME NEW t \in Tones
      PROVE  IsSum(0, u[t], recent) /\ IsSum(0, OneLater(u[t]), recent)
  <2>1. ASSUME NEW i \in Slots PROVE u[t][i] \in Int /\ OneLater(u[t])[i] \in Int
    <3>1. u[t] \in [0..Size -> Int]
      BY DEF Response
    <3>2. u[t][i] \in Int /\ (i # 0 => u[t][i - 1] \in Int)
      <4>1. i \in 0..Size /\ (i # 0 => i - 1 \in 0..Size)
        BY DEF WindowSize, Slots
      <4> QED
        BY <3>1, <4>1
    <3>3. OneLater(u[t])[i] = IF i = 0 THEN 0 ELSE u[t][i - 1]
      BY DEF OneLater
    <3> QED
      BY <3>2, <3>3
  <2>2. \A i \in Slots : recent[i] = 0
    BY <1>2
  <2> QED
    BY <2>1, <2>2, NothingSums
<1> QED
  BY <1>1, <1>2, <1>3 DEF WindowInv, FilterOfWindow

LEMMA WindowStep ==
  ASSUME WindowSize, Levels \subseteq Int,
         NEW u, \A t \in Tones : Response(Coeff[t], u[t]),
         WindowInv(u), [ToneNext]_toneVars
  PROVE  WindowInv(u)'
<1>1. RingOfRecent'
  BY RingOfRecentInv DEF WindowInv
<1>2. ASSUME NEW sample \in Levels, Process(sample) PROVE WindowInv(u)'
  <2>1. sample \in Int /\ recent \in [Slots -> Int]
    BY <1>2 DEF WindowInv
  <2>2. recent' = Pushed(recent, sample)
    BY <1>2 DEF Process, Pushed
  <2>3. recent' \in [Slots -> Int]
    BY <2>1, <2>2 DEF Pushed, WindowSize, Slots
  <2>4. /\ q1' = [t \in Tones |-> (sample - recent[Size - 1] + Coeff[t] * q1[t] - q2[t]) % Prime]
        /\ q2' = q1
    BY <1>2, RingShiftsOutOldest DEF WindowInv, Process, Filter
  <2>5. ASSUME NEW t \in Tones
        PROVE  /\ q1'[t] \in Int /\ q2'[t] \in Int
               /\ IsSum(q1'[t], u[t], recent') /\ IsSum(q2'[t], OneLater(u[t]), recent')
    <3>1. PICK a \in Int, b \in Int : a = q1[t] /\ b = q2[t]
      BY DEF WindowInv, FilterOfWindow
    <3>2. /\ Response(Coeff[t], u[t]) /\ Coeff[t] \in Int
          /\ IsSum(a, u[t], recent) /\ IsSum(b, OneLater(u[t]), recent)
      BY <3>1 DEF WindowInv, FilterOfWindow, Response
    <3>3. /\ IsSum((sample - recent[Size - 1] + Coeff[t] * a - b) % Prime, u[t], Pushed(recent, sample))
          /\ IsSum(a, OneLater(u[t]), Pushed(recent, sample))
      BY <2>1, <3>2, SumsSlide
    <3>4. q1'[t] = (sample - recent[Size - 1] + Coeff[t] * a - b) % Prime /\ q2'[t] = a
      BY <2>4, <3>1
    <3>5. (sample - recent[Size - 1] + Coeff[t] * a - b) % Prime \in Int
      <4>1. PICK x \in Int : x = recent[Size - 1]
        BY <2>1 DEF WindowSize, Slots
      <4>2. PICK c \in Int : c = Coeff[t]
        BY <3>2
      <4>3. PICK y \in Int : y = sample - x + c * a - b
        BY <2>1
      <4>4. y % Prime \in Int
        BY WindowConstants, Residue
      <4> QED
        BY <4>1, <4>2, <4>3, <4>4
    <3> QED
      BY <2>2, <3>3, <3>4, <3>5
  <2>6. DOMAIN q1' = Tones /\ DOMAIN q2' = Tones
    BY <2>4 DEF WindowInv
  <2> QED
    BY <1>1, <2>3, <2>5, <2>6 DEF WindowInv, FilterOfWindow, Tones
<1>3. ASSUME UNCHANGED toneVars PROVE WindowInv(u)'
  BY <1>1, <1>3 DEF toneVars, WindowInv, FilterOfWindow, Tones
<1> QED
  BY <1>2, <1>3 DEF ToneNext

(* The partial sums exist and are the only ones.                            *)
LEMMA TotalIs ==
  ASSUME NEW m \in Nat, NEW x, NEW s \in [0..m -> Int], s[0] = 0,
         \A i \in 0..(m - 1) : s[i + 1] = s[i] + x[i]
  PROVE  Total(x, m) = s[m]
<1> DEFINE Step(g) == [n \in 0..m |-> IF n = 0 THEN 0 ELSE g[n - 1] + x[n - 1]]
           g == CHOOSE f : f = Step(f)
<1>1. s = Step(s)
  <2>1. ASSUME NEW n \in 0..m PROVE s[n] = Step(s)[n]
    <3>1. CASE n = 0
      BY <3>1
    <3>2. CASE n # 0
      <4>1. n - 1 \in 0..(m - 1) /\ (n - 1) + 1 = n
        BY <3>2
      <4>2. s[n] = s[n - 1] + x[n - 1]
        BY <4>1
      <4> QED
        BY <3>2, <4>2
    <3> QED
      BY <3>1, <3>2
  <2> QED
    BY <2>1
<1>2. g = Step(g)
  BY <1>1
<1>3. Total(x, m) = g[m]
  BY DEF Total
<1> HIDE DEF g
<1> DEFINE S == {n \in Nat : n <= m => g[n] = s[n]}
<1>4. 0 \in S
  <2>1. g[0] = 0
    BY <1>2
  <2> QED
    BY <2>1
<1>5. ASSUME NEW n \in Nat, n \in S PROVE n + 1 \in S
  <2>1. CASE n + 1 <= m
    <3>1. n \in 0..(m - 1) /\ n + 1 \in 0..m /\ n <= m
      BY <2>1
    <3>2. g[n + 1] = g[n] + x[n]
      BY <1>2, <3>1
    <3>3. g[n] = s[n]
      BY <1>5, <3>1
    <3> QED
      BY <3>1, <3>2, <3>3
  <2>2. CASE ~(n + 1 <= m)
    BY <2>2
  <2> QED
    BY <2>1, <2>2
<1>6. m \in S
  <2>1. Nat \subseteq S
    <3> HIDE DEF S
    <3> QED
      BY <1>4, <1>5, SetInduction
  <2> QED
    BY <2>1
<1>7. g[m] = s[m]
  BY <1>6
<1> QED
  BY <1>3, <1>7

LEMMA TwiceLess ==
  ASSUME NEW c \in Int, NEW y \in Int, NEW z \in Int
  PROVE  2 * (c * y - z) - c * y = c * (2 * y - c * z) - (2 * z - c * (c * z - y))
  OBVIOUS

(* 2 cos(n omega) from the answer of the filter.                            *)
LEMMA CosineIs ==
  ASSUME WindowSize, NEW t, NEW u, Response(Coeff[t], u), NEW n \in Slots
  PROVE  Cosine2(t)[n] = 2 * u[n] - Coeff[t] * OneLater(u)[n]
<1> DEFINE c == Coeff[t]
           Turn(g) == [k \in Slots |-> IF k = 0 THEN 2 ELSE IF k = 1 THEN c
                                       ELSE c * g[k - 1] - g[k - 2]]
           d == [k \in Slots |-> 2 * u[k] - c * OneLater(u)[k]]
           g == CHOOSE f : f = Turn(f)
<1>1. /\ Size \in Int /\ 1 < Size /\ c \in Int /\ Slots = 0..(Size - 1)
      /\ u[0] = 1 /\ u[1] = c
  BY DEF WindowSize, Response, Slots
<1>2. ASSUME NEW k \in Slots PROVE u[k] \in Int
  BY <1>1 DEF Response
<1>3. d[0] = 2 /\ d[1] = c
  <2>1. OneLater(u)[0] = 0 /\ OneLater(u)[1] = 1
    BY <1>1 DEF OneLater
  <2>2. 2 * 1 - c * 0 = 2 /\ 2 * c - c * 1 = c
    BY <1>1
  <2> QED
    BY <1>1, <2>1, <2>2
<1>4. ASSUME NEW k \in Slots, k # 0, k # 1
      PROVE  d[k] = c * d[k - 1] - d[k - 2]
  <2>1. k - 1 \in Slots /\ k - 2 \in Slots /\ (k - 1) + 1 = k /\ (k - 2) + 1 = k - 1
    BY <1>1, <1>4
  <2>2. PICK x \in Int, y \in Int, z \in Int, w \in Int :
          x = u[k] /\ y = u[k - 1] /\ z = u[k - 2] /\ w = OneLater(u)[k - 2]
    BY <2>1, AnswerStep
  <2>3. x = c * y - z
    BY <2>1, <2>2, AnswerStep
  <2>4. y = c * z - w
    BY <2>1, <2>2, AnswerStep
  <2>5. OneLater(u)[k] = y /\ OneLater(u)[k - 1] = z
    BY <2>1, <2>2, AnswerStep
  <2>6. d[k] = 2 * x - c * y /\ d[k - 1] = 2 * y - c * z /\ d[k - 2] = 2 * z - c * w
    BY <2>1, <2>2, <2>4, <2>5
  <2> HIDE DEF c
  <2>7. 2 * (c * y - z) - c * y = c * (2 * y - c * z) - (2 * z - c * (c * z - y))
    BY <1>1, TwiceLess
  <2>8. w = c * z - y
    <3>1. PICK e \in Int : e = c * z
      BY <1>1
    <3> QED
      BY <2>4, <3>1
  <2> QED
    BY <2>3, <2>6, <2>7, <2>8
<1>5. d = Turn(d)
  <2>1. ASSUME NEW k \in Slots PROVE d[k] = Turn(d)[k]
    <3>1. CASE k = 0
      BY <1>3, <3>1
    <3>2. CASE k = 1
      BY <1>3, <3>2
    <3>3. CASE k # 0 /\ k # 1
      BY <1>4, <3>3
    <3> QED
      BY <3>1, <3>2, <3>3
  <2> QED
    BY <2>1
<1>6. g = Turn(g)
  BY <1>5
<1>7. Cosine2(t) = g
  BY DEF Cosine2
<1>8. /\ g[0] = 2 /\ g[1] = c
      /\ \A k \in Slots : k # 0 /\ k # 1 => g[k] = c * g[k - 1] - g[k - 2]
  <2> HIDE DEF g
  <2>1. g[0] = 2
    BY <1>1, <1>6
  <2>2. g[1] = c
    BY <1>1, <1>6
  <2>3. ASSUME NEW k \in Slots, k # 0, k # 1 PROVE g[k] = c * g[k - 1] - g[k - 2]
    BY <1>6, <2>3
  <2> QED
    BY <2>1, <2>2, <2>3
<1> HIDE DEF g, d
<1> DEFINE S == {k \in Nat : /\ k \in Slots => g[k] = d[k]
                             /\ k + 1 \in Slots => g[k + 1] = d[k + 1]}
<1>9. 0 \in S
  BY <1>3, <1>8
<1>10. ASSUME NEW k \in Nat, k \in S PROVE k + 1 \in S
  <2>1. ASSUME k + 2 \in Slots PROVE g[k + 2] = d[k + 2]
    <3>1. k \in Slots /\ k + 1 \in Slots /\ (k + 2) - 1 = k + 1 /\ (k + 2) - 2 = k
          /\ k + 2 # 0 /\ k + 2 # 1
      BY <1>1, <2>1
    <3>2. g[k] = d[k] /\ g[k + 1] = d[k + 1]
      BY <1>10, <3>1
    <3>3. g[k + 2] = c * g[k + 1] - g[k] /\ d[k + 2] = c * d[k + 1] - d[k]
      BY <1>4, <1>8, <2>1, <3>1
    <3> QED
      BY <3>2, <3>3
  <2>2. (k + 1) + 1 = k + 2 /\ k + 1 \in Nat
    OBVIOUS
  <2> QED
    BY <1>10, <2>1, <2>2
<1>11. Nat \subseteq S
  <2> HIDE DEF S
  <2> QED
    BY <1>9, <1>10, SetInduction
<1>12. n \in S
  BY <1>1, <1>11
<1> QED
  BY <1>7, <1>12 DEF d

(* The quadratic form of value, of what the filter answers to two samples,  *)
(* is the cosine of how far they are apart: each step of the filter turns   *)
(* both by the same angle.                                                  *)
LEMMA Turning ==
  ASSUME NEW c \in Int, NEW a \in Int, NEW b \in Int, NEW x \in Int, NEW y \in Int
  PROVE  2 * ((c * a - b) * (c * x - y)) + 2 * (a * x) - c * ((c * a - b) * x + a * (c * x - y))
           = 2 * (a * x) + 2 * (b * y) - c * (a * y + b * x)
  OBVIOUS

Form(c, u, i, j) ==
  2 * (u[i] * u[j]) + 2 * (OneLater(u)[i] * OneLater(u)[j])
    - c * (u[i] * OneLater(u)[j] + OneLater(u)[i] * u[j])

LEMMA FormIsCosine ==
  ASSUME WindowSize, NEW t, NEW u, Response(Coeff[t], u), NEW i \in Slots, NEW j \in Slots
  PROVE  Form(Coeff[t], u, i, j) = Cosine2(t)[IF i < j THEN j - i ELSE i - j]
<1> DEFINE c == Coeff[t]
           v == OneLater(u)
           S == {m \in Nat : \A n \in Nat : m + n \in Slots => Form(c, u, m, m + n) = Cosine2(t)[n]}
<1>1. /\ Size \in Int /\ 1 < Size /\ Slots = 0..(Size - 1) /\ c \in Int
  BY DEF WindowSize, Slots, Response
<1>2. ASSUME NEW k \in Slots
      PROVE  /\ u[k] \in Int /\ v[k] \in Int /\ u[k + 1] = c * u[k] - v[k]
             /\ k + 1 \in Slots => v[k + 1] = u[k]
  BY AnswerStep
<1> HIDE DEF c, v
<1>3. 0 \in S
  <2>1. ASSUME NEW n \in Nat, n \in Slots PROVE Form(c, u, 0, n) = Cosine2(t)[n]
    <3>1. u[0] = 1 /\ v[0] = 0
      BY <1>1 DEF Response, OneLater, c, v
    <3>2. PICK x \in Int, y \in Int : x = u[n] /\ y = v[n]
      BY <1>2, <2>1
    <3>3. Form(c, u, 0, n) = 2 * (1 * x) + 2 * (0 * y) - c * (1 * y + 0 * x)
      BY <3>1, <3>2 DEF Form, v
    <3>4. 2 * (1 * x) + 2 * (0 * y) - c * (1 * y + 0 * x) = 2 * x - c * y
      BY <1>1
    <3>5. Cosine2(t)[n] = 2 * x - c * y
      BY <2>1, <3>2, CosineIs DEF c, v
    <3> QED
      BY <3>3, <3>4, <3>5
  <2> QED
    BY <2>1
<1>4. ASSUME NEW m \in Nat, m \in S PROVE m + 1 \in S
  <2>1. ASSUME NEW n \in Nat, (m + 1) + n \in Slots
        PROVE  Form(c, u, m + 1, (m + 1) + n) = Cosine2(t)[n]
    <3>1. PICK k \in Slots : k = m + n /\ k + 1 = (m + 1) + n /\ k + 1 \in Slots
      BY <1>1, <2>1
    <3>2. m \in Slots /\ m + 1 \in Slots
      BY <1>1, <2>1
    <3>3. PICK a \in Int, b \in Int, x \in Int, y \in Int :
            a = u[m] /\ b = v[m] /\ x = u[k] /\ y = v[k]
      BY <1>2, <3>2
    <3>4. u[m + 1] = c * a - b /\ v[m + 1] = a /\ u[k + 1] = c * x - y /\ v[k + 1] = x
      BY <1>2, <3>1, <3>2, <3>3
    <3>5. Form(c, u, m + 1, k + 1)
            = 2 * ((c * a - b) * (c * x - y)) + 2 * (a * x)
                - c * ((c * a - b) * x + a * (c * x - y))
      BY <3>4 DEF Form, v
    <3>6. Form(c, u, m, k) = 2 * (a * x) + 2 * (b * y) - c * (a * y + b * x)
      BY <3>3 DEF Form, v
    <3>7. Form(c, u, m, k) = Cosine2(t)[n]
      BY <1>4, <3>1
    <3>8. 2 * ((c * a - b) * (c * x - y)) + 2 * (a * x)
            - c * ((c * a - b) * x + a * (c * x - y))
              = 2 * (a * x) + 2 * (b * y) - c * (a * y + b * x)
      BY <1>1, Turning
    <3>9. Form(c, u, m + 1, k + 1) = Cosine2(t)[n]
      BY <3>5, <3>6, <3>7, <3>8, Zenon
    <3> QED
      BY <3>1, <3>9
  <2> QED
    BY <2>1
<1>5. Nat \subseteq S
  <2> HIDE DEF S
  <2> QED
    BY <1>3, <1>4, SetInduction
<1>6. ASSUME NEW m \in Slots, NEW k \in Slots, m <= k
      PROVE  Form(c, u, m, k) = Cosine2(t)[k - m]
  <2>1. m \in S /\ k - m \in Nat /\ m + (k - m) = k
    BY <1>1, <1>5, <1>6
  <2> QED
    BY <2>1
<1>7. CASE i < j
  BY <1>1, <1>6, <1>7 DEF c
<1>8. CASE ~(i < j)
  <2>1. Form(c, u, j, i) = Cosine2(t)[i - j]
    BY <1>1, <1>6, <1>8
  <2>2. Form(c, u, i, j) = Form(c, u, j, i)
    <3>1. PICK a \in Int, b \in Int, x \in Int, y \in Int :
            a = u[i] /\ b = v[i] /\ x = u[j] /\ y = v[j]
      BY <1>2
    <3>2. /\ Form(c, u, i, j) = 2 * (a * x) + 2 * (b * y) - c * (a * y + b * x)
          /\ Form(c, u, j, i) = 2 * (x * a) + 2 * (y * b) - c * (x * b + y * a)
      BY <3>1 DEF Form, v
    <3>3. a * x = x * a /\ b * y = y * b /\ a * y + b * x = x * b + y * a
      OBVIOUS
    <3> QED
      BY <3>2, <3>3
  <2> QED
    BY <1>8, <2>1, <2>2 DEF c
<1> QED
  BY <1>7, <1>8

LEMMA FormExpanded ==
  ASSUME NEW c \in Int, NEW a \in Int, NEW b \in Int, NEW x \in Int, NEW y \in Int
  PROVE  /\ 2 * a - c * b \in Int /\ 2 * b - c * a \in Int
         /\ 2 * (a * x) + 2 * (b * y) - c * (a * y + b * x)
              = (2 * a - c * b) * x + (2 * b - c * a) * y
         /\ (2 * a - c * b) * x + (2 * b - c * a) * y
              = (2 * x - c * y) * a + (2 * y - c * x) * b
  OBVIOUS

LEMMA FormOfOne ==
  ASSUME NEW c \in Int, NEW a \in Int, NEW b \in Int
  PROVE  (2 * a - c * b) * a + (2 * b - c * a) * b = 2 * (a * a + b * b - a * b * c)
OBVIOUS

LEMMA SameForm ==
  ASSUME NEW a \in Int, NEW b \in Int, NEW x \in Int, NEW y \in Int, NEW c \in Int,
         Same(a, x), Same(b, y)
  PROVE  Same(a * a + b * b - a * b * c, x * x + y * y - x * y * c)
<1>1. Prime \in Nat \ {0} /\ Same(c, c)
  BY WindowConstants, SameBasics
<1>2. PICK m \in Int, n \in Int, o \in Int, p \in Int, q \in Int, r \in Int :
        m = a * a /\ n = b * b /\ o = a * b /\ p = x * x /\ q = y * y /\ r = x * y
  OBVIOUS
<1>3. Same(m, p) /\ Same(n, q) /\ Same(o, r)
  BY <1>1, <1>2, SameArithmetic
<1>4. PICK v \in Int, w \in Int : v = o * c /\ w = r * c
  OBVIOUS
<1>5. Same(v, w)
  BY <1>1, <1>3, <1>4, SameArithmetic
<1>6. Same(m + n, p + q) /\ m + n \in Int /\ p + q \in Int
  BY <1>1, <1>3, SameArithmetic
<1>7. Same(m + n - v, p + q - w)
  BY <1>1, <1>5, <1>6, SameArithmetic
<1> QED
  BY <1>2, <1>4, <1>7

LEMMA SameTwice ==
  ASSUME NEW g \in Int, NEW h \in Int, Same(h, g)
  PROVE  (2 * g - 2 * h) % Prime = 0
<1>1. Prime \in Nat \ {0} /\ 2 \in Int
  BY WindowConstants
<1>2. PICK m \in Int, n \in Int, d \in Int : m = 2 * g /\ n = 2 * h /\ d = m - n
  <2>1. PICK m \in Int, n \in Int : m = 2 * g /\ n = 2 * h
    OBVIOUS
  <2>2. m - n \in Int
    OBVIOUS
  <2> QED
    BY <2>1, <2>2
<1>3. Same(g, h) /\ Same(2, 2) /\ Same(n, n)
  BY <1>1, <1>2, SameBasics
<1>4. Same(m, n)
  BY <1>1, <1>2, <1>3, SameArithmetic
<1>5. Same(d, n - n) /\ n - n = 0
  BY <1>1, <1>2, <1>3, <1>4, SameArithmetic
<1>6. d % Prime = 0 % Prime
  BY <1>1, <1>5, Residue
<1>7. 0 % Prime = 0
  BY <1>1, SmallIsRemainder
<1> QED
  BY <1>2, <1>6, <1>7

(* So twice value is, as a residue, the double sum over the window that     *)
(* Fourier's sum squared is.                                                *)
LEMMA PowerIsTotal ==
  ASSUME WindowSize, NEW t \in Tones, NEW u, Response(Coeff[t], u),
         recent \in [Slots -> Int], q1[t] \in Int, q2[t] \in Int,
         IsSum(q1[t], u, recent), IsSum(q2[t], OneLater(u), recent)
  PROVE  (2 * Power(t) -
           Total([i \in Slots |-> recent[i] *
             Total([j \in Slots |-> recent[j] * Cosine2(t)[IF i < j THEN j - i ELSE i - j]],
                   Size)], Size)) % Prime = 0
<1> DEFINE c == Coeff[t]
           v == OneLater(u)
           Row(i) == [j \in Slots |-> recent[j] * Cosine2(t)[IF i < j THEN j - i ELSE i - j]]
<1>1. /\ Size \in Int /\ 1 < Size /\ Slots = 0..(Size - 1) /\ c \in Int
  BY DEF WindowSize, Slots, Response
<1>2. PICK s \in [0..Size -> Int] : PartialSums(s, u, recent) /\ Same(s[Size], q1[t])
  BY DEF IsSum
<1>3. PICK p \in [0..Size -> Int] : PartialSums(p, v, recent) /\ Same(p[Size], q2[t])
  BY DEF IsSum
<1>4. ASSUME NEW k \in Slots
      PROVE  u[k] \in Int /\ v[k] \in Int /\ recent[k] \in Int
  BY AnswerStep
<1> HIDE DEF c, v
<1>5. ASSUME NEW k \in Slots
      PROVE  /\ s[k + 1] = s[k] + u[k] * recent[k] /\ p[k + 1] = p[k] + v[k] * recent[k]
             /\ s[k] \in Int /\ p[k] \in Int
  <2>1. k \in 0..Size
    BY <1>1
  <2> QED
    BY <1>2, <1>3, <2>1 DEF PartialSums
<1>6. s[0] = 0 /\ p[0] = 0
  BY <1>2, <1>3 DEF PartialSums
<1>7. PICK a \in Int, b \in Int : a = s[Size] /\ b = p[Size]
  BY <1>1
<1>8. ASSUME NEW w, NEW e \in Int, NEW f \in Int,
             \A k \in Slots : w[k] = recent[k] * (e * u[k] + f * v[k])
      PROVE  Total(w, Size) = e * a + f * b
  <2> DEFINE z == [n \in 0..Size |-> e * s[n] + f * p[n]]
  <2>1. z \in [0..Size -> Int]
    <3>1. ASSUME NEW n \in 0..Size PROVE e * s[n] + f * p[n] \in Int
      <4>1. PICK x \in Int, y \in Int : x = s[n] /\ y = p[n]
        OBVIOUS
      <4>2. e * x + f * y \in Int
        OBVIOUS
      <4> QED
        BY <4>1, <4>2
    <3> QED
      BY <3>1
  <2>2. z[0] = 0 /\ z[Size] = e * a + f * b
    <3>1. z[0] = e * 0 + f * 0
      BY <1>1, <1>6
    <3>2. z[Size] = e * s[Size] + f * p[Size]
      BY <1>1
    <3>3. s[Size] = a /\ p[Size] = b
      BY <1>2, <1>3, <1>7
    <3>4. e * 0 + f * 0 = 0
      OBVIOUS
    <3> QED
      BY <3>1, <3>2, <3>3, <3>4, Zenon
  <2>3. ASSUME NEW k \in Slots PROVE z[k + 1] = z[k] + w[k]
    <3>1. PICK x \in Int, y \in Int, g \in Int, h \in Int, r \in Int :
            x = s[k] /\ y = p[k] /\ g = u[k] /\ h = v[k] /\ r = recent[k]
      BY <1>4, <1>5
    <3>2. z[k + 1] = e * (x + g * r) + f * (y + h * r) /\ z[k] = e * x + f * y
      <4>1. k \in 0..Size /\ k + 1 \in 0..Size
        BY <1>1
      <4>2. z[k + 1] = e * s[k + 1] + f * p[k + 1] /\ z[k] = e * s[k] + f * p[k]
        BY <4>1
      <4>3. s[k + 1] = x + g * r /\ p[k + 1] = y + h * r
        BY <1>5, <3>1
      <4> QED
        BY <3>1, <4>2, <4>3, Zenon
    <3>3. w[k] = r * (e * g + f * h)
      BY <1>8, <3>1
    <3>4. e * (x + g * r) + f * (y + h * r) = (e * x + f * y) + r * (e * g + f * h)
      OBVIOUS
    <3> QED
      BY <3>2, <3>3, <3>4
  <2> HIDE DEF z
  <2>4. Size \in Nat
    BY <1>1
  <2>5. \A k \in 0..(Size - 1) : z[k + 1] = z[k] + w[k]
    BY <1>1, <2>3, Zenon
  <2>6. Total(w, Size) = z[Size]
    BY <2>1, <2>2, <2>4, <2>5, TotalIs
  <2> QED
    BY <2>2, <2>6
<1>9. ASSUME NEW i \in Slots
      PROVE  Total(Row(i), Size) = (2 * u[i] - c * v[i]) * a + (2 * v[i] - c * u[i]) * b
  <2>1. PICK g \in Int, h \in Int : g = u[i] /\ h = v[i]
    BY <1>4
  <2>2. PICK e \in Int, f \in Int : e = 2 * g - c * h /\ f = 2 * h - c * g
    BY <1>1, FormExpanded
  <2>3. ASSUME NEW k \in Slots PROVE Row(i)[k] = recent[k] * (e * u[k] + f * v[k])
    <3>1. PICK x \in Int, y \in Int : x = u[k] /\ y = v[k]
      BY <1>4
    <3>2. Row(i)[k] = recent[k] * Form(c, u, i, k)
      BY FormIsCosine DEF c
    <3>3. Form(c, u, i, k) = 2 * (g * x) + 2 * (h * y) - c * (g * y + h * x)
      BY <2>1, <3>1 DEF Form, v
    <3>4. 2 * (g * x) + 2 * (h * y) - c * (g * y + h * x)
            = (2 * g - c * h) * x + (2 * h - c * g) * y
      BY <1>1, FormExpanded
    <3> QED
      BY <2>2, <3>1, <3>2, <3>3, <3>4
  <2> HIDE DEF Row
  <2>4. Total(Row(i), Size) = e * a + f * b
    BY <1>8, <2>3
  <2> QED
    BY <2>1, <2>2, <2>4
<1> DEFINE w == [i \in Slots |-> recent[i] * Total(Row(i), Size)]
<1>10. PICK e \in Int, f \in Int : e = 2 * a - c * b /\ f = 2 * b - c * a
  BY <1>1, FormExpanded
<1>11. ASSUME NEW i \in Slots PROVE w[i] = recent[i] * (e * u[i] + f * v[i])
  <2>1. PICK g \in Int, h \in Int : g = u[i] /\ h = v[i]
    BY <1>4
  <2>2. (2 * g - c * h) * a + (2 * h - c * g) * b = (2 * a - c * b) * g + (2 * b - c * a) * h
    BY <1>1, FormExpanded
  <2>3. Total(Row(i), Size) = e * g + f * h
    BY <1>9, <1>10, <2>1, <2>2
  <2>4. w[i] = recent[i] * Total(Row(i), Size)
    OBVIOUS
  <2> QED
    BY <2>1, <2>3, <2>4
<1>12. Total(w, Size) = e * a + f * b
  <2> HIDE DEF w
  <2> QED
    BY <1>8, <1>11
<1>13. e * a + f * b = 2 * (a * a + b * b - a * b * c)
  <2>1. (2 * a - c * b) * a + (2 * b - c * a) * b = 2 * (a * a + b * b - a * b * c)
    <3>1. c \in Int
      BY <1>1
    <3> HIDE <1>1
    <3> QED
      BY <3>1, FormOfOne
  <2> QED
    BY <1>10, <2>1, Zenon
<1>14. PICK A \in Int, B \in Int : A = q1[t] /\ B = q2[t] /\ Same(a, A) /\ Same(b, B)
  BY <1>2, <1>3, <1>7
<1>15. Power(t) = A * A + B * B - A * B * c
  BY <1>14 DEF Power, c
<1>16. Same(a * a + b * b - a * b * c, A * A + B * B - A * B * c)
  BY <1>1, <1>14, SameForm
<1>17. PICK g \in Int, h \in Int :
         g = A * A + B * B - A * B * c /\ h = a * a + b * b - a * b * c
  BY <1>1
<1>18. (2 * g - 2 * h) % Prime = 0
  BY <1>16, <1>17, SameTwice
<1> QED
  BY <1>12, <1>13, <1>15, <1>17, <1>18

(* The filter's answer without reduction, of which Answer is the residue.   *)
LEMMA ResponseExists ==
  ASSUME NEW t \in Tones
  PROVE  \E u : Response(Coeff[t], u)
<1> DEFINE c == Coeff[t]
           V == Int \X Int
           step == [x \in Nat \X V |-> <<c * x[2][1] - x[2][2], x[2][1]>>]
           Step(g) == [n \in 0..Size |-> IF n = 0 THEN 1 ELSE IF n = 1 THEN c
                                         ELSE (c * g[n - 1] - g[n - 2]) % Prime]
           g == CHOOSE f : f = Step(f)
<1>1. /\ Size \in Nat /\ 1 < Size /\ Prime \in Nat \ {0} /\ c \in Int
      /\ Answer(t)[Size - 1] % Prime = 0 /\ (Answer(t)[Size] - 1) % Prime = 0
  BY WindowAssumption
<1>2. Answer(t) = g
  BY DEF Answer
<1> HIDE DEF c
<1>3. PICK f \in [Nat -> V] : Unfolds(f, <<1, 0>>, step)
  <2>1. ASSUME NEW x \in Nat \X V PROVE <<c * x[2][1] - x[2][2], x[2][1]>> \in V
    <3>1. PICK y \in Int, z \in Int : y = x[2][1] /\ z = x[2][2]
      OBVIOUS
    <3>2. c * y - z \in Int
      BY <1>1
    <3> QED
      BY <3>1, <3>2
  <2>2. step \in [Nat \X V -> V] /\ <<1, 0>> \in V
    BY <2>1
  <2> HIDE DEF step, V
  <2> QED
    BY <2>2, Recursion
<1>4. ASSUME NEW n \in Nat
      PROVE  /\ f[n][1] \in Int /\ f[n][2] \in Int
             /\ f[n + 1][1] = c * f[n][1] - f[n][2] /\ f[n + 1][2] = f[n][1]
  <2>1. f[n] \in V
    OBVIOUS
  <2>2. f[n + 1] = step[<<n, f[n]>>]
    BY <1>3 DEF Unfolds
  <2>3. step[<<n, f[n]>>] = <<c * f[n][1] - f[n][2], f[n][1]>>
    BY <2>1
  <2> HIDE DEF step
  <2>4. f[n + 1] = <<c * f[n][1] - f[n][2], f[n][1]>>
    BY <2>2, <2>3, Zenon
  <2> QED
    BY <2>1, <2>4
<1>5. f[0] = <<1, 0>>
  BY <1>3 DEF Unfolds
<1> HIDE DEF step, V
<1> DEFINE u == [n \in 0..Size |-> f[n][1]]
<1>6. /\ u \in [0..Size -> Int] /\ u[0] = 1 /\ u[1] = c
  <2>1. f[1][1] = c * 1 - 0
    <3>1. f[0 + 1][1] = c * f[0][1] - f[0][2] /\ 0 + 1 = 1
      BY <1>4
    <3> QED
      BY <1>5, <3>1
  <2>2. c * 1 - 0 = c /\ 0 \in 0..Size /\ 1 \in 0..Size
    BY <1>1
  <2>3. u \in [0..Size -> Int]
    BY <1>4
  <2>4. u[0] = f[0][1] /\ f[0][1] = 1
    BY <1>5, <2>2
  <2>5. u[1] = f[1][1]
    BY <2>2
  <2> HIDE DEF u
  <2> QED
    BY <2>1, <2>2, <2>3, <2>4, <2>5
<1>7. ASSUME NEW n \in 1..(Size - 1) PROVE u[n + 1] = c * u[n] - u[n - 1]
  <2>1. PICK k \in Nat : k = n - 1 /\ k + 1 = n /\ k \in 0..Size /\ n \in 0..Size
                         /\ n + 1 \in 0..Size /\ n \in Nat
    BY <1>1
  <2>2. f[n + 1][1] = c * f[n][1] - f[n][2] /\ f[n][2] = f[k][1]
    BY <1>4, <2>1
  <2> QED
    BY <2>1, <2>2
<1> HIDE DEF u
<1>8. ASSUME NEW n \in 0..Size, n # 0, n # 1
      PROVE  /\ n - 1 \in 0..Size /\ n - 2 \in 0..Size
             /\ u[n] = c * u[n - 1] - u[n - 2]
             /\ u[n - 1] \in Int /\ u[n - 2] \in Int /\ u[n] \in Int
  <2>1. PICK k \in 1..(Size - 1) : k = n - 1 /\ k + 1 = n /\ k - 1 = n - 2
    BY <1>1, <1>8
  <2>2. k \in 0..Size /\ k - 1 \in 0..Size
    BY <1>1, <2>1
  <2> QED
    BY <1>6, <1>7, <2>1, <2>2
(* The recursion of Answer has a solution.                                  *)
<1>9. g = Step(g)
  <2> DEFINE d == [n \in 0..Size |-> IF n = 0 THEN 1 ELSE IF n = 1 THEN c ELSE u[n] % Prime]
  <2>1. ASSUME NEW n \in 0..Size PROVE d[n] \in Int /\ Same(d[n], u[n])
    <3>1. CASE n = 0
      BY <1>1, <1>6, <3>1, SameBasics
    <3>2. CASE n = 1
      BY <1>1, <1>6, <3>2, SameBasics
    <3>3. CASE n # 0 /\ n # 1
      <4>1. PICK x \in Int : x = u[n]
        BY <1>8, <3>3
      <4>2. d[n] = x % Prime
        BY <3>3, <4>1
      <4>3. x % Prime \in Int /\ Same(x % Prime, x)
        BY <1>1, Residue
      <4> QED
        BY <4>1, <4>2, <4>3, Zenon
    <3> QED
      BY <3>1, <3>2, <3>3
  <2>2. ASSUME NEW n \in 0..Size PROVE d[n] = Step(d)[n]
    <3>1. CASE n = 0
      BY <3>1
    <3>2. CASE n = 1
      BY <3>2
    <3>3. CASE n # 0 /\ n # 1
      <4>1. PICK x \in Int, y \in Int : x = d[n - 1] /\ y = d[n - 2]
        BY <1>8, <2>1, <3>3
      <4>2. PICK v \in Int, w \in Int : v = u[n - 1] /\ w = u[n - 2] /\ u[n] = c * v - w
        BY <1>8, <3>3
      <4>3. Same(x, v) /\ Same(y, w)
        BY <1>8, <2>1, <3>3, <4>1, <4>2
      <4>4. Same(c * x - y, c * v - w)
        BY <1>1, <4>3, SameOneLater
      <4>5. PICK l \in Int, m \in Int : l = c * x - y /\ m = c * v - w
        BY <1>1
      <4>6. l % Prime = m % Prime
        BY <1>1, <4>4, <4>5, Residue
      <4>7. d[n] = m % Prime
        BY <3>3, <4>2, <4>5
      <4>8. Step(d)[n] = l % Prime
        <5>1. Step(d)[n] = (c * d[n - 1] - d[n - 2]) % Prime
          BY <3>3
        <5> HIDE DEF d
        <5> QED
          BY <4>1, <4>5, <5>1
      <4> QED
        BY <4>6, <4>7, <4>8, Zenon
    <3> QED
      BY <3>1, <3>2, <3>3
  <2>3. d = Step(d)
    BY <2>2
  <2> HIDE DEF d
  <2> QED
    BY <2>3
<1> HIDE DEF g
<1>10. /\ g[0] = 1 /\ g[1] = c
       /\ \A n \in 0..Size : n # 0 /\ n # 1 => g[n] = (c * g[n - 1] - g[n - 2]) % Prime
  <2>1. g[0] = 1
    BY <1>1, <1>9
  <2>2. g[1] = c
    BY <1>1, <1>9
  <2>3. ASSUME NEW n \in 0..Size, n # 0, n # 1
        PROVE  g[n] = (c * g[n - 1] - g[n - 2]) % Prime
    BY <1>9, <2>3
  <2> QED
    BY <2>1, <2>2, <2>3
(* And it has the residues of u.                                            *)
<1> DEFINE Right(n) == g[n] \in Int /\ Same(g[n], u[n])
           S == {n \in Nat : (n <= Size => Right(n)) /\ (n + 1 <= Size => Right(n + 1))}
<1>11. 0 \in S
  <2>1. Right(0)
    BY <1>1, <1>6, <1>10, SameBasics
  <2>2. Right(1)
    BY <1>1, <1>6, <1>10, SameBasics
  <2> QED
    BY <2>1, <2>2
<1>12. ASSUME NEW n \in Nat, n \in S PROVE n + 1 \in S
  <2>1. ASSUME n + 2 <= Size PROVE Right(n + 2)
    <3>1. /\ n <= Size /\ n + 1 <= Size /\ n + 2 \in 0..Size /\ n + 2 # 0 /\ n + 2 # 1
          /\ (n + 2) - 1 = n + 1 /\ (n + 2) - 2 = n
      BY <1>1, <2>1
    <3>2. Right(n) /\ Right(n + 1)
      BY <1>12, <3>1
    <3>3. PICK x \in Int, y \in Int : x = g[n + 1] /\ y = g[n]
      BY <3>2
    <3>4. PICK v \in Int, w \in Int : v = u[n + 1] /\ w = u[n] /\ u[n + 2] = c * v - w
      BY <1>8, <3>1
    <3>5. g[n + 2] = (c * x - y) % Prime
      BY <1>10, <3>1, <3>3
    <3>6. Same(c * x - y, c * v - w)
      BY <1>1, <3>2, <3>3, <3>4, SameOneLater
    <3>7. PICK l \in Int, m \in Int : l = c * x - y /\ m = c * v - w
      BY <1>1
    <3>8. l % Prime \in Int /\ Same(l % Prime, l)
      BY <1>1, Residue
    <3>9. Same(l % Prime, m)
      BY <1>1, <3>6, <3>7, <3>8, SameBasics
    <3> QED
      BY <3>4, <3>5, <3>7, <3>8, <3>9
  <2>2. (n + 1) + 1 = n + 2 /\ n + 1 \in Nat
    OBVIOUS
  <2> HIDE DEF Right
  <2> QED
    BY <1>12, <2>1, <2>2
<1>13. Nat \subseteq S
  <2> HIDE DEF S
  <2> QED
    BY <1>11, <1>12, SetInduction
<1>14. ASSUME NEW n \in 0..Size PROVE Right(n)
  <2>1. n \in S /\ n <= Size
    BY <1>1, <1>13
  <2> HIDE DEF Right
  <2> QED
    BY <2>1
<1>15. Same(u[Size - 1], 0) /\ Same(u[Size], 1)
  <2>1. Size - 1 \in 0..Size /\ Size \in 0..Size
    BY <1>1
  <2>2. PICK x \in Int, y \in Int, v \in Int, w \in Int :
          x = g[Size - 1] /\ y = g[Size] /\ v = u[Size - 1] /\ w = u[Size]
    BY <1>6, <1>14, <2>1
  <2>3. Same(x, v) /\ Same(y, w)
    BY <1>14, <2>1, <2>2
  <2>4. x % Prime = 0 /\ (y - 1) % Prime = 0
    BY <1>1, <1>2, <2>2
  <2>5. Same(v, 0)
    <3>1. Same(0, x)
      BY <1>1, <2>4, Residue
    <3> QED
      BY <1>1, <2>3, <3>1, SameBasics
  <2>6. Same(w, 1)
    <3>1. y - 1 \in Int /\ Same(0, y - 1)
      BY <1>1, <2>4, Residue
    <3>2. Same(0 + 1, (y - 1) + 1) /\ 0 + 1 = 1 /\ (y - 1) + 1 = y
      BY <1>1, <3>1, SameBasics, SameArithmetic
    <3> QED
      BY <1>1, <2>3, <3>2, SameBasics
  <2> QED
    BY <2>2, <2>5, <2>6
<1>16. Response(c, u)
  BY <1>1, <1>6, <1>7, <1>15 DEF Response
<1> QED
  BY <1>16 DEF c

(* For every size of the window, every tone with a whole number of periods  *)
(* in it and whatever the samples: value is the power of the tone in the    *)
(* last Size samples (goertzel_t fed by ring_simple_t).  A sample counts    *)
(* while it is in the window and not at all afterwards.                     *)
THEOREM PowerIsOfWindow == ToneSpec => []PowerOfWindow
<1> DEFINE u == [t \in Tones |-> CHOOSE a : Response(Coeff[t], a)]
<1>1. \A t \in Tones : Response(Coeff[t], u[t])
  BY ResponseExists
<1> HIDE DEF u
<1>2. ToneInit => WindowInv(u)
  BY <1>1, WindowConstants, WindowInit
<1>3. WindowInv(u) /\ [ToneNext]_toneVars => WindowInv(u)'
  BY <1>1, WindowConstants, WindowStep
<1>4. ASSUME WindowInv(u) PROVE PowerOfWindow
  <2>1. ASSUME NEW t \in Tones
        PROVE  (2 * Power(t) -
                 Total([i \in Slots |-> recent[i] *
                   Total([j \in Slots |-> recent[j] * Cosine2(t)[IF i < j THEN j - i ELSE i - j]],
                   Size)], Size)) % Prime = 0
    <3>1. Response(Coeff[t], u[t])
      BY <1>1
    <3>2. /\ recent \in [Slots -> Int] /\ q1[t] \in Int /\ q2[t] \in Int
          /\ IsSum(q1[t], u[t], recent) /\ IsSum(q2[t], OneLater(u[t]), recent)
      BY <1>4 DEF WindowInv, FilterOfWindow
    <3> QED
      BY <3>1, <3>2, WindowConstants, PowerIsTotal
  <2> QED
    BY <2>1 DEF PowerOfWindow
<1> QED
  BY <1>2, <1>3, <1>4, PTL DEF ToneSpec

--------------------------------------------------------------------------------
(* The transform of mw_cal, for every size that is a power of two.          *)

LEMMA TransformSize == Bits \in Nat \ {0}
BY SpectrumAssumption

LEMMA SampleValues == Inputs \subseteq Int /\ Reads \subseteq Int
BY SpectrumAssumption

LEMMA ShiftedIs ==
  /\ Shifted[0] = 1
  /\ \A b \in 0..(Bits - 1) : Shifted[b + 1] = 2 * Shifted[b]
  /\ \A b \in 0..Bits : Shifted[b] \in Nat \ {0}
<1> DEFINE Step(p) == [b \in 0..Bits |-> IF b = 0 THEN 1 ELSE 2 * p[b - 1]]
           double == [x \in Nat \X Int |-> 2 * x[2]]
           p == CHOOSE p : p = Step(p)
<1>1. PICK f \in [Nat -> Int] : Unfolds(f, 1, double)
  <2>1. double \in [Nat \X Int -> Int] /\ 1 \in Int
    OBVIOUS
  <2> HIDE DEF double
  <2> QED
    BY <2>1, Recursion
<1>2. Bits \in Nat
  BY TransformSize
<1> DEFINE g == [b \in 0..Bits |-> f[b]]
<1>3. g = Step(g)
  <2>1. ASSUME NEW b \in 0..Bits PROVE g[b] = Step(g)[b]
    <3>1. CASE b = 0
      BY <1>1, <3>1 DEF Unfolds
    <3>2. CASE b # 0
      <4>1. b - 1 \in 0..Bits /\ b - 1 \in Nat /\ (b - 1) + 1 = b
        BY <1>2, <3>2
      <4>2. f[b] = 2 * f[b - 1]
        <5>1. f[(b - 1) + 1] = double[<<b - 1, f[b - 1]>>]
          BY <1>1, <4>1 DEF Unfolds
        <5>2. double[<<b - 1, f[b - 1]>>] = 2 * f[b - 1]
          BY <1>1, <4>1
        <5> QED
          BY <4>1, <5>1, <5>2
      <4> QED
        BY <3>2, <4>1, <4>2
    <3> QED
      BY <3>1, <3>2
  <2> QED
    BY <2>1
<1>4. p = Step(p)
  <2> HIDE DEF g
  <2> QED
    BY <1>3
<1>5. Shifted = p
  BY DEF Shifted
<1> HIDE DEF p
<1>6. p[0] = 1 /\ \A b \in 0..(Bits - 1) : p[b + 1] = 2 * p[b]
  BY <1>2, <1>4
<1> DEFINE S == {n \in Nat : n <= Bits => p[n] \in Nat \ {0}}
<1>7. 0 \in S
  BY <1>6
<1>8. ASSUME NEW n \in Nat, n \in S PROVE n + 1 \in S
  <2> SUFFICES ASSUME n + 1 <= Bits PROVE p[n + 1] \in Nat \ {0}
    OBVIOUS
  <2>1. n \in 0..(Bits - 1) /\ n <= Bits
    BY <1>2
  <2>2. PICK m \in Nat \ {0} : m = p[n]
    BY <1>8, <2>1
  <2>3. p[n + 1] = 2 * m
    BY <1>6, <2>1, <2>2
  <2> QED
    BY <2>3
<1>9. Nat \subseteq S
  <2> HIDE DEF S
  <2> QED
    BY <1>7, <1>8, SetInduction
<1>10. ASSUME NEW b \in 0..Bits PROVE p[b] \in Nat \ {0}
  <2>1. b \in S /\ b <= Bits
    BY <1>2, <1>9
  <2> QED
    BY <2>1
<1> QED
  BY <1>5, <1>6, <1>10

(* At half the size the angle is -pi, and its twiddle -1.                   *)
LEMMA TwiddleAtHalf ==
  /\ Prime \in Nat \ {0} /\ Root \in Int
  /\ \E k \in Int : Twiddle[Shifted[Bits - 1]] = k * Prime - 1
<1>1. PICK w \in Int : w = Twiddle[Shifted[Bits - 1]] /\ (w + 1) % Prime = 0
  BY SpectrumAssumption
<1>2. Prime \in Nat \ {0} /\ Root \in Int
  BY SpectrumAssumption
<1>3. PICK n \in Int : w + 1 = n * Prime
  <2>1. PICK p \in Nat \ {0}, a \in Int : p = Prime /\ a = w + 1 /\ a % p = 0
    BY <1>1, <1>2
  <2>2. PICK n \in Int, r \in Int : r = a % p /\ a = n * p + r
    BY Division
  <2>3. a = n * p
    BY <2>1, <2>2
  <2> QED
    BY <2>1, <2>3
<1>4. w = n * Prime - 1
  BY <1>1, <1>3
<1> QED
  BY <1>1, <1>2, <1>4

(* The powers of Root, of which Twiddle is the beginning. *)
PowerStep == [x \in Nat \X Int |-> (Root * x[2]) % Prime]
Powers == CHOOSE f \in [Nat -> Int] : Unfolds(f, 1, PowerStep)

LEMMA PowersAre ==
  /\ Powers \in [Nat -> Int] /\ Powers[0] = 1
  /\ \A n \in Nat : Powers[n + 1] = (Root * Powers[n]) % Prime
<1>1. PowerStep \in [Nat \X Int -> Int]
  <2>1. ASSUME NEW y \in Int PROVE (Root * y) % Prime \in Int
    <3>1. PICK z \in Int : z = Root * y
      BY TwiddleAtHalf
    <3> QED
      BY <3>1, Residue, TwiddleAtHalf
  <2>2. ASSUME NEW x \in Nat \X Int PROVE (Root * x[2]) % Prime \in Int
    BY <2>1
  <2> QED
    BY <2>2 DEF PowerStep
<1>2. 1 \in Int
  OBVIOUS
<1>3. \E f \in [Nat -> Int] : Unfolds(f, 1, PowerStep)
  BY <1>1, <1>2, Recursion
<1>4. Powers \in [Nat -> Int] /\ Unfolds(Powers, 1, PowerStep)
  BY <1>3 DEF Powers
<1>5. ASSUME NEW n \in Nat PROVE Powers[n + 1] = (Root * Powers[n]) % Prime
  <2>1. Powers[n + 1] = PowerStep[<<n, Powers[n]>>]
    BY <1>4 DEF Unfolds
  <2>2. Powers[n] \in Int
    BY <1>4
  <2>3. PowerStep[<<n, Powers[n]>>] = (Root * Powers[n]) % Prime
    BY <2>2 DEF PowerStep
  <2> QED
    BY <2>1, <2>3
<1> QED
  BY <1>4, <1>5 DEF Unfolds

LEMMA TwiddleIs ==
  \A n \in Points : Twiddle[n] = Powers[n]
<1> DEFINE Step(t) == [n \in Points |-> IF n = 0 THEN 1 ELSE (Root * t[n - 1]) % Prime]
           g == [n \in Points |-> Powers[n]]
           t == CHOOSE t : t = Step(t)
<1>1. PICK size \in Nat \ {0} : size = FftSize /\ Points = 0..(size - 1)
  <2>1. Bits \in 0..Bits
    BY TransformSize
  <2> QED
    BY <2>1, ShiftedIs DEF FftSize, Points
<1>2. ASSUME NEW n \in Points, n # 0
      PROVE  n - 1 \in Points /\ n - 1 \in Nat /\ (n - 1) + 1 = n
  BY <1>1, <1>2
<1>3. g = Step(g)
  <2>1. ASSUME NEW n \in Points PROVE g[n] = Step(g)[n]
    <3>1. CASE n = 0
      BY <3>1, PowersAre
    <3>2. CASE n # 0
      <4>1. Powers[n] = (Root * Powers[n - 1]) % Prime
        BY <1>2, <3>2, PowersAre
      <4> QED
        BY <1>2, <3>2, <4>1
    <3> QED
      BY <3>1, <3>2
  <2> QED
    BY <2>1
<1>4. t = Step(t)
  <2> HIDE DEF g
  <2> QED
    BY <1>3
<1>5. Twiddle = t
  BY DEF Twiddle
<1> HIDE DEF t, g
<1>6. t[0] = 1 /\ \A n \in Points : n # 0 => t[n] = (Root * t[n - 1]) % Prime
  <2>1. 0 \in Points
    BY <1>1
  <2>2. t[0] = 1
    BY <1>4, <2>1
  <2>3. ASSUME NEW n \in Points, n # 0 PROVE t[n] = (Root * t[n - 1]) % Prime
    BY <1>4, <2>3
  <2> QED
    BY <2>2, <2>3
<1> DEFINE S == {n \in Nat : n \in Points => t[n] = Powers[n]}
<1>7. 0 \in S
  BY <1>6, PowersAre
<1>8. ASSUME NEW n \in Nat, n \in S PROVE n + 1 \in S
  <2> SUFFICES ASSUME n + 1 \in Points PROVE t[n + 1] = Powers[n + 1]
    OBVIOUS
  <2>1. n \in Points /\ n + 1 # 0 /\ (n + 1) - 1 = n
    BY <1>1
  <2>2. t[n] = Powers[n]
    BY <1>8, <2>1
  <2>3. t[n + 1] = (Root * t[n]) % Prime
    BY <1>6, <2>1
  <2>4. Powers[n + 1] = (Root * Powers[n]) % Prime
    BY PowersAre
  <2> QED
    BY <2>2, <2>3, <2>4
<1>9. Nat \subseteq S
  <2> HIDE DEF S
  <2> QED
    BY <1>7, <1>8, SetInduction
<1>10. ASSUME NEW n \in Points PROVE Twiddle[n] = Powers[n]
  <2>1. n \in Nat
    BY <1>1
  <2>2. n \in S
    BY <1>9, <2>1
  <2> QED
    BY <1>5, <2>2
<1> QED
  BY <1>10

(* Exponents add. *)
LEMMA PowersMultiply ==
  ASSUME NEW m \in Nat, NEW n \in Nat
  PROVE  Same(Powers[m + n], Powers[m] * Powers[n])
<1> DEFINE S == {i \in Nat : Same(Powers[m + i], Powers[m] * Powers[i])}
<1>1. Prime \in Nat \ {0} /\ Root \in Int
  BY TwiddleAtHalf
<1>2. ASSUME NEW i \in Nat PROVE Powers[i] \in Int
  BY PowersAre
<1>3. 0 \in S
  <2>1. PICK x \in Int : x = Powers[m]
    BY <1>2
  <2>2. m + 0 = m /\ x * 1 = x
    OBVIOUS
  <2>3. Same(x, x)
    BY <1>1, SameBasics
  <2> QED
    BY <2>1, <2>2, <2>3, PowersAre
<1>4. ASSUME NEW i \in Nat, i \in S PROVE i + 1 \in S
  <2>1. PICK x \in Int, y \in Int, z \in Int :
          x = Powers[m] /\ y = Powers[i] /\ z = Powers[m + i]
    BY <1>2
  <2>2. Same(z, x * y) /\ x * y \in Int
    BY <1>4, <2>1
  <2>3. Same(Root * z, Root * (x * y))
    BY <1>1, <2>2, SameBasics, SameArithmetic
  <2>4. PICK p \in Int, q \in Int : p = Root * z /\ q = Root * y
    BY <1>1
  <2>5. Same(p % Prime, p) /\ Same(q % Prime, q) /\ p % Prime \in Int /\ q % Prime \in Int
    BY <1>1, Residue
  <2>6. Same(x * (q % Prime), x * q)
    BY <1>1, <2>5, SameBasics, SameArithmetic
  <2>7. Root * (x * y) = x * q
    BY <1>1, <2>4
  <2>8. Same(p, x * q)
    BY <2>3, <2>4, <2>7
  <2>9. PICK v \in Int, w \in Int : v = x * q /\ w = x * (q % Prime)
    BY <2>5
  <2>10. Same(p % Prime, w)
    BY <1>1, <2>5, <2>6, <2>8, <2>9, SameBasics
  <2>11. (m + i) + 1 = m + (i + 1) /\ m + i \in Nat
    OBVIOUS
  <2>12. Powers[m + (i + 1)] = p % Prime /\ Powers[i + 1] = q % Prime
    BY <2>1, <2>4, <2>11, PowersAre
  <2>13. Same(Powers[m + (i + 1)], Powers[m] * Powers[i + 1])
    BY <2>1, <2>9, <2>10, <2>12
  <2> QED
    BY <2>13
<1>5. Nat \subseteq S
  <2> HIDE DEF S
  <2> QED
    BY <1>3, <1>4, SetInduction
<1>6. n \in S
  BY <1>5
<1> QED
  BY <1>6

LEMMA Sizes ==
  \E half \in Nat \ {0} : /\ half = Shifted[Bits - 1] /\ FftSize = half + half
                          /\ Points = 0..(half + half - 1)
<1>1. Bits - 1 \in 0..(Bits - 1) /\ Bits - 1 \in 0..Bits /\ (Bits - 1) + 1 = Bits
  BY TransformSize
<1>2. PICK half \in Nat \ {0} : half = Shifted[Bits - 1]
  BY <1>1, ShiftedIs
<1>3. FftSize = 2 * half
  BY <1>1, <1>2, ShiftedIs DEF FftSize
<1> QED
  BY <1>2, <1>3 DEF Points

(* Half a turn negates, a turn changes nothing. *)
LEMMA Turns ==
  /\ Same(Powers[Shifted[Bits - 1]], -1)
  /\ \A n \in Nat : Same(Powers[n * FftSize], 1)
<1>1. PICK half \in Nat \ {0} : /\ half = Shifted[Bits - 1] /\ FftSize = half + half
                                /\ Points = 0..(half + half - 1)
  BY Sizes
<1>2. Prime \in Nat \ {0}
  BY TwiddleAtHalf
<1>3. PICK x \in Int : x = Powers[half]
  BY PowersAre
<1>4. Same(x, -1)
  <2>1. half \in Points
    BY <1>1
  <2>2. PICK k \in Int : x = k * Prime - 1
    BY <1>1, <1>3, <2>1, TwiddleIs, TwiddleAtHalf
  <2>3. k * Prime - 1 = -1 + k * Prime
    <3>1. PICK y \in Int : y = k * Prime
      BY <1>2
    <3> QED
      BY <3>1
  <2> QED
    BY <2>2, <2>3 DEF Same
<1>0. FftSize \in Nat /\ half \in Nat
  BY <1>1
<1>5. PICK y \in Int : y = Powers[FftSize]
  BY <1>0, PowersAre
<1>6. Same(y, 1)
  <2>1. Same(y, x * x)
    BY <1>1, <1>3, <1>5, PowersMultiply
  <2>2. Same(x * x, (-1) * (-1))
    BY <1>2, <1>4, SameArithmetic
  <2>3. (-1) * (-1) = 1 /\ x * x \in Int
    OBVIOUS
  <2> QED
    BY <1>2, <2>1, <2>2, <2>3, SameBasics
<1> DEFINE S == {n \in Nat : Same(Powers[n * FftSize], 1)}
<1>7. 0 \in S
  <2>1. 0 * FftSize = 0
    BY <1>1
  <2> QED
    BY <1>2, <2>1, PowersAre, SameBasics
<1>8. ASSUME NEW n \in Nat, n \in S PROVE n + 1 \in S
  <2>1. PICK m \in Nat : m = n * FftSize /\ (n + 1) * FftSize = m + FftSize
    <3>1. PICK f \in Nat : f = FftSize
      BY <1>1
    <3>2. n * f \in Nat /\ (n + 1) * f = n * f + f
      OBVIOUS
    <3> QED
      BY <3>1, <3>2
  <2>2. PICK z \in Int, v \in Int : z = Powers[m] /\ v = Powers[m + FftSize]
    <3>1. m + FftSize \in Nat
      BY <1>0
    <3> QED
      BY <3>1, PowersAre
  <2>3. Same(z, 1)
    BY <1>8, <2>1, <2>2
  <2>4. Same(v, z * y)
    BY <1>0, <1>5, <2>2, PowersMultiply
  <2>5. Same(z * y, 1 * 1)
    BY <1>2, <1>6, <2>3, SameArithmetic
  <2>6. Same(v, 1)
    <3>1. 1 * 1 = 1 /\ z * y \in Int
      OBVIOUS
    <3> QED
      BY <1>2, <2>4, <2>5, <3>1, SameBasics
  <2> QED
    BY <2>1, <2>2, <2>6
<1>9. Nat \subseteq S
  <2> HIDE DEF S
  <2> QED
    BY <1>7, <1>8, SetInduction
<1> QED
  BY <1>1, <1>3, <1>4, <1>9

LEMMA TwiddleAround ==
  ASSUME NEW x \in Nat
  PROVE  x % FftSize \in Points /\ Same(Twiddle[x % FftSize], Powers[x])
<1>1. PICK size \in Nat \ {0} : size = FftSize /\ Points = 0..(size - 1)
  BY Sizes
<1>2. Prime \in Nat \ {0}
  BY TwiddleAtHalf
<1>3. PICK n \in Int, r \in Int : n = x \div size /\ r = x % size
                                  /\ 0 <= r /\ r < size /\ x = n * size + r
  BY Division
<1>4. r \in Points /\ r \in Nat
  BY <1>1, <1>3
<1>5. n \in Nat
  BY <1>3
<1>6. PICK m \in Nat : m = n * size
  BY <1>5
<1>7. PICK u \in Int, v \in Int, w \in Int : u = Powers[m] /\ v = Powers[r] /\ w = Powers[x]
  BY <1>4, <1>6, PowersAre
<1>8. Same(u, 1)
  BY <1>1, <1>5, <1>6, <1>7, Turns
<1>9. Same(w, u * v)
  BY <1>3, <1>4, <1>6, <1>7, PowersMultiply
<1>10. Same(u * v, 1 * v)
  BY <1>2, <1>8, SameBasics, SameArithmetic
<1>11. Same(v, w)
  <2>1. 1 * v = v /\ u * v \in Int
    OBVIOUS
  <2> QED
    BY <1>2, <1>9, <1>10, <2>1, SameBasics
<1> QED
  BY <1>1, <1>3, <1>4, <1>7, <1>11, TwiddleIs

(* Blocks and the distance of their samples: together they make the size.   *)
LEMMA BlocksFill ==
  \A b \in 0..Bits : Shifted[b] * Shifted[Bits - b] = FftSize
<1> DEFINE S == {n \in Nat : n <= Bits => Shifted[n] * Shifted[Bits - n] = FftSize}
<1>1. Bits \in Nat /\ Bits \in 0..Bits /\ Bits - 0 = Bits
  BY TransformSize
<1>2. 0 \in S
  <2>1. PICK size \in Int : size = FftSize
    BY <1>1, ShiftedIs DEF FftSize
  <2>2. Shifted[0] * Shifted[Bits - 0] = 1 * size
    BY <1>1, <2>1, ShiftedIs DEF FftSize
  <2> QED
    BY <2>1, <2>2
<1>3. ASSUME NEW n \in Nat, n \in S PROVE n + 1 \in S
  <2> SUFFICES ASSUME n + 1 <= Bits PROVE Shifted[n + 1] * Shifted[Bits - (n + 1)] = FftSize
    OBVIOUS
  <2>1. PICK m \in 0..(Bits - 1) : m = Bits - (n + 1) /\ m + 1 = Bits - n
    BY <1>1
  <2>2. n \in 0..(Bits - 1) /\ n <= Bits /\ n \in 0..Bits /\ m \in 0..Bits
    BY <1>1, <2>1
  <2>3. PICK x \in Int, y \in Int : x = Shifted[n] /\ y = Shifted[m]
    BY <2>2, ShiftedIs
  <2>4. Shifted[n + 1] = 2 * x /\ Shifted[Bits - n] = 2 * y
    BY <2>1, <2>2, <2>3, ShiftedIs
  <2>5. x * (2 * y) = FftSize
    BY <1>3, <2>2, <2>3, <2>4
  <2>6. (2 * x) * y = x * (2 * y)
    OBVIOUS
  <2> QED
    BY <2>1, <2>3, <2>4, <2>5, <2>6
<1>4. Nat \subseteq S
  <2> HIDE DEF S
  <2> QED
    BY <1>2, <1>3, SetInduction
<1>5. ASSUME NEW b \in 0..Bits PROVE Shifted[b] * Shifted[Bits - b] = FftSize
  <2>1. b \in S /\ b <= Bits
    BY <1>1, <1>4
  <2> QED
    BY <2>1
<1> QED
  BY <1>5

LEMMA ShiftedBounded ==
  ASSUME NEW b \in 0..Bits
  PROVE  Shifted[b] <= FftSize /\ \A i \in 0..(Shifted[b] - 1) : i \in Points
<1>1. PICK x \in Nat \ {0}, y \in Nat \ {0} : x = Shifted[b] /\ y = Shifted[Bits - b]
  <2>1. Bits - b \in 0..Bits
    BY TransformSize
  <2> QED
    BY <2>1, ShiftedIs
<1>2. x * y = FftSize
  BY <1>1, BlocksFill
<1>3. x <= x * y /\ x * y \in Int
  <2>1. PICK z \in Nat : y = z + 1
    <3>1. y - 1 \in Nat /\ y = (y - 1) + 1
      OBVIOUS
    <3> QED
      BY <3>1
  <2>2. x * (z + 1) = x * z + x
    OBVIOUS
  <2>3. x * z >= 0 /\ x * z \in Int
    OBVIOUS
  <2> QED
    BY <2>1, <2>2, <2>3
<1> QED
  BY <1>1, <1>2, <1>3 DEF Points

LEMMA ReversedIs ==
  /\ \A b \in 0..Bits : Reversed[b] \in [Points -> Int]
  /\ \A i \in Points : Reversed[0][i] = 0
  /\ \A b \in 0..(Bits - 1) : \A i \in Points :
       Reversed[b + 1][i] = (i % 2) * Shifted[b] + Reversed[b][i \div 2]
<1> DEFINE V == [Points -> Int]
           Weight(n) == IF n \in 0..Bits THEN Shifted[n] ELSE 0
           step == [x \in Nat \X V |-> [i \in Points |-> (i % 2) * Weight(x[1]) + x[2][i \div 2]]]
           zero == [i \in Points |-> 0]
           Step(r) == [b \in 0..Bits |->
                        [i \in Points |-> IF b = 0 THEN 0
                                          ELSE (i % 2) * Shifted[b - 1] + r[b - 1][i \div 2]]]
           r == CHOOSE r : r = Step(r)
<1>1. Bits \in Nat
  BY TransformSize
<1>2. ASSUME NEW i \in Points PROVE i \div 2 \in Points /\ i % 2 \in {0, 1}
  <2>1. PICK half \in Nat \ {0} : Points = 0..(half + half - 1)
    BY Sizes
  <2> QED
    BY <2>1
<1>3. zero \in V
  OBVIOUS
<1>4. step \in [Nat \X V -> V]
  <2>1. ASSUME NEW n \in Nat, NEW v \in V, NEW i \in Points
        PROVE  (i % 2) * Weight(n) + v[i \div 2] \in Int
    <3>1. PICK x \in Int, y \in Int : x = Weight(n) /\ y = v[i \div 2]
      BY <1>2, ShiftedIs
    <3> HIDE DEF Weight
    <3>2. CASE i % 2 = 0
      BY <3>1, <3>2
    <3>3. CASE i % 2 = 1
      BY <3>1, <3>3
    <3> QED
      BY <1>2, <3>2, <3>3
  <2> HIDE DEF Weight
  <2>2. ASSUME NEW x \in Nat \X V
        PROVE  [i \in Points |-> (i % 2) * Weight(x[1]) + x[2][i \div 2]] \in V
    <3>1. x[1] \in Nat /\ x[2] \in V
      OBVIOUS
    <3>2. ASSUME NEW i \in Points PROVE (i % 2) * Weight(x[1]) + x[2][i \div 2] \in Int
      BY <2>1, <3>1
    <3> QED
      BY <3>2
  <2> HIDE DEF V
  <2> QED
    BY <2>2
<1>5. PICK f \in [Nat -> V] : Unfolds(f, zero, step)
  <2> HIDE DEF V, zero, step
  <2> QED
    BY <1>3, <1>4, Recursion
<1> DEFINE g == [b \in 0..Bits |-> f[b]]
<1>6. ASSUME NEW b \in 0..Bits PROVE g[b] = Step(g)[b]
  <2>1. CASE b = 0
    <3>1. g[b] = zero
      BY <1>1, <1>5, <2>1 DEF Unfolds
    <3>2. Step(g)[b] = zero
      BY <2>1
    <3> QED
      BY <3>1, <3>2
  <2>2. CASE b # 0
    <3>1. PICK n \in Nat : n = b - 1 /\ n + 1 = b /\ n \in 0..Bits
      BY <1>1, <2>2
    <3>2. f[n + 1] = step[<<n, f[n]>>]
      BY <1>5 DEF Unfolds
    <3>3. f[n] \in V
      OBVIOUS
    <3>4. step[<<n, f[n]>>] = [i \in Points |-> (i % 2) * Weight(n) + f[n][i \div 2]]
      BY <3>3
    <3>5. Weight(n) = Shifted[n] /\ g[n] = f[n] /\ g[b] = f[n + 1]
      BY <3>1
    <3>6. Step(g)[b] = [i \in Points |-> (i % 2) * Shifted[n] + g[n][i \div 2]]
      BY <2>2, <3>1
    <3> HIDE DEF g, Step, step, Weight
    <3> QED
      BY <3>2, <3>4, <3>5, <3>6
  <2> QED
    BY <2>1, <2>2
<1>7. g = Step(g)
  <2>1. Step(g) = [b \in 0..Bits |-> Step(g)[b]]
    OBVIOUS
  <2>2. g = [b \in 0..Bits |-> g[b]]
    OBVIOUS
  <2> HIDE DEF g, Step
  <2> QED
    BY <1>6, <2>1, <2>2
<1>8. r = Step(r)
  <2> HIDE DEF g
  <2> QED
    BY <1>7
<1>9. Reversed = r
  BY DEF Reversed
<1> HIDE DEF r, g, step, zero
<1>10. ASSUME NEW i \in Points PROVE r[0][i] = 0
  <2>1. r[0] = Step(r)[0]
    BY <1>8
  <2>2. Step(r)[0][i] = 0
    BY <1>1
  <2> HIDE DEF Step
  <2> QED
    BY <2>1, <2>2
<1>11. ASSUME NEW b \in 0..(Bits - 1), NEW i \in Points
       PROVE  r[b + 1][i] = (i % 2) * Shifted[b] + r[b][i \div 2]
  <2>1. r[b + 1] = Step(r)[b + 1]
    BY <1>8
  <2>2. b + 1 \in 0..Bits /\ b + 1 # 0 /\ (b + 1) - 1 = b
    BY <1>1
  <2>3. Step(r)[b + 1][i] = (i % 2) * Shifted[b] + r[b][i \div 2]
    BY <2>2
  <2> HIDE DEF Step
  <2> QED
    BY <2>1, <2>3
<1> DEFINE S == {n \in Nat : n <= Bits => r[n] \in V}
<1>12. 0 \in S
  <2>1. r[0] = Step(r)[0]
    BY <1>8
  <2>2. Step(r)[0] \in V
    BY <1>1
  <2> HIDE DEF Step
  <2> QED
    BY <2>1, <2>2
<1>13. ASSUME NEW n \in Nat, n \in S PROVE n + 1 \in S
  <2> SUFFICES ASSUME n + 1 <= Bits PROVE r[n + 1] \in V
    OBVIOUS
  <2>1. n \in 0..(Bits - 1) /\ n <= Bits /\ n + 1 \in 0..Bits
    BY <1>1
  <2>2. r[n] \in V
    BY <1>13, <2>1
  <2>3. <<n, r[n]>> \in Nat \X V /\ Weight(n) = Shifted[n]
    BY <1>1, <2>2
  <2>4. r[n + 1] = Step(r)[n + 1]
    BY <1>8
  <2>5. Step(r)[n + 1] = [i \in Points |-> (i % 2) * Shifted[n] + r[n][i \div 2]]
    BY <2>1
  <2>6. step[<<n, r[n]>>] = [i \in Points |-> (i % 2) * Weight(n) + r[n][i \div 2]]
    BY <2>3 DEF step
  <2>7. step[<<n, r[n]>>] \in V
    BY <1>4, <2>3
  <2> HIDE DEF Step, V, Weight
  <2> QED
    BY <2>3, <2>4, <2>5, <2>6, <2>7
<1>14. Nat \subseteq S
  <2> HIDE DEF S
  <2> QED
    BY <1>12, <1>13, SetInduction
<1>15. ASSUME NEW b \in 0..Bits PROVE r[b] \in V
  <2>1. b \in S /\ b <= Bits
    BY <1>1, <1>14
  <2> QED
    BY <2>1
<1> QED
  BY <1>9, <1>10, <1>11, <1>15

LEMMA ReversedStep ==
  ASSUME NEW b \in 0..(Bits - 1), NEW i \in 0..(Shifted[b + 1] - 1)
  PROVE  /\ i \in Points /\ i \div 2 \in 0..(Shifted[b] - 1)
         /\ Reversed[b + 1][i] =
              IF i % 2 = 0 THEN Reversed[b][i \div 2] ELSE Shifted[b] + Reversed[b][i \div 2]
         /\ Reversed[b][i \div 2] \in Int
<1>1. b + 1 \in 0..Bits /\ b \in 0..Bits
  BY TransformSize
<1>2. i \in Points
  BY <1>1, ShiftedBounded
<1>3. PICK m \in Nat \ {0} : m = Shifted[b] /\ Shifted[b + 1] = 2 * m
  BY <1>1, ShiftedIs
<1>4. i \div 2 \in 0..(Shifted[b] - 1)
  BY <1>3
<1>5. i \div 2 \in Points
  BY <1>1, <1>4, ShiftedBounded
<1>6. PICK v \in Int : v = Reversed[b][i \div 2]
  <2>1. Reversed[b] \in [Points -> Int]
    BY <1>1, ReversedIs
  <2> QED
    BY <1>5, <2>1
<1>7. Reversed[b + 1][i] = (i % 2) * m + v
  BY <1>2, <1>3, <1>6, ReversedIs
<1>8. CASE i % 2 = 0
  BY <1>2, <1>3, <1>4, <1>6, <1>7, <1>8
<1>9. CASE i % 2 # 0
  <2>1. i % 2 = 1
    BY <1>9
  <2> QED
    BY <1>2, <1>3, <1>4, <1>6, <1>7, <2>1
<1> QED
  BY <1>8, <1>9

LEMMA ReversedBelow ==
  \A b \in 0..Bits : \A i \in 0..(Shifted[b] - 1) : Reversed[b][i] \in 0..(Shifted[b] - 1)
<1> DEFINE S == {n \in Nat : n <= Bits => \A i \in 0..(Shifted[n] - 1) :
                                Reversed[n][i] \in 0..(Shifted[n] - 1)}
<1>1. Bits \in Nat
  BY TransformSize
<1>2. 0 \in S
  <2>1. Shifted[0] = 1 /\ 0 \in 0..Bits
    BY <1>1, ShiftedIs
  <2>2. 0 \in Points
    BY <2>1, ShiftedBounded
  <2>3. Reversed[0][0] = 0
    BY <2>2, ReversedIs
  <2> QED
    BY <2>1, <2>3
<1>3. ASSUME NEW n \in Nat, n \in S PROVE n + 1 \in S
  <2> SUFFICES ASSUME n + 1 <= Bits, NEW i \in 0..(Shifted[n + 1] - 1)
               PROVE  Reversed[n + 1][i] \in 0..(Shifted[n + 1] - 1)
    OBVIOUS
  <2>1. n \in 0..(Bits - 1) /\ n <= Bits /\ n \in 0..Bits
    BY <1>1
  <2>2. PICK m \in Nat \ {0} : m = Shifted[n] /\ Shifted[n + 1] = 2 * m
    BY <2>1, ShiftedIs
  <2>3. i \div 2 \in 0..(m - 1)
    BY <2>1, <2>2, ReversedStep
  <2>4. PICK v \in 0..(m - 1) : v = Reversed[n][i \div 2]
    BY <1>3, <2>1, <2>2, <2>3
  <2>5. Reversed[n + 1][i] = v \/ Reversed[n + 1][i] = m + v
    BY <2>1, <2>2, <2>4, ReversedStep
  <2> QED
    BY <2>2, <2>5
<1>4. Nat \subseteq S
  <2> HIDE DEF S
  <2> QED
    BY <1>2, <1>3, SetInduction
<1>5. ASSUME NEW b \in 0..Bits
      PROVE  \A i \in 0..(Shifted[b] - 1) : Reversed[b][i] \in 0..(Shifted[b] - 1)
  <2>1. b \in S /\ b <= Bits
    BY <1>1, <1>4
  <2> QED
    BY <2>1
<1> QED
  BY <1>5

(* The highest bit of an index becomes the lowest. *)
LEMMA HighBit ==
  \A b \in 0..(Bits - 1) : \A y \in 0..(Shifted[b] - 1) :
    /\ Reversed[b + 1][y] = 2 * Reversed[b][y]
    /\ Reversed[b + 1][Shifted[b] + y] = 2 * Reversed[b][y] + 1
<1> DEFINE Holds(n) == \A y \in 0..(Shifted[n] - 1) :
             /\ Reversed[n + 1][y] = 2 * Reversed[n][y]
             /\ Reversed[n + 1][Shifted[n] + y] = 2 * Reversed[n][y] + 1
           S == {n \in Nat : n + 1 <= Bits => Holds(n)}
<1>1. Bits \in Nat \ {0}
  BY TransformSize
<1>2. 0 \in S
  <2>1. 0 \in 0..(Bits - 1) /\ 0 \in 0..Bits /\ 0 + 1 \in 0..Bits
    BY <1>1
  <2>2. Shifted[0] = 1 /\ Shifted[0 + 1] = 2
    BY <2>1, ShiftedIs
  <2>3. 0 \in Points
    BY <2>1, <2>2, ShiftedBounded
  <2>4. Reversed[0][0] = 0
    BY <2>3, ReversedIs
  <2>5. Reversed[0 + 1][0] = 0 /\ Reversed[0 + 1][1] = 1
    <3>1. 0 \in 0..(Shifted[0 + 1] - 1) /\ 1 \in 0..(Shifted[0 + 1] - 1)
      BY <2>2
    <3>2. 0 % 2 = 0 /\ 0 \div 2 = 0 /\ 1 % 2 = 1 /\ 1 \div 2 = 0
      OBVIOUS
    <3>3. Reversed[0 + 1][0] = IF 0 % 2 = 0 THEN Reversed[0][0 \div 2]
                               ELSE Shifted[0] + Reversed[0][0 \div 2]
      BY <2>1, <3>1, ReversedStep
    <3>4. Reversed[0 + 1][1] = IF 1 % 2 = 0 THEN Reversed[0][1 \div 2]
                               ELSE Shifted[0] + Reversed[0][1 \div 2]
      BY <2>1, <3>1, ReversedStep
    <3> QED
      BY <2>2, <2>4, <3>2, <3>3, <3>4
  <2>6. ASSUME NEW y \in 0..(Shifted[0] - 1)
        PROVE  /\ Reversed[0 + 1][y] = 2 * Reversed[0][y]
               /\ Reversed[0 + 1][Shifted[0] + y] = 2 * Reversed[0][y] + 1
    <3>1. y = 0
      BY <2>2
    <3> QED
      BY <2>2, <2>4, <2>5, <3>1
  <2> QED
    BY <2>6
<1>3. ASSUME NEW n \in Nat, n \in S PROVE n + 1 \in S
  <2> SUFFICES ASSUME (n + 1) + 1 <= Bits PROVE Holds(n + 1)
    OBVIOUS
  <2>1. /\ n \in 0..(Bits - 1) /\ n + 1 \in 0..(Bits - 1) /\ n \in 0..Bits
        /\ n + 1 \in 0..Bits /\ (n + 1) + 1 \in 0..Bits
    BY <1>1
  <2>2. PICK m \in Nat \ {0} : /\ m = Shifted[n] /\ Shifted[n + 1] = 2 * m
                               /\ Shifted[(n + 1) + 1] = 2 * (2 * m)
    BY <2>1, ShiftedIs
  <2>3. Holds(n)
    BY <1>3, <2>1
  <2>4. ASSUME NEW y \in 0..(2 * m - 1)
        PROVE  /\ Reversed[(n + 1) + 1][y] = 2 * Reversed[n + 1][y]
               /\ Reversed[(n + 1) + 1][2 * m + y] = 2 * Reversed[n + 1][y] + 1
    <3>1. PICK h \in 0..(m - 1) : h = y \div 2
      BY <2>2
    <3>2. /\ (2 * m + y) \div 2 = m + h /\ (2 * m + y) % 2 = y % 2
          /\ 2 * m + y \in 0..(2 * (2 * m) - 1) /\ y \in 0..(2 * (2 * m) - 1)
      BY <2>2, <3>1
    <3>3. PICK v \in Int : v = Reversed[n][h]
      <4>1. h \in 0..(Shifted[n] - 1) /\ n \in 0..Bits
        BY <2>1, <2>2, <3>1
      <4>2. Reversed[n][h] \in 0..(Shifted[n] - 1)
        BY <4>1, ReversedBelow, Zenon
      <4>3. Shifted[n] \in Int
        BY <2>2
      <4> QED
        BY <4>2, <4>3
    <3>4. Reversed[n + 1][h] = 2 * v /\ Reversed[n + 1][m + h] = 2 * v + 1
      BY <2>2, <2>3, <3>1, <3>3
    <3>5. Reversed[n + 1][y] = IF y % 2 = 0 THEN v ELSE m + v
      BY <2>1, <2>2, <3>1, <3>3, ReversedStep
    <3>6. Reversed[(n + 1) + 1][y] = IF y % 2 = 0 THEN 2 * v ELSE 2 * m + 2 * v
      BY <2>1, <2>2, <3>1, <3>2, <3>4, ReversedStep
    <3>7. Reversed[(n + 1) + 1][2 * m + y]
            = IF y % 2 = 0 THEN 2 * v + 1 ELSE 2 * m + (2 * v + 1)
      <4>1. PICK z \in 0..(2 * (2 * m) - 1) : z = 2 * m + y
        BY <3>2
      <4>2. z \div 2 = m + h /\ z % 2 = y % 2
        BY <3>2, <4>1
      <4>3. Reversed[(n + 1) + 1][z] = IF z % 2 = 0 THEN Reversed[n + 1][z \div 2]
                                       ELSE Shifted[n + 1] + Reversed[n + 1][z \div 2]
        BY <2>1, <2>2, ReversedStep
      <4> QED
        BY <2>2, <3>4, <4>1, <4>2, <4>3, Zenon
    <3>8. CASE y % 2 = 0
      BY <2>2, <3>3, <3>5, <3>6, <3>7, <3>8
    <3>9. CASE y % 2 # 0
      BY <2>2, <3>3, <3>5, <3>6, <3>7, <3>9
    <3> QED
      BY <3>8, <3>9
  <2> QED
    BY <2>2, <2>4
<1>4. Nat \subseteq S
  <2> HIDE DEF S
  <2> QED
    BY <1>2, <1>3, SetInduction
<1>5. ASSUME NEW b \in 0..(Bits - 1) PROVE Holds(b)
  <2>1. b \in S /\ b + 1 <= Bits
    BY <1>1, <1>4
  <2> HIDE DEF Holds
  <2> QED
    BY <2>1
<1> QED
  BY <1>5

(* Reversing twice changes nothing: every place gets one sample. *)
LEMMA ReversedTwice ==
  \A b \in 0..Bits : \A i \in 0..(Shifted[b] - 1) : Reversed[b][Reversed[b][i]] = i
<1> DEFINE S == {n \in Nat : n <= Bits => \A i \in 0..(Shifted[n] - 1) :
                                Reversed[n][Reversed[n][i]] = i}
<1>1. Bits \in Nat
  BY TransformSize
<1>2. 0 \in S
  <2>1. Shifted[0] = 1 /\ 0 \in 0..Bits
    BY <1>1, ShiftedIs
  <2>2. 0 \in Points
    BY <2>1, ShiftedBounded
  <2>3. Reversed[0][0] = 0
    BY <2>2, ReversedIs
  <2> QED
    BY <2>1, <2>3
<1>3. ASSUME NEW n \in Nat, n \in S PROVE n + 1 \in S
  <2> SUFFICES ASSUME n + 1 <= Bits, NEW i \in 0..(Shifted[n + 1] - 1)
               PROVE  Reversed[n + 1][Reversed[n + 1][i]] = i
    OBVIOUS
  <2>1. n \in 0..(Bits - 1) /\ n <= Bits /\ n \in 0..Bits
    BY <1>1
  <2>2. PICK m \in Nat \ {0} : m = Shifted[n] /\ Shifted[n + 1] = 2 * m
    BY <2>1, ShiftedIs
  <2>3. PICK h \in 0..(m - 1) : h = i \div 2
    BY <2>1, <2>2, ReversedStep
  <2>4. PICK v \in 0..(m - 1) : v = Reversed[n][h]
    BY <2>1, <2>2, ReversedBelow
  <2>5. Reversed[n][v] = h
    BY <1>3, <2>1, <2>2, <2>4
  <2>6. Reversed[n + 1][v] = 2 * h /\ Reversed[n + 1][m + v] = 2 * h + 1
    BY <2>1, <2>2, <2>5, HighBit
  <2>7. Reversed[n + 1][i] = IF i % 2 = 0 THEN v ELSE m + v
    BY <2>1, <2>2, <2>3, <2>4, ReversedStep
  <2>8. CASE i % 2 = 0
    <3>1. i = 2 * h
      BY <2>2, <2>3, <2>8
    <3> QED
      BY <2>6, <2>7, <2>8, <3>1
  <2>9. CASE i % 2 # 0
    <3>1. i = 2 * h + 1
      BY <2>2, <2>3, <2>9
    <3> QED
      BY <2>6, <2>7, <2>9, <3>1
  <2> QED
    BY <2>8, <2>9
<1>4. Nat \subseteq S
  <2> HIDE DEF S
  <2> QED
    BY <1>2, <1>3, SetInduction
<1>5. ASSUME NEW b \in 0..Bits
      PROVE  \A i \in 0..(Shifted[b] - 1) : Reversed[b][Reversed[b][i]] = i
  <2>1. b \in S /\ b <= Bits
    BY <1>1, <1>4
  <2> QED
    BY <2>1
<1> QED
  BY <1>5

LEMMA CopiedIs ==
  ASSUME NEW input, NEW k \in Points
  PROVE  Reversed[Bits][k] \in Points /\ Copied(input)[k] = input[Reversed[Bits][k]]
<1>1. Bits \in 0..Bits /\ Points = 0..(Shifted[Bits] - 1)
  BY TransformSize DEF Points, FftSize
<1>2. /\ \A i \in Points : Reversed[Bits][i] \in Points
      /\ \A i \in Points : Reversed[Bits][Reversed[Bits][i]] = i
  BY <1>1, ReversedBelow, ReversedTwice
<1> DEFINE From(i) == i \in Points /\ Reversed[Bits][i] = k
<1>3. From(Reversed[Bits][k])
  BY <1>2
<1>4. ASSUME NEW i, From(i) PROVE i = Reversed[Bits][k]
  BY <1>2, <1>4
<1>5. (CHOOSE i \in Points : Reversed[Bits][i] = k) = Reversed[Bits][k]
  BY <1>3, <1>4
<1> QED
  BY <1>2, <1>3, <1>5 DEF Copied

(* v is the sum of x[0], ..., x[n - 1], as a residue: by its partial sums.  *)
Adds(s, x, n) == s[0] = 0 /\ \A i \in 0..(n - 1) : Same(s[i + 1], s[i] + x[i])
SumsTo(v, x, n) == \E s \in [0..n -> Int] : Adds(s, x, n) /\ Same(v, s[n])

LEMMA SumsSame ==
  ASSUME Prime \in Nat \ {0}, NEW n \in Nat, NEW x, NEW u \in Int, NEW v \in Int,
         Same(u, v), SumsTo(v, x, n)
  PROVE  SumsTo(u, x, n)
<1>1. PICK s \in [0..n -> Int] : Adds(s, x, n) /\ Same(v, s[n])
  BY DEF SumsTo
<1>2. s[n] \in Int
  OBVIOUS
<1>3. Same(u, s[n])
  BY <1>1, <1>2, SameBasics
<1> QED
  BY <1>1, <1>3 DEF SumsTo

(* The even and the odd samples have sums; all of them have the sum of      *)
(* those, the odd ones turned.                                              *)
LEMMA Merge ==
  ASSUME Prime \in Nat \ {0}, NEW m \in Nat, NEW x \in [Nat -> Int], NEW y \in [Nat -> Int],
         NEW z \in [Nat -> Int], NEW a \in Int, NEW c \in Int, NEW t \in Int,
         SumsTo(a, x, m), SumsTo(c, y, m),
         \A i \in 0..(m - 1) : Same(z[2 * i], x[i]) /\ Same(z[2 * i + 1], t * y[i])
  PROVE  SumsTo(a + t * c, z, m + m)
<1>1. PICK s \in [0..m -> Int] : Adds(s, x, m) /\ Same(a, s[m])
  BY DEF SumsTo
<1>2. PICK p \in [0..m -> Int] : Adds(p, y, m) /\ Same(c, p[m])
  BY DEF SumsTo
<1> DEFINE w == [n \in 0..(m + m) |-> s[(n + 1) \div 2] + t * p[n \div 2]]
<1>3. w \in [0..(m + m) -> Int]
  <2>1. ASSUME NEW n \in 0..(m + m) PROVE s[(n + 1) \div 2] + t * p[n \div 2] \in Int
    <3>1. (n + 1) \div 2 \in 0..m /\ n \div 2 \in 0..m
      OBVIOUS
    <3>2. PICK f \in Int, g \in Int : f = s[(n + 1) \div 2] /\ g = p[n \div 2]
      BY <3>1
    <3>3. f + t * g \in Int
      OBVIOUS
    <3> QED
      BY <3>2, <3>3
  <2> QED
    BY <2>1
<1>4. ASSUME NEW i \in 0..m PROVE w[2 * i] = s[i] + t * p[i]
  <2>1. 2 * i \in 0..(m + m) /\ (2 * i + 1) \div 2 = i /\ (2 * i) \div 2 = i
    OBVIOUS
  <2> QED
    BY <2>1
<1>5. ASSUME NEW i \in 0..(m - 1) PROVE w[2 * i + 1] = s[i + 1] + t * p[i]
  <2>1. 2 * i + 1 \in 0..(m + m) /\ ((2 * i + 1) + 1) \div 2 = i + 1 /\ (2 * i + 1) \div 2 = i
    OBVIOUS
  <2> QED
    BY <2>1
<1> HIDE DEF w
<1>6. ASSUME NEW i \in 0..(m - 1)
      PROVE  /\ Same(w[2 * i + 1], w[2 * i] + z[2 * i])
             /\ Same(w[2 * i + 2], w[2 * i + 1] + z[2 * i + 1])
  <2>1. i \in 0..m /\ i + 1 \in 0..m /\ i \in Nat /\ 2 * i \in Nat /\ 2 * i + 1 \in Nat
        /\ 2 * (i + 1) = 2 * i + 2
    OBVIOUS
  <2>2. PICK s0 \in Int, s1 \in Int, p0 \in Int, p1 \in Int :
          s0 = s[i] /\ s1 = s[i + 1] /\ p0 = p[i] /\ p1 = p[i + 1]
    BY <2>1
  <2>3. PICK x0 \in Int, y0 \in Int, z0 \in Int, z1 \in Int :
          x0 = x[i] /\ y0 = y[i] /\ z0 = z[2 * i] /\ z1 = z[2 * i + 1]
    BY <2>1
  <2>4. w[2 * i] = s0 + t * p0 /\ w[2 * i + 1] = s1 + t * p0 /\ w[2 * i + 2] = s1 + t * p1
    BY <1>4, <1>5, <2>1, <2>2
  <2>5. Same(s1, s0 + x0) /\ Same(p1, p0 + y0)
    BY <1>1, <1>2, <2>2, <2>3 DEF Adds
  <2>6. Same(z0, x0) /\ Same(z1, t * y0)
    BY <2>3
  <2>7. PICK f \in Int, g \in Int, h \in Int : f = t * p0 /\ g = t * p1 /\ h = t * y0
    OBVIOUS
  <2>8. Same(s1 + f, s0 + f + z0)
    <3>1. Same(s0 + x0, s1) /\ Same(x0, z0)
      BY <2>5, <2>6, SameBasics
    <3>2. Same(s0 + x0, s0 + z0)
      BY <3>1, SameBasics, SameArithmetic
    <3>3. Same(s1, s0 + z0)
      BY <2>5, <3>2, SameBasics
    <3>4. Same(s1 + f, (s0 + z0) + f)
      <4>1. Same(f, f) /\ s0 + z0 \in Int
        BY SameBasics
      <4> QED
        BY <3>3, <4>1, SameArithmetic
    <3>5. (s0 + z0) + f = s0 + f + z0
      OBVIOUS
    <3> QED
      BY <3>4, <3>5
  <2>9. Same(s1 + g, s1 + f + z1)
    <3>1. Same(g, t * (p0 + y0))
      <4>1. Same(t, t) /\ p0 + y0 \in Int
        BY SameBasics
      <4>2. Same(t * p1, t * (p0 + y0))
        BY <2>5, <4>1, SameArithmetic
      <4> QED
        BY <2>7, <4>2
    <3>2. t * (p0 + y0) = f + h
      BY <2>7
    <3>3. Same(h, z1)
      BY <2>6, <2>7, SameBasics
    <3>4. Same(f + h, f + z1)
      BY <3>3, SameBasics, SameArithmetic
    <3>5. Same(g, f + z1)
      <4>1. PICK e \in Int, e2 \in Int : e = f + h /\ e2 = f + z1
        OBVIOUS
      <4>2. Same(g, e) /\ Same(e, e2)
        BY <3>1, <3>2, <3>4, <4>1
      <4> QED
        BY <4>1, <4>2, SameBasics
    <3>6. Same(s1 + g, s1 + (f + z1))
      <4>1. Same(s1, s1) /\ f + z1 \in Int
        BY SameBasics
      <4> QED
        BY <3>5, <4>1, SameArithmetic
    <3>7. s1 + (f + z1) = s1 + f + z1
      OBVIOUS
    <3> QED
      BY <3>6, <3>7
  <2> QED
    BY <2>3, <2>4, <2>7, <2>8, <2>9
<1>7. Adds(w, z, m + m)
  <2>1. w[0] = 0
    <3>1. w[2 * 0] = s[0] + t * p[0] /\ 2 * 0 = 0
      BY <1>4
    <3>2. s[0] = 0 /\ p[0] = 0 /\ t * 0 = 0
      BY <1>1, <1>2 DEF Adds
    <3> QED
      BY <3>1, <3>2
  <2>2. ASSUME NEW n \in 0..(m + m - 1) PROVE Same(w[n + 1], w[n] + z[n])
    <3>1. PICK i \in 0..(m - 1) : n = 2 * i \/ n = 2 * i + 1
      <4>1. n \div 2 \in 0..(m - 1) /\ (n = 2 * (n \div 2) \/ n = 2 * (n \div 2) + 1)
        OBVIOUS
      <4> QED
        BY <4>1
    <3>2. (2 * i + 1) + 1 = 2 * i + 2
      OBVIOUS
    <3> QED
      BY <1>6, <3>1, <3>2
  <2> QED
    BY <2>1, <2>2 DEF Adds
<1>8. Same(a + t * c, w[m + m])
  <2>1. PICK sm \in Int, pm \in Int : sm = s[m] /\ pm = p[m]
    OBVIOUS
  <2>2. w[m + m] = sm + t * pm
    <3>1. m \in 0..m /\ 2 * m = m + m
      OBVIOUS
    <3> QED
      BY <1>4, <2>1, <3>1
  <2>3. Same(t * c, t * pm)
    BY <1>2, <2>1, SameBasics, SameArithmetic
  <2>4. PICK f \in Int, g \in Int : f = t * c /\ g = t * pm
    OBVIOUS
  <2>5. Same(a + f, sm + g)
    BY <1>1, <2>1, <2>3, <2>4, SameArithmetic
  <2> QED
    BY <2>2, <2>4, <2>5
<1> QED
  BY <1>3, <1>7, <1>8 DEF SumsTo

(* The Fourier sum at frequency k of every h-th sample, from the r-th on.   *)
Terms(d, r, h, k) == [i \in Nat |-> d[r + i * h] * Powers[(i * k) * h]]

LEMMA TermsAreInt ==
  ASSUME NEW d \in [Nat -> Int], NEW r \in Nat, NEW h \in Nat, NEW k \in Nat
  PROVE  Terms(d, r, h, k) \in [Nat -> Int]
<1>1. ASSUME NEW i \in Nat PROVE d[r + i * h] * Powers[(i * k) * h] \in Int
  <2>1. i * h \in Nat /\ (i * k) * h \in Nat
    <3>1. PICK j \in Nat : j = i * k
      OBVIOUS
    <3>2. i * h \in Nat /\ j * h \in Nat
      OBVIOUS
    <3> QED
      BY <3>1, <3>2
  <2>2. PICK x \in Nat, y \in Nat : x = r + i * h /\ y = (i * k) * h
    BY <2>1
  <2>3. PICK f \in Int, g \in Int : f = d[x] /\ g = Powers[y]
    BY PowersAre
  <2>4. f * g \in Int
    OBVIOUS
  <2> QED
    BY <2>2, <2>3, <2>4
<1> QED
  BY <1>1 DEF Terms

LEMMA Places ==
  ASSUME NEW r \in Nat, NEW h \in Nat, NEW k \in Nat, NEW m \in Nat, NEW i \in Nat
  PROVE  /\ r + (2 * i) * h = r + i * (2 * h)
         /\ r + (2 * i + 1) * h = (h + r) + i * (2 * h)
         /\ ((2 * i) * k) * h = (i * k) * (2 * h)
         /\ ((2 * i + 1) * k) * h = (i * k) * (2 * h) + k * h
         /\ ((2 * i) * (k + m)) * h = (i * k) * (2 * h) + i * (m * h + m * h)
         /\ ((2 * i + 1) * (k + m)) * h
              = ((i * k) * (2 * h) + k * h) + (i * (m * h + m * h) + m * h)
  OBVIOUS

(* What one turn of the loop does to a pair of sums.  Half of the size is m *)
(* times h.                                                                 *)
LEMMA Butterfly ==
  ASSUME NEW d \in [Nat -> Int], NEW r \in Nat, NEW h \in Nat, NEW k \in Nat, NEW m \in Nat,
         m * h = Shifted[Bits - 1], NEW a \in Int, NEW c \in Int, NEW t \in Int,
         Same(t, Powers[k * h]),
         SumsTo(a, Terms(d, r, 2 * h, k), m), SumsTo(c, Terms(d, h + r, 2 * h, k), m)
  PROVE  /\ SumsTo(a + t * c, Terms(d, r, h, k), m + m)
         /\ SumsTo(a + (-t) * c, Terms(d, r, h, k + m), m + m)
<1> DEFINE x == Terms(d, r, 2 * h, k)
           y == Terms(d, h + r, 2 * h, k)
           z == Terms(d, r, h, k)
           z2 == Terms(d, r, h, k + m)
<1>1. Prime \in Nat \ {0}
  BY TwiddleAtHalf
<1>2. /\ x \in [Nat -> Int] /\ y \in [Nat -> Int] /\ z \in [Nat -> Int] /\ z2 \in [Nat -> Int]
  <2>1. 2 * h \in Nat /\ h + r \in Nat /\ k + m \in Nat
    OBVIOUS
  <2> QED
    BY <2>1, TermsAreInt
<1>3. PICK half \in Nat, size \in Nat : half = m * h /\ size = half + half
                                        /\ half = Shifted[Bits - 1] /\ size = FftSize
  <2>1. PICK half \in Nat : half = Shifted[Bits - 1] /\ FftSize = half + half
    BY Sizes
  <2>2. half = m * h
    BY <2>1, Zenon
  <2>3. PICK size \in Nat : size = half + half
    OBVIOUS
  <2> QED
    BY <2>1, <2>2, <2>3, Zenon
<1>4. PICK e \in Nat : e = k * h
  OBVIOUS
<1>5. ASSUME NEW i \in 0..(m - 1)
      PROVE  /\ Same(z[2 * i], x[i]) /\ Same(z[2 * i + 1], t * y[i])
             /\ Same(z2[2 * i], x[i]) /\ Same(z2[2 * i + 1], (-t) * y[i])
  <2>1. i \in Nat /\ 2 * i \in Nat /\ 2 * i + 1 \in Nat /\ 2 * h \in Nat
    OBVIOUS
  <2>2. PICK j \in Nat, n \in Nat : j = (i * k) * (2 * h) /\ n = i * size
    <3>1. PICK u \in Nat : u = i * k
      BY <2>1
    <3>2. u * (2 * h) \in Nat /\ i * size \in Nat
      BY <2>1
    <3> QED
      BY <3>1, <3>2
  <2>3. PICK p \in Nat, q \in Nat : p = r + i * (2 * h) /\ q = (h + r) + i * (2 * h)
    BY <2>1
  <2>4. /\ r + (2 * i) * h = p /\ r + (2 * i + 1) * h = q
        /\ ((2 * i) * k) * h = j /\ ((2 * i + 1) * k) * h = j + e
        /\ ((2 * i) * (k + m)) * h = j + n
        /\ ((2 * i + 1) * (k + m)) * h = (j + e) + (n + half)
    <3>1. i * (m * h + m * h) = n
      BY <1>3, <2>2
    <3>2. /\ r + (2 * i) * h = r + i * (2 * h)
          /\ r + (2 * i + 1) * h = (h + r) + i * (2 * h)
          /\ ((2 * i) * k) * h = (i * k) * (2 * h)
          /\ ((2 * i + 1) * k) * h = (i * k) * (2 * h) + k * h
          /\ ((2 * i) * (k + m)) * h = (i * k) * (2 * h) + i * (m * h + m * h)
          /\ ((2 * i + 1) * (k + m)) * h
               = ((i * k) * (2 * h) + k * h) + (i * (m * h + m * h) + m * h)
      BY <2>1, Places
    <3> QED
      BY <1>3, <1>4, <2>2, <2>3, <3>1, <3>2, Zenon
  <2>5. /\ x[i] = d[p] * Powers[j] /\ y[i] = d[q] * Powers[j]
        /\ z[2 * i] = d[p] * Powers[j] /\ z[2 * i + 1] = d[q] * Powers[j + e]
        /\ z2[2 * i] = d[p] * Powers[j + n]
        /\ z2[2 * i + 1] = d[q] * Powers[(j + e) + (n + half)]
    <3>1. x[i] = d[r + i * (2 * h)] * Powers[(i * k) * (2 * h)]
      BY <2>1 DEF Terms
    <3>2. y[i] = d[(h + r) + i * (2 * h)] * Powers[(i * k) * (2 * h)]
      BY <2>1 DEF Terms
    <3>3. /\ z[2 * i] = d[r + (2 * i) * h] * Powers[((2 * i) * k) * h]
          /\ z[2 * i + 1] = d[r + (2 * i + 1) * h] * Powers[((2 * i + 1) * k) * h]
      BY <2>1 DEF Terms
    <3>4. /\ z2[2 * i] = d[r + (2 * i) * h] * Powers[((2 * i) * (k + m)) * h]
          /\ z2[2 * i + 1] = d[r + (2 * i + 1) * h] * Powers[((2 * i + 1) * (k + m)) * h]
      BY <2>1 DEF Terms
    <3> HIDE DEF x, y, z, z2
    <3> QED
      BY <2>2, <2>3, <2>4, <3>1, <3>2, <3>3, <3>4, Zenon
  <2> HIDE DEF x, y, z, z2
  <2>6. PICK f \in Int, g \in Int : f = d[p] /\ g = d[q]
    OBVIOUS
  <2>7. j + e \in Nat /\ n + half \in Nat
    OBVIOUS
  <2>8. PICK pj \in Int, pe \in Int, pn \in Int, ph \in Int :
          pj = Powers[j] /\ pe = Powers[e] /\ pn = Powers[n] /\ ph = Powers[half]
    BY PowersAre
  <2>9. PICK pje \in Int, pjn \in Int, pnh \in Int, pall \in Int :
          /\ pje = Powers[j + e] /\ pjn = Powers[j + n] /\ pnh = Powers[n + half]
          /\ pall = Powers[(j + e) + (n + half)]
    <3>1. (j + e) + (n + half) \in Nat /\ j + n \in Nat
      BY <2>7
    <3> QED
      BY <2>7, <3>1, PowersAre
  <2>10. /\ Same(pje, pj * pe) /\ Same(pjn, pj * pn) /\ Same(pnh, pn * ph)
         /\ Same(pall, pje * pnh)
    BY <2>7, <2>8, <2>9, PowersMultiply
  <2>11. Same(pn, 1) /\ Same(ph, -1)
    BY <1>3, <2>1, <2>2, <2>8, Turns
  <2>12. Same(pe, t)
    BY <1>1, <1>4, <2>8, SameBasics
  <2>13. Same(pje, pj * t)
    <3>1. Same(pj * pe, pj * t)
      BY <1>1, <2>12, SameBasics, SameArithmetic
    <3>2. pj * pe \in Int /\ pj * t \in Int
      OBVIOUS
    <3> QED
      BY <1>1, <2>10, <3>1, <3>2, SameBasics
  <2>14. Same(pjn, pj)
    <3>1. Same(pj * pn, pj * 1)
      BY <1>1, <2>11, SameBasics, SameArithmetic
    <3>2. pj * 1 = pj /\ pj * pn \in Int
      OBVIOUS
    <3> QED
      BY <1>1, <2>10, <3>1, <3>2, SameBasics
  <2>15. Same(pnh, -1)
    <3>1. Same(pn * ph, 1 * (-1))
      BY <1>1, <2>11, SameArithmetic
    <3>2. 1 * (-1) = -1 /\ pn * ph \in Int
      OBVIOUS
    <3> QED
      BY <1>1, <2>10, <3>1, <3>2, SameBasics
  <2>16. Same(pall, (pj * t) * (-1))
    <3>1. PICK v \in Int : v = pj * t
      OBVIOUS
    <3>2. Same(pje * pnh, v * (-1))
      BY <1>1, <2>13, <2>15, <3>1, SameArithmetic
    <3>3. pje * pnh \in Int /\ v * (-1) \in Int
      OBVIOUS
    <3> QED
      BY <1>1, <2>10, <3>1, <3>2, <3>3, SameBasics
  <2>17. /\ g * (pj * t) = t * (g * pj) /\ g * ((pj * t) * (-1)) = (-t) * (g * pj)
         /\ f * pj \in Int /\ pj * t \in Int /\ (pj * t) * (-1) \in Int
    OBVIOUS
  <2>18. Same(f, f) /\ Same(g, g) /\ Same(f * pj, f * pj)
    BY <1>1, <2>17, SameBasics
  <2>19. Same(g * pje, g * (pj * t))
    BY <1>1, <2>13, <2>17, <2>18, SameArithmetic
  <2>20. Same(f * pjn, f * pj)
    BY <1>1, <2>14, <2>18, SameArithmetic
  <2>21. Same(g * pall, g * ((pj * t) * (-1)))
    BY <1>1, <2>16, <2>17, <2>18, SameArithmetic
  <2>22. /\ z[2 * i] = f * pj /\ x[i] = f * pj /\ z[2 * i + 1] = g * pje /\ y[i] = g * pj
         /\ z2[2 * i] = f * pjn /\ z2[2 * i + 1] = g * pall
    BY <2>5, <2>6, <2>8, <2>9, Zenon
  <2> QED
    BY <2>17, <2>18, <2>19, <2>20, <2>21, <2>22, Zenon
<1>6. SumsTo(a, x, m) /\ SumsTo(c, y, m)
  OBVIOUS
<1> HIDE DEF x, y, z, z2
<1>7. SumsTo(a + t * c, z, m + m)
  <2>1. \A i \in 0..(m - 1) : Same(z[2 * i], x[i]) /\ Same(z[2 * i + 1], t * y[i])
    BY <1>5
  <2> QED
    BY <1>1, <1>2, <1>6, <2>1, Merge
<1>8. SumsTo(a + (-t) * c, z2, m + m)
  <2>1. PICK n \in Int : n = -t
    OBVIOUS
  <2>2. \A i \in 0..(m - 1) : Same(z2[2 * i], x[i]) /\ Same(z2[2 * i + 1], n * y[i])
    BY <1>5, <2>1
  <2>3. SumsTo(a + n * c, z2, m + m)
    BY <1>1, <1>2, <1>6, <2>2, Merge
  <2> QED
    BY <2>1, <2>3
<1> QED
  BY <1>7, <1>8 DEF z, z2

LEMMA TotalOfSums ==
  ASSUME Prime \in Nat \ {0}, NEW n \in Nat, NEW x, NEW y \in [0..(n - 1) -> Int],
         NEW v \in Int, SumsTo(v, x, n), \A i \in 0..(n - 1) : x[i] \in Int /\ Same(x[i], y[i])
  PROVE  Total(y, n) \in Int /\ Same(v, Total(y, n))
<1> DEFINE At(i) == IF i \in 0..(n - 1) THEN y[i] ELSE 0
           step == [u \in Nat \X Int |-> u[2] + At(u[1])]
<1>1. step \in [Nat \X Int -> Int]
  <2>1. ASSUME NEW i \in Nat PROVE At(i) \in Int
    OBVIOUS
  <2>2. ASSUME NEW u \in Nat \X Int PROVE u[2] + At(u[1]) \in Int
    <3>1. u[1] \in Nat /\ u[2] \in Int
      OBVIOUS
    <3> HIDE DEF At
    <3>2. At(u[1]) \in Int
      BY <2>1, <3>1
    <3> QED
      BY <3>1, <3>2
  <2> HIDE DEF At
  <2> QED
    BY <2>2
<1>2. PICK f \in [Nat -> Int] : Unfolds(f, 0, step)
  <2>1. 0 \in Int
    OBVIOUS
  <2> HIDE DEF step
  <2> QED
    BY <1>1, <2>1, Recursion
<1>3. f[0] = 0 /\ \A i \in 0..(n - 1) : f[i + 1] = f[i] + y[i]
  <2>1. ASSUME NEW i \in 0..(n - 1) PROVE f[i + 1] = f[i] + y[i]
    <3>1. i \in Nat /\ f[i + 1] = step[<<i, f[i]>>]
      <4> HIDE DEF step
      <4>1. i \in Nat
        OBVIOUS
      <4> QED
        BY <1>2, <4>1 DEF Unfolds
    <3>2. step[<<i, f[i]>>] = f[i] + At(i)
      BY <3>1
    <3>3. At(i) = y[i]
      OBVIOUS
    <3> HIDE DEF step, At
    <3> QED
      BY <3>1, <3>2, <3>3
  <2> QED
    BY <1>2, <2>1 DEF Unfolds
<1> DEFINE g == [i \in 0..n |-> f[i]]
<1>4. g \in [0..n -> Int] /\ g[0] = 0 /\ \A i \in 0..(n - 1) : g[i + 1] = g[i] + y[i]
  <2>1. ASSUME NEW i \in 0..(n - 1) PROVE g[i + 1] = g[i] + y[i]
    <3>1. i \in 0..n /\ i + 1 \in 0..n
      OBVIOUS
    <3> QED
      BY <1>3, <3>1
  <2> QED
    BY <1>3, <2>1
<1> HIDE DEF g, step, At
<1>5. Total(y, n) = g[n]
  BY <1>4, TotalIs
<1>6. PICK s \in [0..n -> Int] : Adds(s, x, n) /\ Same(v, s[n])
  BY DEF SumsTo
<1> DEFINE S == {i \in Nat : i <= n => Same(s[i], g[i])}
<1>7. 0 \in S
  <2>1. Same(0, 0)
    BY SameBasics
  <2> QED
    BY <1>4, <1>6, <2>1 DEF Adds
<1>8. ASSUME NEW i \in Nat, i \in S PROVE i + 1 \in S
  <2> SUFFICES ASSUME i + 1 <= n PROVE Same(s[i + 1], g[i + 1])
    OBVIOUS
  <2>1. i \in 0..(n - 1) /\ i \in 0..n /\ i + 1 \in 0..n /\ i <= n
    OBVIOUS
  <2>2. PICK s0 \in Int, s1 \in Int, g0 \in Int, x0 \in Int, y0 \in Int :
          s0 = s[i] /\ s1 = s[i + 1] /\ g0 = g[i] /\ x0 = x[i] /\ y0 = y[i]
    BY <1>4, <2>1
  <2>3. Same(s0, g0) /\ Same(x0, y0)
    BY <1>8, <2>1, <2>2
  <2>4. Same(s1, s0 + x0)
    BY <1>6, <2>1, <2>2 DEF Adds
  <2>5. g[i + 1] = g0 + y0
    BY <1>4, <2>1, <2>2
  <2>6. Same(s0 + x0, g0 + y0)
    BY <2>3, SameArithmetic
  <2>7. s0 + x0 \in Int /\ g0 + y0 \in Int
    OBVIOUS
  <2>8. Same(s1, g0 + y0)
    BY <2>4, <2>6, <2>7, SameBasics
  <2> QED
    BY <2>2, <2>5, <2>8
<1>9. Nat \subseteq S
  <2> HIDE DEF S
  <2> QED
    BY <1>7, <1>8, SetInduction
<1>10. Same(s[n], g[n])
  <2>1. n \in S
    BY <1>9
  <2> QED
    BY <2>1
<1>11. g[n] \in Int /\ s[n] \in Int
  BY <1>4
<1> QED
  BY <1>5, <1>6, <1>10, <1>11, SameBasics

(* The buffer, as if it went on. *)
Held == [i \in Nat |-> IF i \in Points THEN data[i] ELSE 0]

(* After b turns of the loop there are blocks of Shifted[b] points, and     *)
(* block q holds the transform of every Shifted[Bits - b]-th sample, from   *)
(* the one whose number is q reversed.                                      *)
Blocks(b) ==
  \A q \in 0..(Shifted[Bits - b] - 1) : \A k \in 0..(Shifted[b] - 1) :
    SumsTo(work[q * Shifted[b] + k],
           Terms(Held, Reversed[Bits - b][q], Shifted[Bits - b], k), Shifted[b])

FftInv ==
  /\ data \in [Points -> Int] /\ work \in [Points -> Int]
  /\ length # 2 => \A k \in Points : work[k] % Prime = work[k]
  /\ \E b \in 0..Bits : length = 2 * Shifted[b] /\ Blocks(b)

LEMMA HeldIs == data \in [Points -> Int] => Held \in [Nat -> Int]
BY DEF Held

LEMMA OneTerm ==
  ASSUME NEW d \in [Nat -> Int], NEW r \in Nat, NEW h \in Nat
  PROVE  SumsTo(d[r], Terms(d, r, h, 0), 1)
<1> DEFINE x == Terms(d, r, h, 0)
<1>1. x[0] = d[r] * 1
  <2>1. x[0] = d[r + 0 * h] * Powers[(0 * 0) * h]
    BY DEF Terms
  <2>2. r + 0 * h = r /\ (0 * 0) * h = 0
    OBVIOUS
  <2> HIDE DEF x
  <2> QED
    BY <2>1, <2>2, PowersAre
<1>2. PICK v \in Int : v = d[r]
  OBVIOUS
<1>3. x[0] = v
  <2>1. v * 1 = v
    OBVIOUS
  <2> QED
    BY <1>1, <1>2, <2>1
<1> HIDE DEF x
<1> DEFINE s == [i \in 0..1 |-> IF i = 0 THEN 0 ELSE v]
<1>4. Same(v, v)
  BY SameBasics, TwiddleAtHalf
<1>5. s \in [0..1 -> Int] /\ s[0] = 0 /\ s[1] = v
  OBVIOUS
<1> HIDE DEF s
<1>6. ASSUME NEW i \in 0..(1 - 1) PROVE Same(s[i + 1], s[i] + x[i])
  <2>1. i = 0 /\ i + 1 = 1 /\ 0 + v = v
    OBVIOUS
  <2> QED
    BY <1>3, <1>4, <1>5, <2>1
<1>7. Adds(s, x, 1)
  BY <1>5, <1>6 DEF Adds
<1> QED
  BY <1>2, <1>4, <1>5, <1>7 DEF SumsTo, x

LEMMA NoTerms ==
  ASSUME NEW r \in Nat, NEW h \in Nat, NEW k \in Nat, NEW n \in Nat,
         NEW d \in [Nat -> Int], \A i \in Nat : d[i] = 0
  PROVE  SumsTo(0, Terms(d, r, h, k), n)
<1> DEFINE x == Terms(d, r, h, k)
           s == [i \in 0..n |-> 0]
<1>1. ASSUME NEW i \in Nat PROVE x[i] = 0
  <2>1. x[i] = d[r + i * h] * Powers[(i * k) * h]
    BY DEF Terms
  <2>2. PICK y \in Nat, z \in Nat : y = r + i * h /\ z = (i * k) * h
    <3>1. PICK j \in Nat : j = i * k
      OBVIOUS
    <3>2. i * h \in Nat /\ j * h \in Nat
      OBVIOUS
    <3> QED
      BY <3>1, <3>2
  <2>3. PICK p \in Int : p = Powers[z]
    BY PowersAre
  <2>4. 0 * p = 0
    OBVIOUS
  <2> HIDE DEF x
  <2> QED
    BY <2>1, <2>2, <2>3, <2>4
<1>2. Same(0, 0)
  BY SameBasics, TwiddleAtHalf
<1> HIDE DEF x
<1>3. s \in [0..n -> Int] /\ \A i \in 0..n : s[i] = 0
  OBVIOUS
<1> HIDE DEF s
<1>4. ASSUME NEW i \in 0..(n - 1) PROVE Same(s[i + 1], s[i] + x[i])
  <2>1. i \in 0..n /\ i + 1 \in 0..n /\ i \in Nat /\ 0 + 0 = 0
    OBVIOUS
  <2> QED
    BY <1>1, <1>2, <1>3, <2>1
<1>5. Adds(s, x, n)
  <2>1. 0 \in 0..n
    OBVIOUS
  <2> QED
    BY <1>3, <1>4, <2>1 DEF Adds
<1>6. s[n] = 0
  BY <1>3
<1> QED
  BY <1>2, <1>3, <1>5, <1>6 DEF SumsTo, x

LEMMA FftInitInv ==
  ASSUME FftInit
  PROVE  FftInv
<1>1. Bits \in 0..Bits /\ Bits - Bits = 0
  BY TransformSize
<1>2. PICK half \in Nat \ {0} : FftSize = half + half /\ Points = 0..(half + half - 1)
  BY Sizes
<1>3. /\ data \in [Points -> Int] /\ work \in [Points -> Int]
      /\ \A k \in Points : work[k] = 0 /\ data[k] = 0
      /\ length = 2 * Shifted[Bits]
  BY DEF FftInit, FftSize
<1>4. ASSUME NEW k \in Points PROVE work[k] % Prime = work[k]
  <2>1. Prime \in Nat \ {0}
    BY TwiddleAtHalf
  <2>2. 0 % Prime = 0
    BY <2>1
  <2> QED
    BY <1>3, <2>2
<1>5. Held \in [Nat -> Int] /\ \A i \in Nat : Held[i] = 0
  BY <1>3, HeldIs DEF Held
<1>6. Blocks(Bits)
  <2>1. Shifted[0] = 1 /\ Shifted[Bits] = FftSize /\ 0 \in 0..Bits
    BY <1>1, ShiftedIs, TransformSize DEF FftSize
  <2>2. ASSUME NEW q \in 0..(1 - 1), NEW k \in 0..(FftSize - 1)
        PROVE  SumsTo(work[q * FftSize + k], Terms(Held, Reversed[0][q], 1, k), FftSize)
    <3>1. q = 0 /\ k \in Points /\ k \in Nat /\ FftSize \in Nat /\ 0 \in Points
      BY <1>2
    <3>2. q * FftSize + k = k
      BY <3>1
    <3>3. Reversed[0][q] = 0
      BY <3>1, ReversedIs
    <3>4. SumsTo(0, Terms(Held, 0, 1, k), FftSize)
      <4>1. 0 \in Nat /\ 1 \in Nat
        OBVIOUS
      <4> QED
        BY <1>5, <3>1, <4>1, NoTerms
    <3> QED
      BY <1>3, <3>1, <3>2, <3>3, <3>4
  <2> QED
    BY <1>1, <2>1, <2>2 DEF Blocks
<1> QED
  BY <1>1, <1>3, <1>4, <1>6 DEF FftInv

LEMMA HearInv ==
  ASSUME FftInv,
         NEW n \in Reads, NEW samples \in [0..n - 1 -> Inputs], Hear(n, samples)
  PROVE  FftInv'
<1>1. Bits \in Nat \ {0} /\ 0 \in 0..Bits /\ Bits \in 0..Bits /\ Bits - 0 = Bits
  BY TransformSize
<1>2. PICK half \in Nat \ {0} : FftSize = half + half /\ Points = 0..(half + half - 1)
  BY Sizes
<1>3. data' \in [Points -> Int]
  <2>1. ASSUME NEW i \in Points PROVE (IF i < n THEN samples[i] ELSE data[i]) \in Int
    <3>1. CASE i < n
      <4>1. i \in 0..(n - 1) /\ Inputs \subseteq Int
        BY <1>2, <3>1, SampleValues
      <4> QED
        BY <3>1, <4>1
    <3>2. CASE ~(i < n)
      BY <3>2 DEF FftInv
    <3> QED
      BY <3>1, <3>2
  <2> QED
    BY <2>1 DEF Hear
<1>4. ASSUME NEW k \in Points
      PROVE  Reversed[Bits][k] \in Points /\ work'[k] = data'[Reversed[Bits][k]]
  <2>1. Reversed[Bits][k] \in Points /\ Copied(data')[k] = data'[Reversed[Bits][k]]
    BY CopiedIs
  <2>2. work' = Copied(data')
    BY DEF Hear
  <2> QED
    BY <2>1, <2>2
<1>5. work' \in [Points -> Int]
  <2>1. work' = [k \in Points |-> work'[k]]
    BY DEF Hear, Copied
  <2>2. ASSUME NEW k \in Points PROVE work'[k] \in Int
    BY <1>3, <1>4
  <2> HIDE DEF Points
  <2> QED
    BY <2>1, <2>2
<1>6. length' = 2 * Shifted[0]
  BY <1>1, ShiftedIs DEF Hear
<1>7. Held' \in [Nat -> Int] /\ \A i \in Points : Held'[i] = data'[i]
  <2>1. Points \subseteq Nat
    BY <1>2
  <2> QED
    BY <1>3, <2>1 DEF Held
<1>8. Blocks(0)'
  <2>1. Shifted[0] = 1 /\ Shifted[Bits] = FftSize
    BY <1>1, ShiftedIs DEF FftSize
  <2>2. ASSUME NEW q \in 0..(FftSize - 1), NEW k \in 0..(1 - 1)
        PROVE  SumsTo(work'[q * 1 + k], Terms(Held', Reversed[Bits][q], FftSize, k), 1)
    <3>1. k = 0 /\ q \in Points /\ q * 1 + k = q /\ FftSize \in Nat
      BY <1>2
    <3>2. PICK r \in Nat : r = Reversed[Bits][q] /\ r \in Points
      BY <1>2, <1>4, <3>1
    <3>3. work'[q] = Held'[r]
      BY <1>4, <1>7, <3>1, <3>2
    <3>4. SumsTo(Held'[r], Terms(Held', r, FftSize, 0), 1)
      BY <1>7, <3>1, OneTerm
    <3> QED
      BY <3>1, <3>2, <3>3, <3>4
  <2> QED
    BY <1>1, <2>1, <2>2 DEF Blocks
<1>9. length' = 2
  BY DEF Hear
<1> QED
  BY <1>1, <1>3, <1>5, <1>6, <1>8, <1>9 DEF FftInv

(* Where a pair of points is: j in the halves of block q.                   *)
LEMMA PairPlaces ==
  ASSUME NEW m \in Nat \ {0}, NEW q \in Nat, NEW j \in 0..(m - 1), NEW i \in Nat,
         i = q * (2 * m) + j
  PROVE  /\ i = (2 * q) * m + j /\ i + m = (2 * q + 1) * m + j
         /\ i % (2 * m) = j /\ (i + m) % (2 * m) = j + m /\ (i + m) % m = j
<1>1. i = q * (2 * m) + j
  OBVIOUS
<1>2. i = (2 * q) * m + j /\ i + m = (2 * q + 1) * m + j
  BY <1>1
<1>3. i + m = q * (2 * m) + (j + m)
  BY <1>1
<1>4. i % (2 * m) = j
  BY <1>1, RemainderOfTwice
<1>5. (i + m) % (2 * m) = j + m
  <2>1. PICK n \in Int, r \in Int, x \in Int :
          /\ r = j + m /\ x = i + m /\ n = q
          /\ 0 <= r /\ r < 2 * m /\ x = n * (2 * m) + r
    BY <1>3
  <2>2. x % (2 * m) = r
    BY <2>1, RemainderOfTwice, Zenon
  <2> QED
    BY <2>1, <2>2
<1>6. (i + m) % m = j
  <2>1. PICK n \in Int, r \in Int, x \in Int :
          n = 2 * q + 1 /\ x = i + m /\ r = j /\ 0 <= r /\ r < m /\ x = n * m + r
    BY <1>2
  <2>2. x % m = r
    BY <2>1, OneQuotient, Zenon
  <2> QED
    BY <2>1, <2>2
<1> QED
  BY <1>1, <1>2, <1>4, <1>5, <1>6

(* Every point is in one half of some block. *)
LEMMA PairsCover ==
  ASSUME NEW m \in Nat \ {0}, NEW h \in Nat \ {0}, NEW i \in 0..((2 * m) * h - 1)
  PROVE  \E q \in 0..(h - 1), j \in 0..(m - 1) :
           i = q * (2 * m) + j \/ i = q * (2 * m) + j + m
<1>1. PICK p \in Nat \ {0} : p = 2 * m
  OBVIOUS
<1>2. PICK q \in Int, r \in Int : q = i \div p /\ r = i % p /\ 0 <= r /\ r < p /\ i = q * p + r
  BY <1>1, Division
<1>3. q \in 0..(h - 1)
  <2>1. i < p * h /\ 0 <= i
    BY <1>1
  <2>2. q >= 0
    <3> SUFFICES ASSUME q <= -1 PROVE FALSE
      OBVIOUS
    <3>1. q * p <= (-1) * p
      OBVIOUS
    <3>2. PICK x \in Int : x = q * p /\ x <= -p
      BY <3>1
    <3> QED
      BY <1>2, <2>1, <3>2
  <2>3. q < h
    <3> SUFFICES ASSUME h <= q PROVE FALSE
      OBVIOUS
    <3>1. h * p <= q * p
      OBVIOUS
    <3>2. PICK x \in Int, y \in Int : x = q * p /\ y = p * h /\ y <= x
      BY <3>1
    <3> QED
      BY <1>2, <2>1, <3>2
  <2> QED
    BY <2>2, <2>3
<1>4. CASE r < m
  <2>1. r \in 0..(m - 1)
    BY <1>2, <1>4
  <2> QED
    BY <1>1, <1>2, <1>3, <2>1
<1>5. CASE ~(r < m)
  <2>1. PICK j \in 0..(m - 1) : r = j + m
    <3>1. r - m \in 0..(m - 1) /\ r = (r - m) + m
      BY <1>1, <1>2, <1>5
    <3> QED
      BY <3>1
  <2>2. i = q * (2 * m) + j + m
    <3>1. PICK x \in Int : x = q * (2 * m)
      OBVIOUS
    <3> QED
      BY <1>1, <1>2, <2>1, <3>1
  <2> QED
    BY <1>3, <2>1, <2>2
<1> QED
  BY <1>4, <1>5

LEMMA PairFits ==
  ASSUME NEW m \in Nat \ {0}, NEW h \in Nat \ {0}, NEW q \in 0..(h - 1), NEW j \in 0..(m - 1)
  PROVE  q * (2 * m) + j + m < (2 * m) * h
<1>1. (q + 1) * (2 * m) <= h * (2 * m)
  OBVIOUS
<1>2. (q + 1) * (2 * m) = q * (2 * m) + 2 * m /\ h * (2 * m) = (2 * m) * h
  OBVIOUS
<1>3. PICK x \in Int, y \in Int : x = q * (2 * m) /\ y = (2 * m) * h /\ x + 2 * m <= y
  BY <1>1, <1>2
<1>4. x + j + m < y
  BY <1>3
<1> QED
  BY <1>3, <1>4

LEMMA AngleFits ==
  ASSUME NEW m \in Nat \ {0}, NEW h \in Nat \ {0}, NEW j \in 0..(m - 1)
  PROVE  j * h \in Nat /\ j * h < m * h
<1>1. (j + 1) * h <= m * h
  OBVIOUS
<1>2. (j + 1) * h = j * h + h
  OBVIOUS
<1>3. PICK u \in Nat, v \in Int : u = j * h /\ v = m * h /\ u + h <= v
  BY <1>1, <1>2
<1> QED
  BY <1>3

LEMMA StageSizes ==
  ASSUME NEW b \in 0..(Bits - 1)
  PROVE  \E m, h \in Nat \ {0} :
           /\ m = Shifted[b] /\ h = Shifted[Bits - (b + 1)]
           /\ Shifted[b + 1] = 2 * m /\ Shifted[Bits - b] = 2 * h
           /\ (2 * m) * h = FftSize /\ m * h = Shifted[Bits - 1]
<1>1. PICK c \in 0..(Bits - 1) : c = Bits - (b + 1) /\ c + 1 = Bits - b
  BY TransformSize
<1>2. b \in 0..Bits /\ c \in 0..Bits /\ b + 1 \in 0..Bits
  BY TransformSize
<1>3. PICK m \in Nat \ {0}, h \in Nat \ {0} : m = Shifted[b] /\ h = Shifted[c]
  BY <1>2, ShiftedIs
<1>4. Shifted[b + 1] = 2 * m /\ Shifted[Bits - b] = 2 * h
  BY <1>1, <1>3, ShiftedIs
<1>5. (2 * m) * h = FftSize
  BY <1>1, <1>2, <1>3, <1>4, BlocksFill
<1>6. m * h = Shifted[Bits - 1]
  <2>1. PICK half \in Nat : half = Shifted[Bits - 1] /\ FftSize = half + half
    BY Sizes
  <2>2. PICK x \in Nat : x = m * h
    OBVIOUS
  <2>3. (2 * m) * h = x + x
    BY <2>2
  <2>4. x + x = half + half
    BY <1>5, <2>1, <2>3, Zenon
  <2>5. x = half
    BY <2>4
  <2> QED
    BY <2>1, <2>2, <2>5
<1> QED
  BY <1>1, <1>3, <1>4, <1>5, <1>6

(* The two places of a pair: where the code finds them in their blocks.     *)
Paired(i, m, j) == i % (2 * m) = j /\ (i + m) % (2 * m) = j + m /\ (i + m) % m = j
Placed(i, q, m, j) ==
  /\ i = q * (2 * m) + j /\ Paired(i, m, j)
  /\ i = (2 * q) * m + j /\ i + m = (2 * q + 1) * m + j

LEMMA PairAt ==
  ASSUME NEW m \in Nat \ {0}, NEW q \in Nat, NEW j \in 0..(m - 1)
  PROVE  \E i \in Nat : Placed(i, q, m, j)
<1>1. PICK i \in Nat : i = q * (2 * m) + j
  OBVIOUS
<1>2. i = (2 * q) * m + j
  BY <1>1, PairPlaces
<1>3. i + m = (2 * q + 1) * m + j
  BY <1>1, PairPlaces
<1>4. i % (2 * m) = j
  BY <1>1, PairPlaces
<1>5. (i + m) % (2 * m) = j + m
  <2>1. PICK e \in Int, g \in Int : e = i + m /\ g = j + m /\ 0 <= g /\ g < 2 * m /\ q \in Int
    OBVIOUS
  <2>2. e = q * (2 * m) + g
    BY <1>1, <2>1
  <2>3. e % (2 * m) = g
    BY <2>1, <2>2, RemainderOfTwice
  <2> QED
    BY <2>1, <2>3
<1>6. (i + m) % m = j
  BY <1>1, PairPlaces
<1> QED
  BY <1>1, <1>2, <1>3, <1>4, <1>5, <1>6, Zenon DEF Paired, Placed

(* The butterfly of two places, with the power of the root at e.            *)
Turned(i, m, e) ==
  \E a, c, t \in Int :
    /\ a = work[i] /\ c = work[i + m] /\ t = Powers[e]
    /\ work'[i] = (a + c * t) % Prime /\ work'[i + m] = (a - c * t) % Prime

LEMMA CombineAt ==
  ASSUME NEW m \in Nat \ {0}, NEW h \in Nat \ {0}, NEW j \in 0..(m - 1), NEW i \in Nat,
         FftInv, Combine, length = 2 * m,
         (2 * m) * h = FftSize, m * h = Shifted[Bits - 1], i + m < FftSize,
         Paired(i, m, j)
  PROVE  Turned(i, m, j * h)
<1>1. PICK size \in Nat \ {0} : size = FftSize /\ Points = 0..(size - 1)
  BY Sizes
<1>2. j * h \in Nat /\ j * h < m * h
  BY AngleFits
<1>3. i + m < size
  BY <1>1
<1>4. i \in Points /\ i + m \in Points
  <2>1. \A x \in Nat : x < size => x \in Points
    BY <1>1
  <2>2. i \in Nat /\ i + m \in Nat /\ i < size
    BY <1>3
  <2> QED
    BY <2>1, <2>2, <1>3, Zenon
<1>5. /\ i % (2 * m) = j /\ (i + m) % (2 * m) = j + m /\ (i + m) % m = j
  BY DEF Paired
<1>6. length = 2 * m /\ length \div 2 = m
  <2>1. (2 * m) \div 2 = m
    OBVIOUS
  <2> QED
    BY <2>1
<1>7. FftSize \div length = h
  <2>1. PICK p \in Nat \ {0} : p = 2 * m
    OBVIOUS
  <2>2. p * h = h * p + 0 /\ p * h \in Int /\ 0 < p /\ 0 <= 0 /\ 0 \in Int
    OBVIOUS
  <2>3. (p * h) \div p = h
    BY <2>2, OneQuotient
  <2> QED
    BY <1>6, <2>1, <2>3
<1>8. PICK e \in Nat : e = j * h /\ e \in Points
  <2>1. PICK half \in Nat : half = Shifted[Bits - 1] /\ FftSize = half + half
    BY Sizes
  <2>2. PICK e \in Nat : e = j * h
    BY <1>2
  <2>3. e < half
    BY <1>2, <2>1, <2>2, Zenon
  <2>4. e < size
    <3>1. size = half + half
      BY <1>1, <2>1, Zenon
    <3> QED
      BY <2>3, <3>1
  <2>5. e \in Points
    BY <1>1, <2>4
  <2> QED
    BY <2>2, <2>5
<1>9. PICK a \in Int, c \in Int, t \in Int : a = work[i] /\ c = work[i + m] /\ t = Powers[e]
  BY <1>4, PowersAre DEF FftInv
<1>10. Twiddle[e] = t
  BY <1>8, <1>9, TwiddleIs
<1> DEFINE Temp(k) == work[k] * Twiddle[(k % m) * h]
<1>11. work' = [k \in Points |-> IF k % (2 * m) < m THEN (work[k] + Temp(k + m)) % Prime
                                                    ELSE (work[k - m] - Temp(k)) % Prime]
  <2>1. work' = [k \in Points |->
                   IF k % length < length \div 2
                   THEN (work[k] + work[k + length \div 2]
                           * Twiddle[((k + length \div 2) % (length \div 2)) * (FftSize \div length)]) % Prime
                   ELSE (work[k - length \div 2] - work[k]
                           * Twiddle[(k % (length \div 2)) * (FftSize \div length)]) % Prime]
    BY DEF Combine
  <2> QED
    BY <1>6, <1>7, <2>1, Zenon
<1>12. Temp(i + m) = c * t
  BY <1>5, <1>8, <1>9, <1>10, Zenon
<1> HIDE DEF Temp
<1>13. work'[i] = (a + c * t) % Prime
  <2>1. work'[i] = IF i % (2 * m) < m THEN (work[i] + Temp(i + m)) % Prime
                                      ELSE (work[i - m] - Temp(i)) % Prime
    BY <1>4, <1>11, Zenon
  <2>2. j < m
    OBVIOUS
  <2>3. work'[i] = (work[i] + Temp(i + m)) % Prime
    BY <1>5, <2>1, <2>2, Zenon
  <2> QED
    BY <1>9, <1>12, <2>3, Zenon
<1>14. work'[i + m] = (a - c * t) % Prime
  <2>1. work'[i + m] = IF (i + m) % (2 * m) < m THEN (work[i + m] + Temp((i + m) + m)) % Prime
                                      ELSE (work[(i + m) - m] - Temp(i + m)) % Prime
    BY <1>4, <1>11, Zenon
  <2>2. ~(j + m < m) /\ (i + m) - m = i
    OBVIOUS
  <2>3. work'[i + m] = (work[i] - Temp(i + m)) % Prime
    BY <1>5, <2>1, <2>2, Zenon
  <2> QED
    BY <1>9, <1>12, <2>3, Zenon
<1>15. a = work[i] /\ c = work[i + m] /\ t = Powers[j * h]
  BY <1>8, <1>9, Zenon
<1> QED
  BY <1>13, <1>14, <1>15, Zenon DEF Turned

(* What the two blocks that a pair comes from hold at its frequency.        *)
Halves(r, q, j, m, h) ==
  /\ SumsTo(work[(2 * q) * m + j], Terms(Held, r, 2 * h, j), m)
  /\ SumsTo(work[(2 * q + 1) * m + j], Terms(Held, h + r, 2 * h, j), m)

LEMMA BlockPair ==
  ASSUME NEW b \in 0..(Bits - 1), NEW m \in Nat \ {0}, NEW h \in Nat \ {0},
         NEW q \in 0..(h - 1), NEW j \in 0..(m - 1), Blocks(b),
         m = Shifted[b], h = Shifted[Bits - (b + 1)], Shifted[Bits - b] = 2 * h
  PROVE  \E r \in Nat : r = Reversed[Bits - (b + 1)][q] /\ Halves(r, q, j, m, h)
<1>1. PICK c \in 0..(Bits - 1) : c = Bits - (b + 1) /\ c + 1 = Bits - b /\ c \in 0..Bits
  BY TransformSize
<1>2. h = Shifted[c] /\ Shifted[c + 1] = 2 * h
  BY <1>1
<1>3. PICK r \in Nat : r = Reversed[c][q]
  <2>1. q \in 0..(Shifted[c] - 1)
    BY <1>2
  <2>2. Reversed[c][q] \in 0..(Shifted[c] - 1)
    BY <1>1, <2>1, ReversedBelow
  <2> QED
    BY <1>2, <2>2
<1>4. Reversed[c + 1][2 * q] = r
  <2>1. 2 * q \in 0..(Shifted[c + 1] - 1)
    BY <1>2
  <2>2. Reversed[c + 1][2 * q]
          = IF (2 * q) % 2 = 0 THEN Reversed[c][(2 * q) \div 2]
            ELSE Shifted[c] + Reversed[c][(2 * q) \div 2]
    BY <2>1, ReversedStep
  <2>3. (2 * q) % 2 = 0 /\ (2 * q) \div 2 = q
    OBVIOUS
  <2> QED
    BY <1>3, <2>2, <2>3, Zenon
<1>5. Reversed[c + 1][2 * q + 1] = h + r
  <2>1. 2 * q + 1 \in 0..(Shifted[c + 1] - 1)
    BY <1>2
  <2>2. Reversed[c + 1][2 * q + 1]
          = IF (2 * q + 1) % 2 = 0 THEN Reversed[c][(2 * q + 1) \div 2]
            ELSE Shifted[c] + Reversed[c][(2 * q + 1) \div 2]
    BY <2>1, ReversedStep
  <2>3. (2 * q + 1) % 2 # 0 /\ (2 * q + 1) \div 2 = q
    OBVIOUS
  <2> QED
    BY <1>2, <1>3, <2>2, <2>3, Zenon
<1>6. \A p \in 0..(2 * h - 1) :
        SumsTo(work[p * m + j], Terms(Held, Reversed[c + 1][p], 2 * h, j), m)
  BY <1>1, <1>2, Zenon DEF Blocks
<1>7. 2 * q \in 0..(2 * h - 1) /\ 2 * q + 1 \in 0..(2 * h - 1)
  OBVIOUS
<1> QED
  BY <1>1, <1>3, <1>4, <1>5, <1>6, <1>7, Zenon DEF Halves

(* What a stage leaves at the two places of a pair.                         *)
Combined(i, r, j, m, h) ==
  /\ work'[i] \in Int /\ work'[i] % Prime = work'[i]
  /\ work'[i + m] \in Int /\ work'[i + m] % Prime = work'[i + m]
  /\ SumsTo(work'[i], Terms(Held, r, h, j), 2 * m)
  /\ SumsTo(work'[i + m], Terms(Held, r, h, j + m), 2 * m)

LEMMA CombinePair ==
  ASSUME NEW b \in 0..(Bits - 1), NEW m \in Nat \ {0}, NEW h \in Nat \ {0},
         NEW q \in 0..(h - 1), NEW j \in 0..(m - 1),
         FftInv, Combine, Blocks(b), length = 2 * m,
         m = Shifted[b], h = Shifted[Bits - (b + 1)], Shifted[Bits - b] = 2 * h,
         (2 * m) * h = FftSize, m * h = Shifted[Bits - 1]
  PROVE  \E i \in Nat : /\ i = q * (2 * m) + j
                        /\ Combined(i, Reversed[Bits - (b + 1)][q], j, m, h)
<1>1. PICK r \in Nat : r = Reversed[Bits - (b + 1)][q] /\ Halves(r, q, j, m, h)
  BY BlockPair
<1>2. q \in Nat /\ j \in Nat /\ m \in Nat /\ h \in Nat /\ q * (2 * m) + j \in Nat
  OBVIOUS
<1>3. PICK i \in Nat : Placed(i, q, m, j)
  BY <1>2, PairAt
<1>4. i = q * (2 * m) + j /\ i = (2 * q) * m + j /\ i + m = (2 * q + 1) * m + j
  BY <1>3, Zenon DEF Placed
<1>5. Paired(i, m, j)
  BY <1>3, Zenon DEF Placed
<1>6. i + m < FftSize
  BY <1>4, PairFits
<1>7. PICK a \in Int, c \in Int, t \in Int :
        /\ a = work[i] /\ c = work[i + m] /\ t = Powers[j * h]
        /\ work'[i] = (a + c * t) % Prime /\ work'[i + m] = (a - c * t) % Prime
  <2>1. Turned(i, m, j * h)
    BY <1>5, <1>6, CombineAt
  <2> QED
    BY <2>1, Zenon DEF Turned
<1>8. Held \in [Nat -> Int]
  BY HeldIs DEF FftInv
<1>9. Prime \in Nat \ {0}
  BY TwiddleAtHalf
<1>10. PICK u \in Int, v \in Int :
         /\ u = a + c * t /\ v = a - c * t /\ u = a + t * c /\ v = a + (-t) * c
  OBVIOUS
<1>11. Same(t, Powers[j * h])
  BY <1>7, <1>9, SameBasics, Zenon
<1>12. /\ SumsTo(a + t * c, Terms(Held, r, h, j), m + m)
       /\ SumsTo(a + (-t) * c, Terms(Held, r, h, j + m), m + m)
  <2>1. /\ SumsTo(a, Terms(Held, r, 2 * h, j), m)
        /\ SumsTo(c, Terms(Held, h + r, 2 * h, j), m)
    BY <1>1, <1>4, <1>7, Zenon DEF Halves
  <2> QED
    BY <1>2, <1>8, <1>11, <2>1, Butterfly, Zenon
<1>13. m + m = 2 * m /\ 2 * m \in Nat
  OBVIOUS
<1>14. \A k : \A w \in Int :
         SumsTo(w, Terms(Held, r, h, k), m + m) => SumsTo(w % Prime, Terms(Held, r, h, k), 2 * m)
  <2> TAKE k
  <2> TAKE w \in Int
  <2> HAVE SumsTo(w, Terms(Held, r, h, k), m + m)
  <2>1. w % Prime \in Int /\ Same(w % Prime, w)
    BY <1>9, Residue
  <2>2. SumsTo(w, Terms(Held, r, h, k), 2 * m)
    BY <1>13, Zenon
  <2> QED
    BY <1>9, <1>13, <2>1, <2>2, SumsSame, Zenon
<1>15. /\ work'[i] = u % Prime /\ work'[i + m] = v % Prime
  BY <1>7, <1>10, Zenon
<1>16. /\ u % Prime \in Int /\ (u % Prime) % Prime = u % Prime
       /\ v % Prime \in Int /\ (v % Prime) % Prime = v % Prime
  BY <1>9, Residue
<1>17. /\ SumsTo(u % Prime, Terms(Held, r, h, j), 2 * m)
       /\ SumsTo(v % Prime, Terms(Held, r, h, j + m), 2 * m)
  BY <1>10, <1>12, <1>14, Zenon
<1> QED
  BY <1>1, <1>4, <1>15, <1>16, <1>17, Zenon DEF Combined

(* A stage makes blocks twice as long out of pairs of blocks.               *)
LEMMA CombineInv ==
  ASSUME FftInv, Combine
  PROVE  FftInv'
<1>1. PICK size \in Nat \ {0} : size = FftSize /\ Points = 0..(size - 1)
  BY Sizes
<1>2. PICK s \in 0..Bits : length = 2 * Shifted[s] /\ Blocks(s)
  BY DEF FftInv
<1>3. s # Bits
  <2>1. SUFFICES ASSUME s = Bits PROVE FALSE
    OBVIOUS
  <2>2. length = 2 * size /\ length <= size
    BY <1>1, <1>2, <2>1 DEF Combine, FftSize
  <2> QED
    BY <2>2
<1>4. PICK b \in 0..(Bits - 1) : b = s
  BY <1>2, <1>3, TransformSize
<1>5. PICK m \in Nat \ {0}, h \in Nat \ {0} :
        /\ m = Shifted[b] /\ h = Shifted[Bits - (b + 1)]
        /\ Shifted[b + 1] = 2 * m /\ Shifted[Bits - b] = 2 * h
        /\ (2 * m) * h = FftSize /\ m * h = Shifted[Bits - 1]
  BY StageSizes
<1>6. Blocks(b) /\ length = 2 * m
  BY <1>2, <1>4, <1>5, Zenon
<1> DEFINE Mark(q) == Reversed[Bits - (b + 1)][q]
           Fine(i) == work'[i] \in Int /\ work'[i] % Prime = work'[i]
           Pair(i, q, j) == i = q * (2 * m) + j /\ Combined(i, Mark(q), j, m, h)
<1>7. \A q \in 0..(h - 1), j \in 0..(m - 1) : \E i \in Nat : Pair(i, q, j)
  <2> TAKE q \in 0..(h - 1), j \in 0..(m - 1)
  <2> QED
    BY <1>5, <1>6, CombinePair
<1> HIDE DEF Mark
<1>8. \A i \in Points : Fine(i)
  <2> TAKE i \in Points
  <2>1. i \in 0..((2 * m) * h - 1)
    BY <1>1, <1>5
  <2>2. PICK q \in 0..(h - 1), j \in 0..(m - 1) : i = q * (2 * m) + j \/ i = q * (2 * m) + j + m
    BY <2>1, PairsCover
  <2>3. PICK k \in Nat : Pair(k, q, j)
    BY <1>7
  <2>4. k = q * (2 * m) + j /\ Fine(k) /\ Fine(k + m)
    BY <2>3, Zenon DEF Combined
  <2> QED
    BY <2>2, <2>4, Zenon
<1>9. work' \in [Points -> Int]
  <2>1. \A i \in Points : work'[i] \in Int
    BY <1>8
  <2>2. work' = [i \in Points |-> work'[i]]
    BY DEF Combine
  <2> QED
    BY <2>1, <2>2
<1>10. Held' = Held /\ data' = data
  BY DEF Combine, Held
<1>11. length' = 2 * Shifted[b + 1] /\ b + 1 \in 0..Bits
  BY <1>4, <1>5, <1>6, TransformSize DEF Combine
<1>12. \A q \in 0..(h - 1), k \in 0..(2 * m - 1) :
         SumsTo(work'[q * (2 * m) + k], Terms(Held, Mark(q), h, k), 2 * m)
  <2> TAKE q \in 0..(h - 1), k \in 0..(2 * m - 1)
  <2>1. CASE k < m
    <3>1. k \in 0..(m - 1)
      BY <2>1
    <3>2. PICK i \in Nat : Pair(i, q, k)
      BY <1>7, <3>1
    <3> QED
      BY <3>2, Zenon DEF Combined
  <2>2. CASE ~(k < m)
    <3>1. PICK j \in 0..(m - 1) : k = j + m
      <4>1. k - m \in 0..(m - 1) /\ k = (k - m) + m
        BY <2>2
      <4> QED
        BY <4>1
    <3>2. PICK i \in Nat : Pair(i, q, j)
      BY <1>7
    <3>3. i = q * (2 * m) + j /\ SumsTo(work'[i + m], Terms(Held, Mark(q), h, j + m), 2 * m)
      BY <3>2, Zenon DEF Combined
    <3>4. \A p \in Int : (p + j) + m = p + (j + m)
      OBVIOUS
    <3>5. q * (2 * m) \in Int
      OBVIOUS
    <3>6. i + m = q * (2 * m) + k
      BY <3>1, <3>3, <3>4, <3>5, Zenon
    <3> QED
      BY <3>1, <3>3, <3>6, Zenon
  <2> QED
    BY <2>1, <2>2, Zenon
<1>13. Blocks(b + 1)'
  <2>1. ASSUME NEW q \in 0..(h - 1), NEW k \in 0..(2 * m - 1)
        PROVE  SumsTo(work'[q * (2 * m) + k], Terms(Held, Reversed[Bits - (b + 1)][q], h, k), 2 * m)
    BY <1>12, <2>1, Zenon DEF Mark
  <2> QED
    BY <1>5, <1>10, <2>1, Zenon DEF Blocks
<1>14. \A k \in Points : work'[k] % Prime = work'[k]
  BY <1>8
<1> QED
  BY <1>9, <1>10, <1>11, <1>13, <1>14 DEF FftInv

(* The last block holds a sum over all of the samples.                      *)
LEMMA WholeBlock ==
  ASSUME data \in [Points -> Int], work \in [Points -> Int],
         Blocks(Bits), NEW k \in Points
  PROVE  SumsTo(work[k], Terms(Held, 0, 1, k), FftSize)
<1>1. PICK size \in Nat \ {0} : size = FftSize /\ Points = 0..(size - 1) /\ size = Shifted[Bits]
  BY Sizes DEF FftSize
<1>2. Bits - Bits = 0
  BY TransformSize
<1>3. Shifted[0] = 1
  BY ShiftedIs
<1>4. 0 \in Points /\ 0 \in 0..(1 - 1)
  BY <1>1
<1>5. Reversed[0][0] = 0
  BY <1>4, ReversedIs
<1>6. \A q \in 0..(1 - 1) : \A j \in 0..(size - 1) :
        SumsTo(work[q * size + j], Terms(Held, Reversed[0][q], 1, j), size)
  <2>1. PICK c \in Int : c = Bits - Bits
    BY <1>2
  <2>2. \A q \in 0..(Shifted[c] - 1) : \A j \in 0..(Shifted[Bits] - 1) :
          SumsTo(work[q * Shifted[Bits] + j], Terms(Held, Reversed[c][q], Shifted[c], j), Shifted[Bits])
    BY <2>1, Zenon DEF Blocks
  <2>3. c = 0 /\ Shifted[c] = 1
    BY <1>2, <1>3, <2>1, Zenon
  <2> QED
    BY <1>1, <2>2, <2>3, Zenon
<1>7. SumsTo(work[0 * size + k], Terms(Held, Reversed[0][0], 1, k), size)
  BY <1>1, <1>4, <1>6, Zenon
<1>8. 0 * size + k = k
  BY <1>1
<1> QED
  BY <1>1, <1>5, <1>7, <1>8, Zenon

LEMMA LastStage ==
  ASSUME NEW b \in 0..Bits, 2 * Shifted[b] > FftSize
  PROVE  b = Bits
<1>1. SUFFICES ASSUME b # Bits PROVE FALSE
  OBVIOUS
<1>2. b \in 0..(Bits - 1) /\ b + 1 \in 0..Bits
  BY <1>1, TransformSize
<1>3. Shifted[b + 1] = 2 * Shifted[b]
  BY <1>2, ShiftedIs
<1>4. Shifted[b + 1] <= FftSize
  BY <1>2, ShiftedBounded
<1>5. PICK x \in Nat, y \in Nat : x = Shifted[b + 1] /\ y = FftSize
  <2>1. Shifted[b + 1] \in Nat
    BY <1>2, ShiftedIs
  <2>2. FftSize \in Nat
    BY Sizes
  <2> QED
    BY <2>1, <2>2
<1>6. x > y /\ x <= y
  BY <1>3, <1>4, <1>5
<1> QED
  BY <1>6

LEMMA InvSpectrum ==
  ASSUME FftInv
  PROVE  SpectrumOfData
<1> SUFFICES ASSUME length > FftSize, NEW k \in Points
             PROVE  work[k] = Total([i \in Points |-> data[i] * Twiddle[(i * k) % FftSize]], FftSize) % Prime
  BY DEF SpectrumOfData
<1>1. PICK b \in 0..Bits : length = 2 * Shifted[b] /\ Blocks(b)
  BY DEF FftInv
<1>2. b = Bits
  BY <1>1, LastStage
<1>3. PICK size \in Nat \ {0} : size = FftSize /\ Points = 0..(size - 1) /\ size >= 2
  <2>1. PICK half \in Nat \ {0} : FftSize = half + half /\ Points = 0..(half + half - 1)
    BY Sizes
  <2>2. PICK size \in Nat \ {0} : size = half + half /\ size >= 2
    OBVIOUS
  <2> QED
    BY <2>1, <2>2
<1>4. length # 2
  BY <1>1, <1>2, <1>3 DEF FftSize
<1>5. data \in [Points -> Int] /\ work \in [Points -> Int]
  BY DEF FftInv
<1>6. SumsTo(work[k], Terms(Held, 0, 1, k), size)
  BY <1>1, <1>2, <1>3, <1>5, WholeBlock, Zenon
<1>7. Prime \in Nat \ {0} /\ k \in Nat
  BY <1>3, TwiddleAtHalf
<1> DEFINE Y == [i \in Points |-> data[i] * Twiddle[(i * k) % FftSize]]
<1>8. \A i \in Points : /\ (i * k) % FftSize \in Points /\ Twiddle[(i * k) % FftSize] \in Int
                        /\ Same(Twiddle[(i * k) % FftSize], Powers[i * k])
                        /\ Powers[i * k] \in Int /\ i * k \in Nat
  <2> TAKE i \in Points
  <2>1. PICK x \in Nat : x = i * k
    BY <1>3, <1>7
  <2>2. x % FftSize \in Points
    BY TwiddleAround
  <2>3. Same(Twiddle[x % FftSize], Powers[x])
    BY TwiddleAround
  <2>4. Powers[x] \in Int
    BY PowersAre
  <2>5. Twiddle[x % FftSize] \in Int
    <3>1. PICK e \in Nat : e = x % FftSize /\ e \in Points
      BY <1>3, <2>2
    <3>2. Powers[e] \in Int
      BY PowersAre
    <3> QED
      BY <3>1, <3>2, TwiddleIs
  <2> QED
    BY <2>1, <2>2, <2>3, <2>4, <2>5, Zenon
<1>9. Y \in [0..(size - 1) -> Int]
  <2>1. \A u, v \in Int : u * v \in Int
    OBVIOUS
  <2>2. \A i \in Points : data[i] * Twiddle[(i * k) % FftSize] \in Int
    BY <1>5, <1>8, <2>1
  <2> QED
    BY <1>3, <2>2
<1>10. \A i \in 0..(size - 1) : /\ Terms(Held, 0, 1, k)[i] \in Int
                                /\ Same(Terms(Held, 0, 1, k)[i], Y[i])
  <2> TAKE i \in 0..(size - 1)
  <2>1. i \in Points /\ i \in Nat
    BY <1>3
  <2>2. PICK d \in Int, w \in Int, p \in Int :
          /\ d = data[i] /\ w = Twiddle[(i * k) % FftSize] /\ p = Powers[i * k] /\ Same(w, p)
    BY <1>5, <1>8, <2>1
  <2>3. Held[i] = d
    BY <2>1, <2>2, Zenon DEF Held
  <2>4. 0 + i * 1 = i /\ (i * k) * 1 = i * k
    BY <1>7, <2>1
  <2>5. Terms(Held, 0, 1, k)[i] = Held[0 + i * 1] * Powers[(i * k) * 1]
    BY <2>1, Zenon DEF Terms
  <2>6. Terms(Held, 0, 1, k)[i] = d * p
    BY <2>2, <2>3, <2>4, <2>5, Zenon
  <2>7. Y[i] = d * w
    BY <2>1, <2>2, Zenon
  <2>8. Same(p, w) /\ Same(d, d)
    BY <1>7, <2>2, SameBasics, Zenon
  <2>9. Same(d * p, d * w)
    BY <1>7, <2>8, SameArithmetic
  <2>10. d * p \in Int
    OBVIOUS
  <2> QED
    BY <2>6, <2>7, <2>9, <2>10, Zenon
<1> HIDE DEF Y
<1>11. PICK v \in Int : v = work[k]
  BY <1>5
<1>12. SumsTo(v, Terms(Held, 0, 1, k), size) /\ size \in Nat
  BY <1>6, <1>11, Zenon
<1>13. Total(Y, size) \in Int /\ Same(v, Total(Y, size))
  BY <1>7, <1>9, <1>10, <1>12, TotalOfSums, Zenon
<1>14. PICK total \in Int : total = Total(Y, size) /\ Same(v, total)
  BY <1>13, Zenon
<1>15. v % Prime = total % Prime
  BY <1>7, <1>14, Residue
<1>16. v % Prime = v
  BY <1>4, <1>11, Zenon DEF FftInv
<1> QED
  BY <1>3, <1>11, <1>14, <1>15, <1>16, Zenon DEF Y

LEMMA FftNextInv ==
  ASSUME FftInv, [FftNext]_fftVars
  PROVE  FftInv'
<1>1. CASE Combine
  BY <1>1, CombineInv
<1>2. ASSUME NEW n \in Reads, NEW samples \in [0..n - 1 -> Inputs], Hear(n, samples) PROVE FftInv'
  BY <1>2, HearInv
<1>3. CASE UNCHANGED fftVars
  BY <1>3 DEF fftVars, FftInv, Blocks, Held
<1> QED
  BY <1>1, <1>2, <1>3, Zenon DEF FftNext

THEOREM SpectrumIsOfData ==
  FftSpec => []SpectrumOfData
<1>1. FftInit => FftInv
  BY FftInitInv
<1>2. FftInv /\ [FftNext]_fftVars => FftInv'
  BY FftNextInv
<1>3. FftInv => SpectrumOfData
  BY InvSpectrum
<1> QED
  BY <1>1, <1>2, <1>3, PTL DEF FftSpec
================================================================================
