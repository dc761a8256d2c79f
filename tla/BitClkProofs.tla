------------------------------ MODULE BitClkProofs -----------------------------
(***************************************************************************)
(* Proofs about the bit clock and the carrier detector, for any rates of   *)
(* at least eight samples a bit, thresholds, length of the history, and    *)
(* senders whose jitter and drift keep to BitClkAssumption.                *)
(***************************************************************************)
EXTENDS BitClk, FiniteSetTheorems, TLAPS

(* The next change of the line is ahead, and bit stuffing leaves it no      *)
(* longer than MaxRun away.                                                 *)
LineOK ==
  /\ line \in [level : BOOLEAN, flips : BOOLEAN, left : 1..(2 * BitLength),
               late : Int, run : 0..MaxRun, sender : Senders]
  /\ line.late \in {-line.sender.jitter, 0, line.sender.jitter}
  /\ ~line.flips => line.run < MaxRun
  /\ BetweenSamples(line)

ClockOK ==
  /\ pll_clock \in (-Half)..(Half - 1) /\ last_soft_bit \in (-Parts)..Parts
  /\ transition_history \in [1..History -> BOOLEAN]

Counts == /\ data_detect \in BOOLEAN /\ nrzi_bit \in BOOLEAN /\ right \in BOOLEAN
          /\ taken \in (0..2) \X (0..2) /\ locked \in 0..2 /\ calm \in 0..(OnThr - OffThr)

(* With so many transitions since the last change, the quality can not have *)
(* gone further than this from the threshold of that change.                *)
Quiet == LET q == Quality(transition_history) IN
  /\ data_detect => OffThr < q /\ OnThr - calm <= q
  /\ ~data_detect => q < OnThr /\ q <= OffThr + calm

Inv == LineOK /\ ClockOK /\ Counts /\ Quiet

--------------------------------------------------------------------------------
(* Arithmetic *)

LEMMA Constants ==
  /\ Half \in Nat \ {0} /\ Tick \in Nat \ {0} /\ Parts \in Nat \ {0}
  /\ History \in Nat \ {0} /\ MaxRun \in Nat \ {0}
  /\ OnThr \in Nat /\ OffThr \in Nat /\ OffThr < OnThr /\ 1 < OnThr /\ OnThr <= History
  /\ 4 * Tick <= Half
<1>1. {Half, Tick, Parts, History, MaxRun} \subseteq Nat \ {0}
  BY BitClkAssumption
<1>2. {OnThr, OffThr} \subseteq Nat
  BY BitClkAssumption
<1>3. 8 * Tick <= 2 * Half /\ OffThr < OnThr /\ 1 < OnThr /\ OnThr <= History
  BY BitClkAssumption
<1> QED
  BY <1>1, <1>2, <1>3

LEMMA Quotient ==
  ASSUME NEW a \in Int, NEW w \in Nat \ {0}
  PROVE  a \div w \in Int /\ w * (a \div w) <= a /\ a < w * (a \div w) + w
  OBVIOUS

LEMMA Times ==
  ASSUME NEW x \in Int, NEW y \in Int, NEW w \in Nat, x <= y
  PROVE  x * w <= y * w
  OBVIOUS

LEMMA TimesLess ==
  ASSUME NEW x \in Int, NEW y \in Int, NEW w \in Nat \ {0}, x < y
  PROVE  x * w + w <= y * w
<1>1. (x + 1) * w <= y * w
  BY Times
<1>2. (x + 1) * w = x * w + w
  OBVIOUS
<1> QED
  BY <1>1, <1>2

LEMMA QuotientBetween ==
  ASSUME NEW a \in Int, NEW w \in Nat \ {0}, NEW lo \in Int, NEW hi \in Int,
         lo * w <= a, a <= hi * w
  PROVE  a \div w \in lo..hi
<1>1. PICK q \in Int : q = a \div w /\ q * w <= a /\ a < q * w + w
  BY Quotient
<1>2. lo <= q
  <2> SUFFICES ASSUME q < lo PROVE FALSE
    OBVIOUS
  <2>1. q * w + w <= lo * w
    BY TimesLess
  <2> QED
    BY <1>1, <2>1
<1>3. q <= hi
  <2> SUFFICES ASSUME hi < q PROVE FALSE
    OBVIOUS
  <2>1. hi * w + w <= q * w
    BY TimesLess
  <2> QED
    BY <1>1, <2>1
<1> QED
  BY <1>1, <1>2, <1>3

(* A weighted mean lies between what it is the mean of.                     *)
LEMMA Mean ==
  ASSUME NEW w \in Nat \ {0}, NEW p \in 0..w, NEW lo \in Int, NEW hi \in Int,
         NEW a \in lo..hi, NEW b \in lo..hi
  PROVE  (a * p + b * (w - p)) \div w \in lo..hi
<1>1. w - p \in Nat /\ p \in Nat
  OBVIOUS
<1>2. /\ lo * p <= a * p /\ a * p <= hi * p
      /\ lo * (w - p) <= b * (w - p) /\ b * (w - p) <= hi * (w - p)
  BY <1>1, Times
<1>3. lo * p + lo * (w - p) = lo * w /\ hi * p + hi * (w - p) = hi * w
  OBVIOUS
<1>4. /\ lo * w \in Int /\ hi * w \in Int /\ a * p \in Int /\ b * (w - p) \in Int
      /\ lo * p \in Int /\ hi * p \in Int /\ lo * (w - p) \in Int /\ hi * (w - p) \in Int
  OBVIOUS
<1>5. lo * w <= a * p + b * (w - p) /\ a * p + b * (w - p) <= hi * w
  BY <1>2, <1>3, <1>4
<1> QED
  BY <1>4, <1>5, QuotientBetween

LEMMA NoRest ==
  ASSUME NEW a \in Int, NEW w \in Nat \ {0}, a % w = 0
  PROVE  a \div w \in Int /\ w * (a \div w) = a
  OBVIOUS

(* A sample is Parts grains and a bit BitLength, and a bit is at least      *)
(* eight samples.                                                           *)
LEMMA Grains ==
  /\ Grain \in Nat \ {0} /\ Grain * Parts = Tick
  /\ BitLength \in Nat /\ Grain * BitLength = 2 * Half
  /\ 8 * Parts <= BitLength
<1>1. Tick % Parts = 0 /\ (2 * Half) % Grain = 0
  BY BitClkAssumption
<1>2. /\ Half \in Nat /\ Half # 0 /\ Tick \in Nat /\ Tick # 0 /\ Parts \in Nat /\ Parts # 0
      /\ 4 * Tick <= Half
  BY Constants
<1>3. PICK p \in Int : p = Grain /\ Parts * p = Tick
  BY <1>1, <1>2, NoRest DEF Grain
<1>4. p \in Nat /\ p # 0
  BY <1>2, <1>3
<1>5. PICK b \in Int : b = BitLength /\ p * b = 2 * Half
  BY <1>1, <1>2, <1>3, <1>4, NoRest DEF BitLength
<1>6. 8 * Parts <= b
  <2> SUFFICES ASSUME b < 8 * Parts PROVE FALSE
    BY <1>2, <1>5
  <2>1. b * p + p <= (8 * Parts) * p
    BY <1>2, <1>4, <1>5, TimesLess
  <2>2. (8 * Parts) * p = 8 * (Parts * p)
    BY <1>2, <1>3
  <2>3. b * p = p * b
    BY <1>4, <1>5
  <2> QED
    BY <1>2, <1>3, <1>4, <1>5, <2>1, <2>2, <2>3
<1> QED
  BY <1>2, <1>3, <1>4, <1>5, <1>6

LEMMA BitsAreLong == BitLength \in Nat /\ 8 * Parts <= BitLength
  BY Grains

(* A sample earlier, the rest of a sample is the same.                      *)
LEMMA SampleEarlier ==
  ASSUME NEW a \in Int, NEW w \in Nat \ {0}, (a - w) % w = 0
  PROVE  a % w = 0
<1>1. PICK q \in Int : q = (a - w) \div w /\ w * q = a - w
  BY NoRest
<1>2. PICK n \in Int : n = q + 1
  OBVIOUS
<1>3. a = w * n
  BY <1>1, <1>2
<1>4. PICK m \in Int, s \in Int : m = a \div w /\ s = a % w /\ 0 <= s /\ s < w /\ a = w * m + s
  OBVIOUS
<1>5. w * n = n * w /\ w * m = m * w
  OBVIOUS
<1>6. n <= m
  <2> SUFFICES ASSUME m < n PROVE FALSE
    BY <1>2, <1>4
  <2>1. m * w + w <= n * w
    BY <1>2, <1>4, TimesLess
  <2> QED
    BY <1>3, <1>4, <1>5, <2>1
<1>7. n * w <= m * w
  BY <1>2, <1>4, <1>6, Times
<1> QED
  BY <1>3, <1>4, <1>5, <1>7

--------------------------------------------------------------------------------
(* The history *)

LEMMA QualityBounds ==
  ASSUME NEW h \in [1..History -> BOOLEAN]
  PROVE  /\ IsFiniteSet({i \in 1..History : h[i]})
         /\ Quality(h) = Cardinality({i \in 1..History : h[i]}) /\ Quality(h) \in 0..History
<1> DEFINE S == {i \in 1..History : h[i]}
<1>1. IsFiniteSet(1..History) /\ Cardinality(1..History) = History
  BY Constants, FS_Interval
<1>2. S \in SUBSET (1..History)
  OBVIOUS
<1>3. IsFiniteSet(S) /\ Cardinality(S) \in Nat /\ Cardinality(S) <= History
  BY <1>1, <1>2, FS_Subset, FS_CardinalityType
<1>4. Quality(h) = Cardinality(S)
  BY DEF Quality
<1> QED
  BY <1>3, <1>4, Constants

(* Moving all numbers down by one leaves as many of them.                   *)
LEMMA ShiftedDown ==
  ASSUME NEW S \in SUBSET Int, IsFiniteSet(S)
  PROVE  /\ IsFiniteSet({i - 1 : i \in S})
         /\ Cardinality({i - 1 : i \in S}) = Cardinality(S)
<1> DEFINE T == {i - 1 : i \in S}
           f == [i \in S |-> i - 1]
<1>1. f \in [S -> T]
  OBVIOUS
<1>2. \A i, j \in S : f[i] = f[j] => i = j
  <2>1. ASSUME NEW i \in S, NEW j \in S, i - 1 = j - 1 PROVE i = j
    BY <2>1
  <2> QED
    BY <2>1
<1>3. \A k \in T : \E i \in S : f[i] = k
  OBVIOUS
<1> HIDE DEF f, T
<1>4. f \in Bijection(S, T)
  BY <1>1, <1>2, <1>3 DEF Bijection, Injection, IsInjective, Surjection
<1>5. ExistsBijection(S, T)
  BY <1>4 DEF ExistsBijection
<1>6. IsFiniteSet(T) /\ Cardinality(T) = Cardinality(S)
  BY <1>5, FS_Bijection
<1> QED
  BY <1>6 DEF T

(* One transition enters the history and one leaves it.                     *)
LEMMA QualityMoves ==
  ASSUME NEW h \in [1..History -> BOOLEAN], NEW good \in BOOLEAN
  PROVE  /\ Append(Tail(h), good) \in [1..History -> BOOLEAN]
         /\ Quality(Append(Tail(h), good)) <= Quality(h) + 1
         /\ Quality(h) <= Quality(Append(Tail(h), good)) + 1
         /\ ~good => Quality(Append(Tail(h), good)) <= Quality(h)
<1> DEFINE g == Append(Tail(h), good)
           S == {i \in 1..History : h[i]}
           T == {i \in 1..History : g[i]}
           D == {i - 1 : i \in S \ {1}}
<1>1. /\ h \in Seq(BOOLEAN) /\ Len(h) = History /\ h # <<>>
  BY Constants
<1>2. /\ Tail(h) \in Seq(BOOLEAN) /\ Len(Tail(h)) = History - 1
      /\ \A i \in 1..(History - 1) : Tail(h)[i] = h[i + 1]
  BY <1>1, Constants
<1>3. /\ g \in Seq(BOOLEAN) /\ Len(g) = History /\ g[History] = good
      /\ \A i \in 1..(History - 1) : g[i] = Tail(h)[i]
  BY <1>2, Constants
<1>4. g \in [1..History -> BOOLEAN]
  <2>1. ASSUME NEW t \in Seq(BOOLEAN), Len(t) = History PROVE t \in [1..History -> BOOLEAN]
    BY <2>1
  <2> QED
    BY <1>3, <2>1
<1> HIDE DEF g
<1>5. T = D \cup (IF good THEN {History} ELSE {})
  <2>1. ASSUME NEW i \in T PROVE i \in D \cup (IF good THEN {History} ELSE {})
    <3>1. CASE i = History
      BY <1>3, <3>1
    <3>2. CASE i # History
      <4>1. i \in 1..(History - 1) /\ i + 1 \in 1..History /\ h[i + 1]
        BY <1>2, <1>3, <3>2, Constants
      <4>2. i + 1 \in S \ {1} /\ i = (i + 1) - 1
        BY <4>1
      <4> QED
        BY <4>2
    <3> QED
      BY <3>1, <3>2
  <2>2. ASSUME NEW i \in S \ {1} PROVE i - 1 \in T
    <3>1. i - 1 \in 1..(History - 1) /\ (i - 1) + 1 = i /\ h[i]
      BY <2>2, Constants
    <3>2. g[i - 1]
      BY <1>2, <1>3, <3>1
    <3> QED
      BY <3>1, <3>2, Constants
  <2>3. ASSUME good PROVE History \in T
    <3>1. g[History] /\ History \in 1..History
      BY <1>3, <2>3, Constants
    <3> QED
      BY <3>1
  <2> QED
    BY <2>1, <2>2, <2>3
<1>6. /\ IsFiniteSet(S) /\ Quality(h) = Cardinality(S) /\ Cardinality(S) \in Nat
      /\ Quality(g) = Cardinality(T)
  <2>1. IsFiniteSet(S) /\ Quality(h) = Cardinality(S)
    BY QualityBounds
  <2>2. Quality(g) = Cardinality(T)
    BY <1>4, QualityBounds
  <2> QED
    BY <2>1, <2>2, FS_CardinalityType
<1>7. /\ IsFiniteSet(S \ {1})
      /\ Cardinality(S \ {1}) = IF 1 \in S THEN Cardinality(S) - 1 ELSE Cardinality(S)
  BY <1>6, FS_RemoveElement
<1>8. IsFiniteSet(D) /\ Cardinality(D) = Cardinality(S \ {1})
  <2>1. S \ {1} \in SUBSET Int
    OBVIOUS
  <2> QED
    BY <1>7, <2>1, ShiftedDown
<1>9. Cardinality(T) \in {Cardinality(D), Cardinality(D) + 1}
  <2>1. CASE good
    <3>1. T = D \cup {History}
      BY <1>5, <2>1
    <3>2. Cardinality(D \cup {History}) \in {Cardinality(D), Cardinality(D) + 1}
      BY <1>8, FS_AddElement
    <3> QED
      BY <3>1, <3>2
  <2>2. CASE ~good
    BY <1>5, <2>2
  <2> QED
    BY <2>1, <2>2
<1>10. Cardinality(D) \in {Cardinality(S), Cardinality(S) - 1} /\ Cardinality(S) \in Nat
  BY <1>6, <1>7, <1>8
<1>11. Quality(g) <= Quality(h) + 1 /\ Quality(h) <= Quality(g) + 1
  BY <1>6, <1>9, <1>10
<1>12. ASSUME ~good PROVE Quality(g) <= Quality(h)
  <2>1. T = D
    BY <1>5, <1>12
  <2>2. Cardinality(T) = Cardinality(D)
    BY <2>1
  <2> QED
    BY <1>6, <1>10, <2>2
<1> QED
  BY <1>4, <1>11, <1>12 DEF g

--------------------------------------------------------------------------------
(* The step *)

(* What the assumption leaves a sender, in parts of a sample.               *)
LEMMA SenderBounds ==
  ASSUME NEW s \in Senders
  PROVE  /\ s.jitter \in Nat /\ s.drift \in Int /\ Magnitude(s.drift) \in Nat
         /\ 11 * (Parts + s.jitter) <= 2 * BitLength
         /\ 50 * ((MaxRun + 1) * Magnitude(s.drift)) <= BitLength
         /\ 100 * Magnitude(s.drift) <= BitLength
<1>1. /\ s.jitter \in Nat /\ s.drift \in Int
      /\ 11 * (Parts + s.jitter) <= 2 * BitLength
      /\ 50 * ((MaxRun + 1) * Magnitude(s.drift)) <= BitLength
  <2>1. Senders \subseteq [jitter : Nat, drift : Int]
    BY BitClkAssumption
  <2>2. \A t \in Senders : /\ 11 * (Parts + t.jitter) <= 2 * BitLength
                           /\ 50 * ((MaxRun + 1) * Magnitude(t.drift)) <= BitLength
    BY BitClkAssumption
  <2>3. s \in [jitter : Nat, drift : Int]
    BY <2>1
  <2> QED
    BY <2>2, <2>3
<1>2. PICK m \in Nat : m = Magnitude(s.drift)
  BY <1>1 DEF Magnitude
<1>3. 2 * m <= (MaxRun + 1) * m
  <2>1. 2 <= MaxRun + 1 /\ MaxRun \in Nat
    BY Constants
  <2> QED
    BY <1>2, <2>1, Times
<1>4. PICK d \in Int : d = (MaxRun + 1) * m
  BY <1>2, Constants
<1> QED
  BY <1>1, <1>2, <1>3, <1>4, BitsAreLong

LEMMA LineFields ==
  ASSUME LineOK
  PROVE  /\ line.level \in BOOLEAN /\ line.flips \in BOOLEAN
         /\ line.left \in 1..(2 * BitLength) /\ line.run \in 0..MaxRun
         /\ line.sender \in Senders
         /\ line.late \in {-line.sender.jitter, 0, line.sender.jitter}
         /\ ~line.flips => line.run < MaxRun
  BY DEF LineOK

(* However early one end of a bit is and however late the next, it lies     *)
(* ahead of the samples taken.                                              *)
LEMMA NextEnd ==
  ASSUME NEW s \in Senders, NEW left \in Int, 1 <= left, left <= Parts,
         NEW late \in {-s.jitter, 0, s.jitter}, NEW j \in {-s.jitter, 0, s.jitter}
  PROVE  /\ left - Parts + BitLength + s.drift + j - late \in 1..(2 * BitLength)
         /\ Parts < left - Parts + BitLength + s.drift + j - late
<1>1. PICK i \in Nat, d \in Int, m \in Nat :
        /\ i = s.jitter /\ d = s.drift /\ m = Magnitude(d)
        /\ 11 * (Parts + i) <= 2 * BitLength /\ 100 * m <= BitLength
  BY SenderBounds
<1>2. BitLength \in Nat /\ 8 * Parts <= BitLength /\ Parts \in Nat \ {0}
  BY BitsAreLong, Constants
<1>3. -m <= d /\ d <= m
  BY <1>1 DEF Magnitude
<1>4. j \in Int /\ late \in Int /\ j - late <= 2 * i /\ -(2 * i) <= j - late
  BY <1>1
<1> QED
  BY <1>1, <1>2, <1>3, <1>4

LEMMA LineInv == LineOK /\ Sample => LineOK'
<1> SUFFICES ASSUME LineOK, Sample PROVE LineOK'
  OBVIOUS
<1>1. CASE Ends
  <2>1. PICK b \in NextBits : line' = b /\ Follows(b)
    BY <1>1 DEF Sample
  <2>2. PICK f \in BOOLEAN, j \in {-line.sender.jitter, 0, line.sender.jitter} :
          b = [level |-> line.level # line.flips, flips |-> f,
               left |-> line.left - Parts + BitLength + line.sender.drift + j - line.late,
               late |-> j, run |-> IF line.flips THEN 0 ELSE line.run + 1,
               sender |-> line.sender]
    BY <2>1 DEF NextBits
  <2>3. line.left - Parts + BitLength + line.sender.drift + j - line.late \in 1..(2 * BitLength)
    <3>1. line.left \in Int /\ 1 <= line.left /\ line.left <= Parts
      BY <1>1, LineFields, BitsAreLong, Constants DEF Ends
    <3> QED
      BY <3>1, LineFields, NextEnd
  <2>4. (IF line.flips THEN 0 ELSE line.run + 1) \in 0..MaxRun
    BY LineFields, Constants
  <2>5. /\ f \/ (IF line.flips THEN 0 ELSE line.run + 1) < MaxRun
        /\ BetweenSamples(b)
    BY <2>1, <2>2 DEF Follows
  <2>6. j \in Int
    BY LineFields, SenderBounds
  <2>7. BetweenSamples(line')
    BY <2>1, <2>5
  <2> QED
    BY <2>1, <2>2, <2>3, <2>4, <2>5, <2>6, <2>7, LineFields DEF LineOK, BetweenSamples
<1>2. CASE ~Ends
  <2>1. line' = [line EXCEPT !.left = line.left - Parts] /\ ~(line.left <= Parts)
    BY <1>2 DEF Sample, Ends
  <2>2. line.left - Parts \in 1..(2 * BitLength) /\ line.left \in Int
    BY <2>1, LineFields, BitsAreLong, Constants
  <2>3. /\ line'.left = line.left - Parts /\ line'.flips = line.flips
        /\ line'.sender = line.sender
    BY <2>1 DEF LineOK
  <2>4. BetweenSamples(line')
    <3>1. (line.left - Parts) % Parts = 0 => line.left % Parts = 0
      BY <2>2, Constants, SampleEarlier
    <3>2. BetweenSamples(line)
      BY DEF LineOK
    <3> QED
      BY <2>3, <3>1, <3>2 DEF BetweenSamples
  <2> QED
    BY <2>1, <2>2, <2>4 DEF LineOK, BetweenSamples
<1> QED
  BY <1>1, <1>2

LEMMA SoftInRange == ASSUME LineOK PROVE Soft \in (-Parts)..Parts
<1>1. ASSUME NEW a \in (-Parts)..Parts PROVE Sign * a \in (-Parts)..Parts
  BY Constants DEF Sign
<1>2. (IF line.flips THEN Smaller(line.left - Parts, Parts) ELSE Parts) \in (-Parts)..Parts
  BY LineFields, BitsAreLong, Constants DEF Smaller
<1> QED
  BY <1>1, <1>2 DEF Soft

LEMMA TickedInRange == ASSUME ClockOK PROVE Ticked \in (-Half)..(Half - 1)
  BY Constants DEF ClockOK, Ticked, WrapPhase

(* A correction ends between where the clock is and where it should be.     *)
LEMMA CorrectedBetween ==
  ASSUME NEW lo \in Int, NEW hi \in Int, NEW clock \in lo..hi, NEW ideal \in lo..hi,
         NEW h \in [1..History -> BOOLEAN]
  PROVE  Corrected(clock, ideal, h) \in lo..hi
<1>1. 100 * History \in Nat \ {0} /\ Inertia(h) \in 0..(100 * History)
  <2>1. PICK q \in 0..History : q = Quality(h)
    BY QualityBounds
  <2>2. History \in Nat /\ History # 0
    BY Constants
  <2>3. 28 * History + 54 * q \in 0..(100 * History) /\ 100 * History \in Nat
    BY <2>1, <2>2
  <2>4. 100 * History # 0
    BY <2>2
  <2> QED
    BY <2>1, <2>3, <2>4 DEF Inertia
<1> QED
  BY <1>1, Mean DEF Corrected

LEMMA CorrectedInRange ==
  ASSUME NEW clock \in (-Half)..(Half - 1), NEW ideal \in 0..Tick,
         NEW h \in [1..History -> BOOLEAN]
  PROVE  Corrected(clock, ideal, h) \in (-Half)..(Half - 1)
<1>1. ideal \in (-Half)..(Half - 1) /\ -Half \in Int /\ Half - 1 \in Int
  BY Constants
<1> QED
  BY <1>1, CorrectedBetween

(* Where the line crosses zero lies between the two samples.                *)
LEMMA IdealInRange ==
  ASSUME NEW soft \in (-Parts)..Parts, last_soft_bit \in (-Parts)..Parts, Crosses(soft)
  PROVE  (Tick * Magnitude(soft)) \div (Magnitude(soft) + Magnitude(last_soft_bit)) \in 0..Tick
<1>1. /\ Magnitude(soft) \in Nat /\ Magnitude(last_soft_bit) \in Nat
      /\ soft \in Int /\ last_soft_bit \in Int
  BY Constants DEF Magnitude
<1>2. soft # 0
  <2>1. last_soft_bit * 0 = 0
    BY <1>1
  <2> QED
    BY <2>1 DEF Crosses
<1>3. Magnitude(soft) # 0
  BY <1>1, <1>2 DEF Magnitude
<1>4. PICK m \in Nat : m = Magnitude(soft)
  BY <1>1
<1>5. PICK n \in Nat : n = Magnitude(last_soft_bit)
  BY <1>1
<1>6. m + n \in Nat \ {0} /\ Tick \in Nat
  BY <1>3, <1>4, <1>5, Constants
<1>7. Tick * m \in Int /\ 0 * (m + n) <= Tick * m /\ Tick * m <= Tick * (m + n)
  BY <1>6
<1>8. (Tick * m) \div (m + n) \in 0..Tick
  BY <1>6, <1>7, QuotientBetween
<1> QED
  BY <1>4, <1>5, <1>8

(* What a sample does to the clock and the detector.                        *)
LEMMA ClockStep ==
  ASSUME LineOK, ClockOK, Sample
  PROVE  /\ ClockOK'
         /\ Crosses(Soft) =>
              /\ data_detect' = Detect(transition_history')
              /\ Quality(transition_history') <= Quality(transition_history) + 1
              /\ Quality(transition_history) <= Quality(transition_history') + 1
         /\ ~Crosses(Soft) => UNCHANGED <<transition_history, data_detect>>
<1>1. PICK soft \in (-Parts)..Parts : soft = Soft
  BY SoftInRange
<1>2. BitclkDetect(soft) /\ last_soft_bit' = soft
  BY <1>1 DEF Sample, BitclkDetect
<1>3. CASE Crosses(soft)
  <2> DEFINE delta == Magnitude(soft) + Magnitude(last_soft_bit)
             crossing == pll_clock + (Tick * Magnitude(last_soft_bit)) \div delta
             good == 10 * Magnitude(crossing) < Half
  <2>1. good \in BOOLEAN
    OBVIOUS
  <2>2. /\ transition_history' = Append(Tail(transition_history), good)
        /\ data_detect' = Detect(transition_history')
        /\ pll_clock' = Corrected(Ticked, (Tick * Magnitude(soft)) \div delta, transition_history')
    BY <1>2, <1>3, Zenon DEF BitclkDetect, Correction
  <2>3. /\ transition_history' \in [1..History -> BOOLEAN]
        /\ Quality(transition_history') <= Quality(transition_history) + 1
        /\ Quality(transition_history) <= Quality(transition_history') + 1
    <3>1. transition_history \in [1..History -> BOOLEAN]
      BY DEF ClockOK
    <3> HIDE DEF good
    <3> QED
      BY <2>1, <2>2, <3>1, QualityMoves
  <2>4. pll_clock' \in (-Half)..(Half - 1)
    <3>1. (Tick * Magnitude(soft)) \div delta \in 0..Tick
      BY <1>3, IdealInRange DEF ClockOK
    <3> QED
      BY <2>2, <2>3, <3>1, TickedInRange, CorrectedInRange
  <2> QED
    BY <1>1, <1>2, <1>3, <2>2, <2>3, <2>4 DEF ClockOK
<1>4. CASE ~Crosses(soft)
  <2>1. pll_clock' = Ticked /\ UNCHANGED <<transition_history, data_detect>>
    BY <1>2, <1>4 DEF BitclkDetect
  <2> QED
    BY <1>1, <1>2, <1>4, <2>1, TickedInRange DEF ClockOK
<1> QED
  BY <1>3, <1>4

LEMMA CountsInv == LineOK /\ ClockOK /\ Counts /\ Sample => Counts'
<1> SUFFICES ASSUME LineOK, ClockOK, Counts, Sample PROVE Counts'
  OBVIOUS
<1>1. data_detect' \in BOOLEAN
  <2>1. CASE Crosses(Soft)
    BY <2>1, ClockStep DEF Detect
  <2>2. CASE ~Crosses(Soft)
    BY <2>2, ClockStep DEF Counts
  <2> QED
    BY <2>1, <2>2
<1>2. nrzi_bit' \in BOOLEAN /\ right' \in BOOLEAN
  <2>1. CASE Samples
    <3>1. /\ nrzi_bit' = (last_soft_bit > 0)
          /\ right' = (NrziDecode(last_soft_bit > 0) = (line.run # 0))
      BY <2>1, Zenon DEF Sample
    <3>2. (last_soft_bit > 0) \in BOOLEAN
      OBVIOUS
    <3>3. (NrziDecode(last_soft_bit > 0) = (line.run # 0)) \in BOOLEAN
      OBVIOUS
    <3> QED
      BY <3>1, <3>2, <3>3, Zenon
  <2>2. CASE ~Samples
    BY <2>2 DEF Sample, Counts
  <2> QED
    BY <2>1, <2>2
<1>3. taken' \in (0..2) \X (0..2)
  <2>1. taken[1] \in 0..2 /\ taken[2] \in 0..2
    BY DEF Counts
  <2>2. Smaller(2, taken[1] + (IF Samples THEN 1 ELSE 0)) \in 0..2
    BY <2>1 DEF Smaller
  <2> QED
    BY <2>1, <2>2 DEF Sample
<1>4. locked' \in 0..2
  BY DEF Sample, Counts, Smaller
<1>5. calm' \in 0..(OnThr - OffThr)
  BY Constants DEF Sample, Counts, Smaller
<1> QED
  BY <1>1, <1>2, <1>3, <1>4, <1>5 DEF Counts

(* The quality moves by one at a transition, calm counts transitions: so    *)
(* the quality is never further from the last threshold than calm says.     *)
LEMMA QuietInv ==
  ASSUME Inv, Sample
  PROVE  /\ Quiet'
         /\ data_detect' # data_detect => calm + 1 >= OnThr - OffThr
<1>1. PICK q \in Nat : q = Quality(transition_history)
  <2>1. transition_history \in [1..History -> BOOLEAN]
    BY DEF Inv, ClockOK
  <2>2. Quality(transition_history) \in 0..History
    BY <2>1, QualityBounds
  <2>3. Quality(transition_history) \in Nat
    BY <2>2, Constants
  <2> QED
    BY <2>3
<1>2. PICK r \in Nat : r = Quality(transition_history')
  <2>1. transition_history' \in [1..History -> BOOLEAN]
    BY ClockStep DEF Inv, ClockOK
  <2>2. Quality(transition_history') \in 0..History
    BY <2>1, QualityBounds
  <2>3. Quality(transition_history') \in Nat
    BY <2>2, Constants
  <2> QED
    BY <2>3
<1>3. Quality(transition_history)' = r
  BY <1>2 DEF Quality
<1>4. /\ OnThr \in Nat /\ OffThr \in Nat /\ OffThr < OnThr /\ calm \in 0..(OnThr - OffThr)
      /\ data_detect => OffThr < q /\ OnThr - calm <= q
      /\ ~data_detect => q < OnThr /\ q <= OffThr + calm
  BY <1>1, Constants DEF Inv, Counts, Quiet
<1>5. /\ data_detect' # data_detect => calm' = 0
      /\ data_detect' = data_detect =>
           calm' = Smaller(OnThr - OffThr, calm + (IF Crosses(Soft) THEN 1 ELSE 0))
  BY Zenon DEF Sample
<1>6. data_detect \in BOOLEAN /\ data_detect' \in BOOLEAN
  BY CountsInv DEF Inv, Counts
<1>7. ASSUME data_detect', OffThr < r, OnThr - calm' <= r PROVE Quiet'
  BY <1>3, <1>7 DEF Quiet
<1>8. ASSUME ~data_detect', r < OnThr, r <= OffThr + calm' PROVE Quiet'
  BY <1>3, <1>8 DEF Quiet
<1>9. CASE Crosses(Soft)
  <2>1. r <= q + 1 /\ q <= r + 1 /\ data_detect' = Detect(transition_history')
    BY <1>1, <1>2, <1>9, ClockStep DEF Inv
  <2>2. data_detect' <=> r >= OnThr \/ (data_detect /\ r > OffThr)
    BY <1>2, <2>1 DEF Detect
  <2>3. PICK c \in 0..(OnThr - OffThr) : c = calm
    BY <1>4
  <2>4. CASE data_detect /\ data_detect'
    <3>1. data_detect' = data_detect
      BY <1>6, <2>4, Zenon
    <3>2. calm' = Smaller(OnThr - OffThr, calm + 1)
      BY <1>5, <1>9, <3>1, Zenon
    <3>3. OffThr < r /\ OnThr - c <= q
      BY <1>4, <2>2, <2>3, <2>4
    <3>4. OnThr - calm' <= r
      BY <1>4, <2>1, <2>3, <3>2, <3>3 DEF Smaller
    <3> QED
      BY <1>7, <2>4, <3>1, <3>3, <3>4
  <2>5. CASE ~data_detect /\ ~data_detect'
    <3>1. data_detect' = data_detect
      BY <1>6, <2>5, Zenon
    <3>2. calm' = Smaller(OnThr - OffThr, calm + 1)
      BY <1>5, <1>9, <3>1, Zenon
    <3>3. r < OnThr /\ q <= OffThr + c
      BY <1>4, <2>2, <2>3, <2>5
    <3>4. r <= OffThr + calm'
      BY <1>4, <2>1, <2>3, <3>2, <3>3 DEF Smaller
    <3> QED
      BY <1>8, <2>5, <3>1, <3>3, <3>4
  <2>6. CASE data_detect /\ ~data_detect'
    <3>1. calm' = 0
      BY <1>5, <2>6
    <3>2. r <= OffThr /\ OnThr - c <= q
      BY <1>4, <2>2, <2>3, <2>6
    <3>3. c + 1 >= OnThr - OffThr /\ r < OnThr /\ r <= OffThr + 0
      BY <1>4, <2>1, <3>2
    <3> QED
      BY <1>8, <2>3, <2>6, <3>1, <3>3
  <2>7. CASE ~data_detect /\ data_detect'
    <3>1. calm' = 0
      BY <1>5, <2>7
    <3>2. r >= OnThr /\ q <= OffThr + c
      BY <1>4, <2>2, <2>3, <2>7
    <3>3. c + 1 >= OnThr - OffThr /\ OffThr < r /\ OnThr - 0 <= r
      BY <1>4, <2>1, <3>2
    <3> QED
      BY <1>7, <2>3, <2>7, <3>1, <3>3
  <2> QED
    BY <1>6, <2>4, <2>5, <2>6, <2>7
<1>10. CASE ~Crosses(Soft)
  <2>1. transition_history' = transition_history /\ data_detect' = data_detect
    BY <1>10, ClockStep DEF Inv
  <2>2. r = q /\ calm' = calm
    BY <1>1, <1>2, <1>4, <1>5, <1>10, <2>1 DEF Smaller
  <2> QED
    BY <1>4, <1>7, <1>8, <2>1, <2>2
<1> QED
  BY <1>9, <1>10

LEMMA InitInv == Init => Inv
<1> SUFFICES ASSUME Init PROVE Inv
  OBVIOUS
<1>1. LineOK
  <2>1. line \in [level : {TRUE}, flips : BOOLEAN, left : 1..BitLength,
                  late : {0}, run : {0}, sender : Senders]
    BY DEF Init
  <2>2. 1..BitLength \subseteq 1..(2 * BitLength) /\ 0 \in 0..MaxRun /\ 0 < MaxRun
    BY BitsAreLong, Constants
  <2>3. PICK f \in BOOLEAN, n \in 1..BitLength, s \in Senders :
          line = [level |-> TRUE, flips |-> f, left |-> n, late |-> 0, run |-> 0, sender |-> s]
    BY <2>1
  <2>4. BetweenSamples(line)
    BY DEF Init
  <2> QED
    BY <2>2, <2>3, <2>4 DEF LineOK
<1>2. ClockOK
  BY Constants DEF Init, ClockOK
<1>3. Counts
  <2>1. /\ data_detect = FALSE /\ nrzi_bit = FALSE /\ right = FALSE
        /\ taken = <<0, 0>> /\ locked = 0 /\ calm = 0
    BY DEF Init
  <2>2. 0 \in 0..(OnThr - OffThr) /\ 0 \in 0..2
    BY Constants
  <2>3. taken \in (0..2) \X (0..2)
    BY <2>1, <2>2
  <2> QED
    BY <2>1, <2>2, <2>3 DEF Counts
<1>4. Quiet
  <2> DEFINE h == [i \in 1..History |-> FALSE]
  <2>1. h \in [1..History -> BOOLEAN] /\ {i \in 1..History : h[i]} = {}
    OBVIOUS
  <2>2. Quality(h) = 0
    BY <2>1, QualityBounds, FS_EmptySet
  <2>3. transition_history = h /\ ~data_detect /\ calm = 0
    BY DEF Init
  <2> QED
    BY <2>2, <2>3, Constants DEF Quiet
<1> QED
  BY <1>1, <1>2, <1>3, <1>4 DEF Inv

LEMMA NextInv == Inv /\ [Next]_vars => Inv'
<1>1. ASSUME Inv, Sample PROVE Inv'
  BY <1>1, LineInv, ClockStep, CountsInv, QuietInv DEF Inv
<1>2. ASSUME Inv, UNCHANGED vars PROVE Inv'
  <2>1. UNCHANGED <<pll_clock, last_soft_bit, transition_history, data_detect,
                    nrzi_bit, line, taken, right, locked, calm>>
    BY <1>2 DEF vars, clockVars
  <2>2. Quality(transition_history)' = Quality(transition_history)
    BY <2>1 DEF Quality
  <2> QED
    BY <1>2, <2>1, <2>2 DEF Inv, LineOK, BetweenSamples, ClockOK, Counts, Quiet
<1> QED
  BY <1>1, <1>2 DEF Next

(* Whatever the jitter and the drift: the line, the clock and the detector  *)
(* keep their ranges, and the quality is never further from the threshold   *)
(* of the last change than there were transitions since.                    *)
THEOREM BitClkInvariant == Spec => []Inv
  BY InitInv, NextInv, PTL DEF Spec

(* The range of the clock, through wraps and corrections (bitclk_detect).   *)
THEOREM BitClkTypeCorrect == Spec => []TypeOK
<1>1. ASSUME Inv PROVE TypeOK
  <2>1. line.left \in 1..(2 * BitLength) /\ line.run \in 0..MaxRun
    BY <1>1, LineFields DEF Inv
  <2> QED
    BY <1>1, <2>1 DEF Inv, ClockOK, Counts, TypeOK
<1> QED
  BY <1>1, BitClkInvariant, PTL

(* The hysteresis of update_pll_lock_detection, for all thresholds: a       *)
(* detector that has changed stays so for as many transitions as the        *)
(* thresholds are apart.                                                    *)
THEOREM DetectorIsCalm == Spec => NoChatter
<1>1. Inv /\ [Next]_vars => [data_detect' # data_detect => calm + 1 >= OnThr - OffThr]_vars
  BY QuietInv DEF Next
<1> QED
  BY <1>1, BitClkInvariant, PTL DEF Spec, NoChatter

--------------------------------------------------------------------------------
(* The clock follows the line.  Distances are in steps of the clock; Parts  *)
(* of the line are Tick of them.                                            *)

Left   == Grain * line.left                  (* to the end of the bit       *)
Ahead  == Grain * (line.left - line.late)    (* to that end without jitter  *)
Jitter == Grain * line.sender.jitter
Drift  == Grain * Magnitude(line.sender.drift)
Fifth  == Half \div 5                        (* of half a turn              *)

(* The last soft bit is of the present bit of the line, and before a        *)
(* crossing as far from it as the line is; it is only zero where the line   *)
(* met a sample, at the start of a bit.                                     *)
Read ==
  /\ \E x \in 0..Parts : last_soft_bit = Sign * x
  /\ line.flips /\ Ends => last_soft_bit \in {0, Sign * line.left}
  /\ \/ last_soft_bit # 0 \/ pll_clock = 0
     \/ Ahead > 2 * Half - Tick - Jitter - Drift

(* After the first good transition: where the clock is so early in the bit  *)
(* that a transition would count as good, the bit has been sampled.         *)
Heard ==
  \/ Quality(transition_history) = 0
  \/ Ahead + pll_clock > Half - 2 * Tick - Jitter - Drift
  \/ nrzi_bit <=> line.level

(* How far the clock is from zero at the end of the bit, half a turn after  *)
(* it has sampled the bit.                                                  *)
Error == pll_clock + Ahead - (IF taken[1] = 0 THEN 2 * Half ELSE 0)

(* A correction leaves it as near as this, though it takes only a fifth of  *)
(* the error away; every bit until the next one adds its drift.             *)
Far(run) == Fifth + Jitter + (run + 1) * Drift
Near == -Far(line.run) <= Error /\ Error <= Far(line.run)

InStep ==
  /\ taken[1] \in {0, 1} /\ Near
  /\ Ends => last_soft_bit # 0
  /\ taken[1] = 0 => ((nrzi_bit <=> line.level) <=> line.run # 0)
  /\ taken[1] = 1 => (nrzi_bit <=> line.level) /\ right
  /\ locked \in {1, 2} /\ (locked = 2 => taken[2] = 1 /\ right)

Follow == /\ Read /\ Heard
          /\ data_detect => InStep
          /\ ~data_detect => locked = 0

LEMMA Exact ==
  ASSUME NEW n \in Int, NEW w \in Nat \ {0}
  PROVE  (w * n) \div w = n
<1>1. w * n \in Int /\ n * w <= w * n /\ w * n <= n * w
  OBVIOUS
<1> QED
  BY <1>1, QuotientBetween

(* The bounds on a sender, in steps of the clock.                           *)
LEMMA Bounds ==
  ASSUME LineOK
  PROVE  /\ Half \in Nat /\ Tick \in Nat /\ Jitter \in Nat /\ Drift \in Nat /\ Fifth \in Nat
         /\ Tick # 0 /\ 4 * Tick <= Half /\ 5 * Fifth <= Half /\ Half < 5 * Fifth + 5
         /\ 11 * (Tick + Jitter) <= 4 * Half
         /\ Far(line.run) \in Nat
         /\ \E spread \in Nat : /\ 2 * Drift <= spread /\ 5 * spread <= Fifth
                                /\ Far(line.run) <= Fifth + Jitter + spread
<1>1. PICK j \in Nat, m \in Nat :
        /\ j = line.sender.jitter /\ m = Magnitude(line.sender.drift)
        /\ 11 * (Parts + j) <= 2 * BitLength
        /\ 50 * ((MaxRun + 1) * m) <= BitLength
  BY LineFields, SenderBounds
<1>2. /\ Half \in Nat /\ Tick \in Nat \ {0} /\ Parts \in Nat /\ MaxRun \in Nat /\ MaxRun # 0
      /\ 4 * Tick <= Half
  BY Constants
<1>3. PICK g \in Nat, b \in Nat : /\ g = Grain /\ g * Parts = Tick
                                /\ b = BitLength /\ g * b = 2 * Half
  BY Grains
<1>4. PICK i \in Nat, o \in Nat : i = g * j /\ o = g * m /\ Jitter = i /\ Drift = o
  BY <1>1, <1>3 DEF Jitter, Drift
<1>5. 11 * (Tick + i) <= 4 * Half
  <2>1. (11 * (Parts + j)) * g <= (2 * b) * g
    BY <1>1, <1>2, <1>3, Times
  <2>2. (11 * (Parts + j)) * g = 11 * (g * Parts + g * j) /\ (2 * b) * g = 2 * (g * b)
    BY <1>1, <1>2, <1>3
  <2> QED
    BY <1>2, <1>3, <1>4, <2>1, <2>2
<1>6. PICK spread \in Nat : spread = (MaxRun + 1) * o
  BY <1>2, <1>4
<1>7. 50 * spread <= 2 * Half
  <2>1. PICK d \in Nat : d = (MaxRun + 1) * m
    BY <1>1, <1>2
  <2>2. (50 * d) * g <= b * g
    BY <1>1, <1>3, <2>1, Times
  <2>3. (50 * d) * g = 50 * (g * d) /\ b * g = g * b
    BY <1>3, <2>1
  <2>4. g * ((MaxRun + 1) * m) = (MaxRun + 1) * (g * m)
    BY <1>1, <1>2, <1>3
  <2>5. g * d = spread
    BY <1>4, <1>6, <2>1, <2>4
  <2> QED
    BY <1>2, <1>3, <1>6, <2>2, <2>3, <2>5
<1>8. Fifth \in Nat /\ 5 * Fifth <= Half /\ Half < 5 * Fifth + 5
  BY <1>2 DEF Fifth
<1>9. 2 * o <= spread
  <2>1. 2 * o <= (MaxRun + 1) * o
    BY <1>2, <1>4, Times
  <2> QED
    BY <1>6, <2>1
<1>10. PICK run \in Nat : run = line.run /\ run <= MaxRun
  BY LineFields, <1>2
<1>11. (run + 1) * o <= spread /\ (run + 1) * o \in Nat
  <2>1. (run + 1) * o <= (MaxRun + 1) * o
    BY <1>2, <1>4, <1>10, Times
  <2> QED
    BY <1>4, <1>6, <1>10, <2>1
<1>12. PICK x \in Nat : x = (run + 1) * o
  BY <1>11
<1>13. Far(line.run) = Fifth + i + x
  BY <1>4, <1>10, <1>12 DEF Far
<1>14. 5 * spread <= Fifth
  BY <1>2, <1>6, <1>7, <1>8
<1>15. Far(line.run) \in Nat /\ Far(line.run) <= Fifth + i + spread
  BY <1>4, <1>6, <1>8, <1>11, <1>12, <1>13
<1> QED
  BY <1>2, <1>4, <1>5, <1>6, <1>8, <1>9, <1>14, <1>15

LEMMA Place ==
  ASSUME NEW left \in Int, NEW late \in Int
  PROVE  /\ Grain * left \in Int /\ Grain * late \in Int
         /\ Grain * (left - late) = Grain * left - Grain * late
         /\ Grain * (left - Parts) = Grain * left - Tick
         /\ 1 <= left => 1 <= Grain * left
         /\ left <= Parts <=> Grain * left <= Tick
         /\ \A j \in Nat : late <= j /\ -j <= late =>
              Grain * late <= Grain * j /\ -(Grain * j) <= Grain * late
<1>1. PICK p \in Nat : p = Grain /\ p # 0 /\ p * Parts = Tick
  BY Grains
<1>2. Parts \in Int /\ Tick \in Int
  BY Constants
<1>3. /\ p * left \in Int /\ p * late \in Int
      /\ p * (left - late) = p * left - p * late
      /\ p * (left - Parts) = p * left - p * Parts
  BY <1>1, <1>2
<1>4. 1 <= left => 1 <= p * left
  <2>1. 1 <= left => 1 * p <= left * p
    BY <1>1, Times
  <2> QED
    BY <1>1, <2>1
<1>5. left <= Parts <=> p * left <= Tick
  <2>1. left <= Parts => left * p <= Parts * p
    BY <1>1, <1>2, Times
  <2>2. Parts < left => Parts * p + p <= left * p
    BY <1>1, <1>2, TimesLess
  <2>3. Parts * p = Tick /\ left * p = p * left
    BY <1>1, <1>2
  <2> QED
    BY <1>1, <1>2, <1>3, <2>1, <2>2, <2>3
<1>6. ASSUME NEW j \in Nat, late <= j, -j <= late
      PROVE  p * late <= p * j /\ -(p * j) <= p * late
  <2>1. late * p <= j * p /\ (-j) * p <= late * p
    BY <1>1, <1>6, Times
  <2>2. late * p = p * late /\ (-j) * p = -(p * j) /\ j * p = p * j
    BY <1>1
  <2> QED
    BY <2>1, <2>2
<1> QED
  BY <1>1, <1>3, <1>4, <1>5, <1>6

LEMMA Here ==
  ASSUME LineOK
  PROVE  /\ Left \in Int /\ Ahead \in Int /\ 1 <= Left
         /\ Ahead - Left <= Jitter /\ Left - Ahead <= Jitter
         /\ Ends <=> Left <= Tick
<1>1. PICK n \in Int : n = line.left /\ 1 <= n
  BY LineFields, BitsAreLong, Constants
<1>2. PICK j \in Nat : j = line.sender.jitter
  BY LineFields, SenderBounds
<1>3. PICK d \in Int : d = line.late /\ d <= j /\ -j <= d
  BY LineFields, <1>2
<1>4. PICK l \in Int, e \in Int, i \in Int : l = Grain * n /\ e = Grain * d /\ i = Grain * j
  <2>1. PICK g \in Nat : g = Grain
    BY Grains
  <2>2. g * n \in Int /\ g * d \in Int /\ g * j \in Int
    BY <1>1, <1>2, <1>3, <2>1
  <2> QED
    BY <2>1, <2>2, Zenon
<1>5. /\ Grain * (n - d) = l - e /\ 1 <= l /\ (n <= Parts <=> l <= Tick)
      /\ e <= i /\ -i <= e
  <2>1. Grain * (n - d) = Grain * n - Grain * d
    BY <1>1, <1>3, Place
  <2>2. 1 <= Grain * n /\ (n <= Parts <=> Grain * n <= Tick)
    BY <1>1, <1>3, Place
  <2>3. Grain * d <= Grain * j /\ -(Grain * j) <= Grain * d
    BY <1>1, <1>2, <1>3, Place
  <2> QED
    BY <1>4, <2>1, <2>2, <2>3, Zenon
<1>6. Left = l /\ Ahead = l - e /\ (Ends <=> n <= Parts) /\ Jitter = i
  BY <1>1, <1>2, <1>3, <1>4, <1>5 DEF Left, Ahead, Ends, Jitter
<1> QED
  BY <1>4, <1>5, <1>6, Constants

(* What a sample does to the line.                                          *)
LEMMA LineStep ==
  ASSUME LineOK, Sample
  PROVE  /\ Ends =>
              /\ line'.level = (line.level # line.flips)
              /\ line'.run = IF line.flips THEN 0 ELSE line.run + 1
              /\ line'.left - line'.late =
                   line.left - line.late - Parts + BitLength + line.sender.drift
              /\ Parts < line'.left
         /\ ~Ends =>
              /\ line'.level = line.level /\ line'.flips = line.flips /\ line'.run = line.run
              /\ line'.left = line.left - Parts /\ line'.late = line.late
         /\ line'.left \in Int /\ line'.late \in Int
         /\ line'.sender = line.sender
<1>1. line'.left \in Int /\ line'.late \in Int
  <2>1. line' \in [level : BOOLEAN, flips : BOOLEAN, left : 1..(2 * BitLength),
                   late : Int, run : 0..MaxRun, sender : Senders]
    BY LineInv DEF LineOK
  <2> QED
    BY <2>1
<1>2. ASSUME Ends
      PROVE  /\ line'.level = (line.level # line.flips)
             /\ line'.run = IF line.flips THEN 0 ELSE line.run + 1
             /\ line'.left - line'.late =
                  line.left - line.late - Parts + BitLength + line.sender.drift
             /\ Parts < line'.left /\ line'.sender = line.sender
  <2>1. PICK b \in NextBits : line' = b
    BY <1>2 DEF Sample
  <2>2. PICK f \in BOOLEAN, j \in {-line.sender.jitter, 0, line.sender.jitter} :
              b = [level |-> line.level # line.flips, flips |-> f,
                   left |-> line.left - Parts + BitLength + line.sender.drift + j - line.late,
                   late |-> j, run |-> IF line.flips THEN 0 ELSE line.run + 1,
                   sender |-> line.sender]
    BY <2>1 DEF NextBits
  <2>3. /\ line'.level = (line.level # line.flips)
        /\ line'.run = IF line.flips THEN 0 ELSE line.run + 1
        /\ line'.left = line.left - Parts + BitLength + line.sender.drift + j - line.late
        /\ line'.late = j /\ line'.sender = line.sender
    BY <2>1, <2>2
  <2>4. /\ line.sender.jitter \in Nat /\ line.sender.drift \in Int /\ line.sender \in Senders
        /\ line.late \in {-line.sender.jitter, 0, line.sender.jitter}
        /\ line.left \in Int /\ 1 <= line.left /\ line.left <= Parts
        /\ BitLength \in Nat /\ Parts \in Nat
    BY <1>2, LineFields, SenderBounds, BitsAreLong, Constants DEF Ends
  <2>5. j \in Int /\ line.late \in Int
    BY <2>4
  <2>6. Parts < line.left - Parts + BitLength + line.sender.drift + j - line.late
    BY <2>4, NextEnd
  <2> QED
    BY <2>3, <2>4, <2>5, <2>6
<1>3. ASSUME ~Ends
      PROVE  /\ line'.level = line.level /\ line'.flips = line.flips /\ line'.run = line.run
             /\ line'.left = line.left - Parts /\ line'.late = line.late
             /\ line'.sender = line.sender
  <2>1. line' = [line EXCEPT !.left = line.left - Parts]
    BY <1>3 DEF Sample
  <2> QED
    BY <2>1 DEF LineOK
<1> QED
  BY <1>1, <1>2, <1>3

LEMMA SameSender ==
  ASSUME LineOK, Sample
  PROVE  Jitter' = Jitter /\ Drift' = Drift
  BY LineStep DEF Jitter, Drift, Grain, Magnitude

(* A sample brings the end of the bit one tick nearer, whatever the jitter. *)
LEMMA Moves ==
  ASSUME LineOK, Sample
  PROVE  \E d \in Int : /\ -Drift <= d /\ d <= Drift
                        /\ Ahead' = Ahead - Tick + (IF Ends THEN 2 * Half + d ELSE 0)
<1>1. PICK n \in Int, d \in Int : n = line.left /\ d = line.late
  <2>1. line.sender.jitter \in Nat /\ line.late \in {-line.sender.jitter, 0, line.sender.jitter}
        /\ line.left \in Int
    BY LineFields, SenderBounds
  <2> QED
    BY <2>1
<1>2. PICK x \in Int : x = n - d
  BY <1>1
<1>3. Grain * x \in Int /\ Grain * (x - Parts) = Grain * x - Tick /\ x \in Int
  BY Place, <1>2
<1>4. CASE Ends
  <2>1. PICK b \in Int, g \in Nat : b = BitLength /\ g = Grain /\ g * b = 2 * Half
    BY Grains
  <2>2. PICK o \in Int, m \in Nat : o = line.sender.drift /\ m = Magnitude(o) /\ -m <= o /\ o <= m
    BY LineFields, SenderBounds DEF Magnitude
  <2>3. PICK v \in Int : v = g * o
    BY <2>1, <2>2
  <2>4. -Drift <= v /\ v <= Drift
    <3>1. (-m) * g <= o * g /\ o * g <= m * g
      BY <2>1, <2>2, Times
    <3>2. (-m) * g = -(g * m) /\ o * g = g * o /\ m * g = g * m
      BY <2>1, <2>2
    <3>3. Drift = g * m /\ g * m \in Nat
      BY <2>1, <2>2 DEF Drift
    <3> QED
      BY <2>3, <3>1, <3>2, <3>3
  <2>5. line'.left - line'.late = (x - Parts) + b + o
    BY <1>1, <1>2, <1>4, <2>1, <2>2, LineStep, Constants
  <2>6. PICK y \in Int : y = x - Parts
    BY <1>2, Constants
  <2>7. g * (y + b + o) = g * y + g * b + g * o
    BY <2>1, <2>2, <2>6
  <2>8. Grain' = Grain
    BY DEF Grain
  <2>9. Ahead' = g * (y + b + o)
    BY <2>1, <2>5, <2>6, <2>8 DEF Ahead
  <2>10. PICK a \in Int : a = Ahead /\ g * y = a - Tick
    BY <1>1, <1>2, <1>3, <2>1, <2>6 DEF Ahead
  <2>11. Ahead' = a - Tick + (2 * Half + v)
    BY <2>1, <2>3, <2>7, <2>9, <2>10, Constants
  <2> QED
    BY <1>4, <2>3, <2>4, <2>10, <2>11
<1>5. CASE ~Ends
  <2>1. line'.left - line'.late = x - Parts
    BY <1>1, <1>2, <1>5, LineStep, Constants
  <2>2. Ahead' = Grain * (x - Parts)
    BY <2>1 DEF Ahead, Grain
  <2>3. Ahead = Grain * x
    BY <1>1, <1>2 DEF Ahead
  <2>4. -Drift <= 0 /\ 0 <= Drift
    BY Bounds
  <2> QED
    BY <1>3, <1>5, <2>2, <2>3, <2>4, Constants
<1> QED
  BY <1>4, <1>5

(* The clock wraps, and samples a bit, in the tick that reaches PHASE_MAX.  *)
LEMMA Wraps ==
  ASSUME ClockOK
  PROVE  /\ Samples <=> pll_clock + Tick >= Half
         /\ Ticked = pll_clock + Tick - (IF Samples THEN 2 * Half ELSE 0)
  BY Constants DEF ClockOK, Samples, Ticked, WrapPhase


(* Only a change of the line is a crossing, and there the clock is drawn to *)
(* where the change lies between the two samples.                           *)
LEMMA Drawn ==
  ASSUME LineOK, ClockOK, Read, Sample, Crosses(Soft)
  PROVE  /\ Ends /\ line.flips
         /\ pll_clock' = Corrected(Ticked, Tick - Left, transition_history')
         /\ transition_history' = Append(Tail(transition_history),
                                         10 * Magnitude(pll_clock + Left) < Half)
         /\ data_detect' = Detect(transition_history')
<1>1. PICK n \in Int : n = line.left /\ 1 <= n
  BY LineFields, BitsAreLong, Constants
<1>2. PICK x \in 0..Parts : last_soft_bit = Sign * x
  BY DEF Read
<1>3. Sign \in {1, -1} /\ Parts \in Nat /\ Parts # 0
  BY Constants DEF Sign
<1>4. PICK a \in Int : /\ Soft = Sign * a
                       /\ a = IF line.flips THEN Smaller(n - Parts, Parts) ELSE Parts
  BY <1>1, <1>3 DEF Soft, Smaller
<1>5. x # 0 /\ a < 0
  <2>1. (Sign * x) * (Sign * a) < 0
    BY <1>2, <1>4 DEF Crosses
  <2>2. (Sign * x) * (Sign * a) = x * a
    BY <1>3
  <2>3. x * a < 0 /\ x \in Nat
    BY <2>1, <2>2
  <2>4. x # 0
    BY <2>3
  <2>5. ASSUME 0 <= a PROVE FALSE
    <3>1. 0 * x <= a * x
      BY <2>3, <2>5, Times
    <3> QED
      BY <2>3, <3>1
  <2> QED
    BY <2>4, <2>5
<1>6. line.flips /\ n < Parts /\ a = n - Parts
  BY <1>1, <1>3, <1>4, <1>5 DEF Smaller
<1>7. Ends
  BY <1>1, <1>3, <1>6 DEF Ends
<1>8. last_soft_bit = Sign * n
  <2>1. last_soft_bit # 0
    BY <1>2, <1>3, <1>5
  <2> QED
    BY <1>1, <1>6, <1>7, <2>1 DEF Read
<1>9. Magnitude(last_soft_bit) = n /\ Magnitude(Soft) = Parts - n
  BY <1>1, <1>3, <1>4, <1>6, <1>8 DEF Magnitude
<1>10. PICK g \in Nat : g = Grain /\ g # 0 /\ g * Parts = Tick
  BY Grains
<1>11. PICK l \in Int : l = Left /\ l = g * n
  BY <1>1, <1>10 DEF Left
<1>12. (Tick * n) \div Parts = l /\ (Tick * (Parts - n)) \div Parts = Tick - l
  <2>1. Tick * n = Parts * l
    <3>1. (g * Parts) * n = Parts * (g * n)
      BY <1>1, <1>3, <1>10
    <3> QED
      BY <1>10, <1>11, <3>1
  <2>2. Tick * (Parts - n) = Parts * (Tick - l)
    <3>1. Tick * (Parts - n) = Tick * Parts - Tick * n
      BY <1>1, <1>3, Constants
    <3>2. Parts * (Tick - l) = Parts * Tick - Parts * l
      BY <1>3, <1>11, Constants
    <3>3. Tick * Parts = Parts * Tick
      BY <1>3, Constants
    <3> QED
      BY <2>1, <3>1, <3>2, <3>3
  <2>3. Tick - l \in Int /\ Parts \in Nat \ {0}
    BY <1>11, Constants
  <2> QED
    BY <1>11, <2>1, <2>2, <2>3, Exact
<1>13. Correction(Soft)
  BY Zenon DEF Sample, BitclkDetect
<1>14. Magnitude(Soft) + Magnitude(last_soft_bit) = Parts
  BY <1>1, <1>3, <1>9
<1> DEFINE delta == Magnitude(Soft) + Magnitude(last_soft_bit)
           good == 10 * Magnitude(pll_clock + (Tick * Magnitude(last_soft_bit)) \div delta) < Half
<1>15. /\ transition_history' = Append(Tail(transition_history), good)
       /\ data_detect' = Detect(transition_history')
       /\ pll_clock' = Corrected(Ticked, (Tick * Magnitude(Soft)) \div delta, transition_history')
  BY <1>13, Zenon DEF Correction
<1>16. /\ (Tick * Magnitude(last_soft_bit)) \div delta = Left
       /\ (Tick * Magnitude(Soft)) \div delta = Tick - Left
  BY <1>9, <1>11, <1>12, <1>14, Zenon
<1> HIDE DEF delta
<1>17. /\ transition_history' = Append(Tail(transition_history),
                                       10 * Magnitude(pll_clock + Left) < Half)
       /\ pll_clock' = Corrected(Ticked, Tick - Left, transition_history')
  BY <1>15, <1>16, Zenon
<1> QED
  BY <1>6, <1>7, <1>15, <1>17

LEMMA NotDrawn ==
  ASSUME Sample, ~Crosses(Soft)
  PROVE  pll_clock' = Ticked /\ UNCHANGED <<transition_history, data_detect>>
  BY DEF Sample, BitclkDetect

LEMMA ReadInv ==
  ASSUME LineOK, ClockOK, Read, Sample
  PROVE  Read'
<1>1. PICK n \in Int : n = line.left /\ 1 <= n
  BY LineFields, BitsAreLong, Constants
<1>2. Parts \in Nat /\ Parts # 0 /\ last_soft_bit' = Soft
  BY Constants DEF Sample, BitclkDetect
<1>3. /\ line.level \in BOOLEAN /\ line.flips \in BOOLEAN
  BY LineFields
<1>4. CASE Ends
  <2>1. n <= Parts
    BY <1>1, <1>4 DEF Ends
  <2>2. \E x \in 0..Parts : last_soft_bit' = Sign' * x
    <3>1. CASE line.flips
      <4>1. Soft = Sign * (n - Parts)
        BY <1>1, <1>2, <2>1, <3>1 DEF Soft, Smaller
      <4>2. line'.level = ~line.level
        BY <1>3, <1>4, <3>1, LineStep, Zenon
      <4>3. (Sign = 1 /\ Sign' = -1) \/ (Sign = -1 /\ Sign' = 1)
        <5>1. CASE line.level
          <6>1. ~line'.level
            BY <4>2, <5>1
          <6> QED
            BY <5>1, <6>1 DEF Sign
        <5>2. CASE ~line.level
          <6>1. line'.level
            BY <4>2, <5>2
          <6> QED
            BY <5>2, <6>1 DEF Sign
        <5> QED
          BY <5>1, <5>2
      <4>4. last_soft_bit' = Sign' * (Parts - n) /\ Parts - n \in 0..Parts
        BY <1>1, <1>2, <2>1, <4>1, <4>3
      <4> QED
        BY <4>4
    <3>2. CASE ~line.flips
      <4>1. line'.level = line.level
        <5>1. line'.level = (line.level # line.flips)
          BY <1>4, LineStep
        <5>2. (line.level # line.flips) = line.level
          BY <1>3, <3>2
        <5> QED
          BY <5>1, <5>2
      <4>2. Sign' = Sign /\ Soft = Sign * Parts
        BY <4>1, <3>2 DEF Sign, Soft
      <4>3. last_soft_bit' = Sign' * Parts /\ Parts \in 0..Parts
        BY <1>2, <4>2
      <4> QED
        BY <4>3
    <3> QED
      BY <3>1, <3>2
  <2>3. ~Ends'
    <3>1. Parts < line'.left /\ line'.left \in Int
      BY <1>4, LineStep
    <3> QED
      BY <1>2, <3>1 DEF Ends
  <2>4. Ahead' > 2 * Half - Tick - Jitter' - Drift'
    <3>1. PICK a \in Int, l \in Int, d \in Int :
            /\ a = Ahead /\ l = Left /\ 1 <= l /\ l - a <= Jitter
            /\ -Drift <= d /\ Ahead' = a - Tick + (2 * Half + d)
      BY <1>4, Here, Moves
    <3> QED
      BY <3>1, Bounds, SameSender
  <2> QED
    BY <2>2, <2>3, <2>4 DEF Read
<1>5. CASE ~Ends
  <2>1. Parts < n
    BY <1>1, <1>2, <1>5 DEF Ends
  <2>2. PICK a \in 1..Parts : Soft = Sign * a /\ (line.flips => a = Smaller(n - Parts, Parts))
    BY <1>1, <1>2, <2>1 DEF Soft, Smaller
  <2>3. line'.level = line.level /\ line'.flips = line.flips /\ line'.left = n - Parts
    BY <1>1, <1>5, LineStep
  <2>4. Sign' = Sign /\ Sign \in {1, -1}
    BY <2>3 DEF Sign
  <2>5. last_soft_bit' = Sign' * a /\ a \in 0..Parts
    BY <1>2, <2>2, <2>4
  <2>6. last_soft_bit' # 0
    BY <2>2, <2>4, <2>5
  <2>7. ASSUME line'.flips, Ends' PROVE last_soft_bit' = Sign' * line'.left
    <3>1. n - Parts <= Parts
      BY <2>3, <2>7 DEF Ends
    <3>2. a = n - Parts
      BY <1>1, <1>2, <2>2, <2>3, <2>7, <3>1 DEF Smaller
    <3> QED
      BY <2>3, <2>5, <3>2
  <2> QED
    BY <2>5, <2>6, <2>7 DEF Read
<1> QED
  BY <1>4, <1>5


LEMMA HeardInv ==
  ASSUME LineOK, ClockOK, Read, Heard, Sample
  PROVE  Heard'
<1>1. PICK a \in Int, l \in Int, d \in Int :
        /\ a = Ahead /\ l = Left /\ 1 <= l /\ l - a <= Jitter
        /\ -Drift <= d /\ Ahead' = a - Tick + (IF Ends THEN 2 * Half + d ELSE 0)
  BY Here, Moves
<1>2. PICK c \in Int, p \in Int :
        c = pll_clock /\ -Half <= c /\ c < Half /\ p = pll_clock' /\ -Half <= p
  BY ClockStep, Constants DEF ClockOK
<1>3. /\ Half \in Nat /\ Tick \in Nat /\ Tick # 0 /\ 4 * Tick <= Half
      /\ Jitter \in Nat /\ Drift \in Nat /\ Jitter' = Jitter /\ Drift' = Drift
  BY Bounds, SameSender
<1>4. CASE Ends
  <2>1. PICK b \in Int : b = Ahead' /\ b = a - Tick + 2 * Half + d
    BY <1>1, <1>3, <1>4
  <2>2. b + p > Half - 2 * Tick - Jitter - Drift
    <3>1. PICK j \in Nat, o \in Nat, h \in Nat, t \in Nat :
            j = Jitter /\ o = Drift /\ h = Half /\ t = Tick
      BY <1>3
    <3>2. l - a <= j /\ -o <= d /\ b = a - t + 2 * h + d /\ -h <= p
      BY <1>1, <1>2, <2>1, <3>1
    <3>3. b + p > h - 2 * t - j - o
      BY <1>1, <3>1, <3>2
    <3> QED
      BY <3>1, <3>3
  <2>3. Ahead' + pll_clock' > Half - 2 * Tick - Jitter' - Drift'
    BY <1>2, <1>3, <2>1, <2>2
  <2> QED
    BY <2>3 DEF Heard
<1>5. CASE ~Ends
  <2>1. /\ pll_clock' = Ticked /\ transition_history' = transition_history
        /\ Ahead' = a - Tick
    BY <1>1, <1>3, <1>5, Drawn, NotDrawn
  <2>2. line'.level = line.level
    BY <1>5, LineStep
  <2>3. CASE Samples
    <3>1. c + Tick >= Half /\ p = c + Tick - 2 * Half
      BY <1>2, <2>1, <2>3, Wraps
    <3>2. CASE last_soft_bit = 0
      <4>1. pll_clock # 0
        BY <1>2, <1>3, <3>1
      <4>2. a > 2 * Half - Tick - Jitter - Drift
        BY <1>1, <3>2, <4>1 DEF Read
      <4>3. Ahead' + pll_clock' > Half - 2 * Tick - Jitter' - Drift'
        BY <1>1, <1>2, <1>3, <2>1, <3>1, <4>2
      <4> QED
        BY <4>3 DEF Heard
    <3>3. CASE last_soft_bit # 0
      <4>1. last_soft_bit > 0 <=> line.level
        BY <3>3, Constants DEF Read, Sign
      <4>2. nrzi_bit' = (last_soft_bit > 0)
        BY <2>3, Zenon DEF Sample
      <4>3. nrzi_bit' <=> line'.level
        BY <2>2, <4>1, <4>2
      <4> QED
        BY <4>3 DEF Heard
    <3> QED
      BY <3>2, <3>3
  <2>4. CASE ~Samples
    <3>1. nrzi_bit' = nrzi_bit
      BY <2>4 DEF Sample
    <3>2. p = c + Tick
      BY <1>2, <1>3, <2>1, <2>4, Wraps
    <3>3. CASE Quality(transition_history) = 0
      <4>1. Quality(transition_history)' = 0
        BY <2>1, <3>3 DEF Quality
      <4> QED
        BY <4>1 DEF Heard
    <3>4. CASE Ahead + pll_clock > Half - 2 * Tick - Jitter - Drift
      <4>1. Ahead' + pll_clock' > Half - 2 * Tick - Jitter' - Drift'
        BY <1>1, <1>2, <1>3, <2>1, <3>2, <3>4
      <4> QED
        BY <4>1 DEF Heard
    <3>5. CASE nrzi_bit <=> line.level
      <4>1. nrzi_bit' <=> line'.level
        BY <2>2, <3>1, <3>5
      <4> QED
        BY <4>1 DEF Heard
    <3> QED
      BY <3>3, <3>4, <3>5 DEF Heard
  <2> QED
    BY <2>3, <2>4
<1> QED
  BY <1>4, <1>5

(* A clock that is in step wraps in the middle of the bit, and only there:  *)
(* not a second time, and never in the tick in which the bit ends.          *)
LEMMA InTheMiddle ==
  ASSUME LineOK, ClockOK, Read, taken[1] \in {0, 1}, Near
  PROVE  /\ Ends => taken[1] = 1
         /\ taken[1] = 1 => ~Samples
         /\ Samples => (last_soft_bit > 0 <=> line.level)
<1>1. PICK a \in Int, l \in Int :
        /\ a = Ahead /\ l = Left /\ 1 <= l /\ l - a <= Jitter /\ a - l <= Jitter
        /\ Ends <=> l <= Tick
  BY Here
<1>2. PICK c \in Int : c = pll_clock /\ -Half <= c /\ c < Half
  BY Constants DEF ClockOK
<1>3. /\ Half \in Nat /\ Tick \in Nat /\ Jitter \in Nat /\ Drift \in Nat /\ Fifth \in Nat
      /\ Tick # 0 /\ 4 * Tick <= Half /\ 5 * Fifth <= Half
      /\ 11 * (Tick + Jitter) <= 4 * Half
  BY Bounds
<1>4. PICK s \in Nat : /\ 2 * Drift <= s /\ 5 * s <= Fifth
                       /\ Far(line.run) <= Fifth + Jitter + s
  BY Bounds
<1>5. PICK e \in Int : /\ -(Fifth + Jitter + s) <= e /\ e <= Fifth + Jitter + s
                       /\ e = c + a - (IF taken[1] = 0 THEN 2 * Half ELSE 0)
  <2>1. PICK e \in Int : e = Error /\ e = c + a - (IF taken[1] = 0 THEN 2 * Half ELSE 0)
    <3>1. Error = c + a - (IF taken[1] = 0 THEN 2 * Half ELSE 0)
      BY <1>1, <1>2 DEF Error
    <3>2. c + a - (IF taken[1] = 0 THEN 2 * Half ELSE 0) \in Int
      BY <1>3
    <3> QED
      BY <3>1, <3>2
  <2>2. -Far(line.run) <= e /\ e <= Far(line.run) /\ Far(line.run) \in Nat
    BY <2>1, Bounds DEF Near
  <2> QED
    BY <1>3, <1>4, <2>1, <2>2
<1>6. Ends => taken[1] = 1
  BY <1>1, <1>2, <1>3, <1>4, <1>5
<1>7. taken[1] = 1 => ~Samples
  BY <1>1, <1>2, <1>3, <1>4, <1>5, Wraps
<1>8. ASSUME Samples PROVE last_soft_bit > 0 <=> line.level
  <2>1. taken[1] = 0 /\ c + Tick >= Half
    BY <1>2, <1>7, <1>8, Wraps
  <2>2. c # 0 /\ ~(a > 2 * Half - Tick - Jitter - Drift)
    BY <1>1, <1>2, <1>3, <1>4, <1>5, <2>1
  <2>3. last_soft_bit # 0
    BY <1>1, <1>2, <2>2 DEF Read
  <2> QED
    BY <2>3, Constants DEF Read, Sign
<1> QED
  BY <1>6, <1>7, <1>8


LEMMA TakenStep ==
  ASSUME Sample, taken[1] \in {0, 1}, taken[1] = 1 => ~Samples
  PROVE  /\ Ends => /\ taken'[1] = 0
                    /\ taken'[2] = IF Samples THEN 1 ELSE taken[1]
         /\ ~Ends => /\ taken'[1] = IF Samples THEN 1 ELSE taken[1]
                     /\ taken'[2] = taken[2]
<1>1. Smaller(2, taken[1] + (IF Samples THEN 1 ELSE 0)) = IF Samples THEN 1 ELSE taken[1]
  BY DEF Smaller
<1> QED
  BY <1>1 DEF Sample

LEMMA LockedStep ==
  ASSUME Sample, data_detect', locked \in 0..2
  PROVE  /\ Ends => locked' = Smaller(2, locked + 1)
         /\ ~Ends => locked' = locked
<1>1. locked' = Smaller(2, locked + (IF Ends THEN 1 ELSE 0))
  BY DEF Sample
<1> QED
  BY <1>1 DEF Smaller

(* The level the decoder holds, and the one the next bit is compared with.  *)
LEMMA NextLevel ==
  ASSUME LineOK, Sample, Ends, nrzi_bit <=> line.level
  PROVE  (nrzi_bit <=> line'.level) <=> line'.run # 0
<1>1. /\ line'.level = (line.level # line.flips)
      /\ line'.run = IF line.flips THEN 0 ELSE line.run + 1
      /\ line.level \in BOOLEAN /\ line.flips \in BOOLEAN /\ line.run \in Nat
  BY LineStep, LineFields, Constants
<1>2. CASE line.flips
  <2>1. line'.run = 0
    BY <1>1, <1>2
  <2>2. line'.level <=> ~line.level
    BY <1>1, <1>2
  <2> QED
    BY <2>1, <2>2
<1>3. CASE ~line.flips
  <2>1. line'.run # 0
    BY <1>1, <1>3
  <2>2. line'.level <=> line.level
    BY <1>1, <1>3
  <2> QED
    BY <2>1, <2>2
<1> QED
  BY <1>2, <1>3

LEMMA Distributes ==
  ASSUME NEW a \in Int, NEW b \in Int, NEW c \in Int, NEW w \in Int
  PROVE  /\ (a + b + c) * w = a * w + b * w + c * w /\ (a + b) * w = a * w + b * w
         /\ (-a) * w = -(a * w) /\ a * (b + c) = a * b + a * c
         /\ a * w \in Int /\ b * w \in Int /\ c * w \in Int
  OBVIOUS

LEMMA MeanBounds ==
  ASSUME NEW w \in Nat \ {0}, NEW p \in Nat, p <= w, 100 * p <= 82 * w,
         NEW f \in Nat, NEW j \in Nat, NEW s \in Nat, 5 * s <= f,
         NEW e \in Int, -(f + j + s) <= e, e <= f + j + s,
         NEW g \in Int, -j <= g, g <= j
  PROVE  -((f + j) * w) <= e * p + g * (w - p) /\ e * p + g * (w - p) <= (f + j) * w
<1>1. PICK r \in Nat : r = w - p
  OBVIOUS
<1>2. PICK fw \in Int, sw \in Int, fp \in Int, sp \in Int :
        fw = f * w /\ sw = s * w /\ fp = f * p /\ sp = s * p
  BY Distributes
<1>3. PICK jp \in Int, jr \in Int, jw \in Int : jp = j * p /\ jr = j * r /\ jw = j * w
  BY <1>1, Distributes
<1>4. PICK ep \in Int, gr \in Int : ep = e * p /\ gr = g * r
  BY <1>1, Distributes
<1>5. 100 * (fp + sp) <= 82 * (fw + sw)
  <2>1. PICK x \in Int, y \in Int, z \in Nat : x = 100 * p /\ y = 82 * w /\ z = f + s /\ x <= y
    OBVIOUS
  <2>2. x * z <= y * z
    BY <2>1, Times
  <2>3. (100 * p) * (f + s) = 100 * (f * p + s * p)
    OBVIOUS
  <2>4. (82 * w) * (f + s) = 82 * (f * w + s * w)
    OBVIOUS
  <2> QED
    BY <1>2, <2>1, <2>2, <2>3, <2>4
<1>6. 5 * sw <= fw /\ 0 <= fw
  <2>1. (5 * s) * w <= f * w /\ 0 * w <= f * w
    BY Times
  <2>2. (5 * s) * w = 5 * (s * w)
    OBVIOUS
  <2> QED
    BY <1>2, <2>1, <2>2
<1>7. fp + sp <= fw
  BY <1>2, <1>5, <1>6
<1>8. jp + jr = jw
  <2>1. j * (p + r) = j * p + j * r
    BY <1>1, Distributes
  <2>2. p + r = w
    BY <1>1
  <2> QED
    BY <1>3, <2>1, <2>2
<1>9. ep <= fp + jp + sp /\ -(fp + jp + sp) <= ep
  <2>1. PICK m \in Nat : m = f + j + s
    OBVIOUS
  <2>2. e * p <= m * p /\ (-m) * p <= e * p
    BY <2>1, Times
  <2>3. m * p = fp + jp + sp
    BY <1>2, <1>3, <2>1, Distributes
  <2>4. (-m) * p = -(m * p)
    BY <2>1, Distributes
  <2> QED
    BY <1>2, <1>3, <1>4, <2>2, <2>3, <2>4
<1>10. gr <= jr /\ -jr <= gr
  <2>1. g * r <= j * r /\ (-j) * r <= g * r
    BY <1>1, Times
  <2>2. (-j) * r = -(j * r)
    BY <1>1, Distributes
  <2> QED
    BY <1>3, <1>4, <2>1, <2>2
<1>11. (f + j) * w = fw + jw
  BY <1>2, <1>3, Distributes
<1>12. -(fw + jw) <= ep + gr /\ ep + gr <= fw + jw
  BY <1>2, <1>3, <1>4, <1>7, <1>8, <1>9, <1>10
<1> QED
  BY <1>1, <1>4, <1>11, <1>12

LEMMA Wider ==
  ASSUME NEW x \in Int, NEW b \in Int, NEW d \in Int, NEW o \in Int,
         x <= b, -b <= x, d <= o, -o <= d
  PROVE  -(b + o) <= x + d /\ x + d <= b + o
  OBVIOUS

LEMMA MeanInside ==
  ASSUME NEW w \in Nat \ {0}, NEW p \in Nat, p <= w, 100 * p <= 82 * w,
         NEW f \in Nat, NEW j \in Nat, NEW s \in Nat, 5 * s <= f,
         NEW e \in Int, -(f + j + s) <= e, e <= f + j + s,
         NEW g \in Int, -j <= g, g <= j, NEW t \in Int
  PROVE  ((e + t) * p + (g + t) * (w - p)) \div w \in (t - (f + j))..(t + (f + j))
<1>1. PICK m \in Int : m = f + j
  OBVIOUS
<1>2. PICK x \in Int, y \in Int, tw \in Int :
        x = m * w /\ y = e * p + g * (w - p) /\ tw = t * w
  BY <1>1
<1>3. -x <= y /\ y <= x
  BY <1>1, <1>2, MeanBounds
<1>4. (e + t) * p + (g + t) * (w - p) = y + tw
  <2>1. (e + t) * p + (g + t) * (w - p) = e * p + g * (w - p) + t * w
    OBVIOUS
  <2> QED
    BY <1>2, <2>1
<1>5. (t - m) * w = tw - x /\ (t + m) * w = tw + x
  BY <1>1, <1>2
<1>6. PICK a \in Int, lo \in Int, hi \in Int : a = y + tw /\ lo = t - m /\ hi = t + m
  BY <1>1, <1>2
<1>7. lo * w <= a /\ a <= hi * w
  BY <1>2, <1>3, <1>5, <1>6
<1>8. a \div w \in lo..hi
  BY <1>6, <1>7, QuotientBetween
<1> QED
  BY <1>1, <1>4, <1>6, <1>8

(* A correction takes away at least 18 hundredths of the error: so what the *)
(* drift has added since the last one.                                      *)
LEMMA Pulled ==
  ASSUME NEW h \in [1..History -> BOOLEAN], NEW f \in Nat, NEW j \in Nat, NEW s \in Nat,
         5 * s <= f,
         NEW e \in Int, -(f + j + s) <= e, e <= f + j + s,
         NEW g \in Int, -j <= g, g <= j, NEW t \in Int
  PROVE  Corrected(e + t, g + t, h) \in (t - (f + j))..(t + (f + j))
<1>1. PICK w \in Nat \ {0}, p \in Nat : /\ w = 100 * History /\ p = Inertia(h)
                                         /\ 100 * p <= 82 * w /\ p <= w
  <2>1. PICK q \in 0..History : q = Quality(h)
    BY QualityBounds
  <2>2. PICK n \in Nat : n = History /\ n # 0
    BY Constants
  <2>3. Inertia(h) = 28 * n + 54 * q /\ q <= n /\ q \in Nat
    BY <2>1, <2>2 DEF Inertia
  <2> QED
    BY <2>2, <2>3
<1>2. ((e + t) * p + (g + t) * (w - p)) \div w \in (t - (f + j))..(t + (f + j))
  <2>1. w \in Nat \ {0} /\ p \in Nat /\ p <= w /\ 100 * p <= 82 * w
    BY <1>1
  <2> HIDE <1>1
  <2> QED
    BY <2>1, MeanInside, Zenon
<1>3. Corrected(e + t, g + t, h) = ((e + t) * p + (g + t) * (w - p)) \div w
  BY <1>1, Zenon DEF Corrected
<1> QED
  BY <1>2, <1>3, Zenon

(* What the next bit adds to a clock that has just been drawn.              *)
LEMMA NearAfter ==
  ASSUME LineOK, Sample, Ends, line.flips, NEW p \in Int, p = pll_clock',
         p + Ahead - Tick <= Fifth + Jitter, -(Fifth + Jitter) <= p + Ahead - Tick
  PROVE  Near'
<1>1. PICK a \in Int, d \in Int :
        /\ a = Ahead /\ -Drift <= d /\ d <= Drift /\ Ahead' = a - Tick + (2 * Half + d)
  BY Here, Moves
<1>2. /\ Half \in Nat /\ Tick \in Nat /\ Jitter \in Nat /\ Drift \in Nat /\ Fifth \in Nat
      /\ Jitter' = Jitter /\ Drift' = Drift
  BY Bounds, SameSender
<1>3. Far(line.run)' = Fifth + Jitter + Drift
  <2>1. line'.run = 0
    BY LineStep
  <2>2. Far(line.run)' = Fifth + Jitter' + (line'.run + 1) * Drift'
    BY DEF Far, Fifth
  <2> QED
    BY <1>2, <2>1, <2>2
<1>4. Error' = p + a - Tick + d
  <2>1. taken'[1] = 0
    BY DEF Sample
  <2> QED
    BY <1>1, <1>2, <2>1 DEF Error
<1>5. PICK j \in Nat, o \in Nat, f \in Nat, t \in Nat :
        j = Jitter /\ o = Drift /\ f = Fifth /\ t = Tick
  BY <1>2
<1>6. p + a - t <= f + j /\ -(f + j) <= p + a - t
  BY <1>1, <1>5, Zenon
<1>7. -o <= d /\ d <= o
  BY <1>1, <1>5, Zenon
<1>8. -(f + j + o) <= p + a - t + d /\ p + a - t + d <= f + j + o
  <2>1. p + a - t \in Int /\ f + j \in Int /\ o \in Int
    OBVIOUS
  <2> QED
    BY <1>6, <1>7, <2>1, Wider, Zenon
<1>9. Error' = p + a - t + d /\ Far(line.run)' = f + j + o
  BY <1>3, <1>4, <1>5, Zenon
<1> QED
  BY <1>8, <1>9, Zenon DEF Near

(* A change of a line at another rate than the receiver's is never missed:  *)
(* it lies between two samples.                                             *)
LEMMA AllCross ==
  ASSUME LineOK, Read, Sample, Ends, line.flips, last_soft_bit # 0, ~Crosses(Soft)
  PROVE  Drift = 0
<1>1. PICK n \in Int : n = line.left /\ 1 <= n /\ n <= Parts
  BY LineFields, BitsAreLong, Constants DEF Ends
<1>2. Sign \in {1, -1} /\ Parts \in Nat /\ Parts # 0
  BY Constants DEF Sign
<1>3. last_soft_bit = Sign * n
  BY <1>1 DEF Read
<1>4. Soft = Sign * (n - Parts)
  BY <1>1, <1>2 DEF Soft, Smaller
<1>5. n = Parts
  <2> SUFFICES ASSUME n < Parts PROVE FALSE
    BY <1>1, <1>2
  <2>1. (Sign * n) * (Sign * (n - Parts)) = n * (n - Parts)
    BY <1>1, <1>2
  <2>2. n * (n - Parts) < 0
    <3>1. PICK k \in Nat : k = Parts - n /\ k # 0
      BY <1>1, <1>2
    <3>2. 1 * k <= n * k
      BY <1>1, <3>1, Times
    <3>3. n * (n - Parts) = -(n * k)
      BY <1>1, <1>2, <3>1
    <3>4. n * k \in Int
      BY <1>1, <3>1
    <3> QED
      BY <3>1, <3>2, <3>3, <3>4
  <2> QED
    BY <1>3, <1>4, <2>1, <2>2 DEF Crosses
<1>6. line.left % Parts = 0
  <2>1. PICK w \in Nat \ {0} : w = Parts
    BY <1>2
  <2>2. w - w = 0 /\ 0 % w = 0
    OBVIOUS
  <2>3. w % w = 0
    BY <2>2, SampleEarlier
  <2> QED
    BY <1>1, <1>5, <2>1, <2>3
<1>7. line.sender.drift = 0
  BY <1>6 DEF LineOK, BetweenSamples
<1>8. Magnitude(line.sender.drift) = 0 /\ Grain \in Nat
  BY <1>7, Grains DEF Magnitude
<1> QED
  BY <1>8 DEF Drift

(* A clock that is near stays near: ticks and wraps move it as the line     *)
(* moves, and a correction draws it to the crossing, which jitter moves.    *)
LEMMA StaysNear ==
  ASSUME LineOK, ClockOK, Read, Sample, taken[1] \in {0, 1}, Near, Ends => last_soft_bit # 0
  PROVE  Near'
<1>1. PICK x \in Int, y \in Int, d \in Int :
        /\ x = Ahead /\ y = Left /\ 1 <= y /\ y - x <= Jitter /\ x - y <= Jitter
        /\ -Drift <= d /\ d <= Drift
        /\ Ahead' = x - Tick + (IF Ends THEN 2 * Half + d ELSE 0)
  BY Here, Moves
<1>2. /\ Half \in Nat /\ Tick \in Nat /\ Jitter \in Nat /\ Drift \in Nat /\ Fifth \in Nat
      /\ Jitter' = Jitter /\ Drift' = Drift /\ Far(line.run) \in Nat
  BY Bounds, SameSender
<1>3. PICK s \in Nat : 5 * s <= Fifth /\ Far(line.run) <= Fifth + Jitter + s
  BY Bounds
<1>4. PICK c \in Int, p \in Int : c = pll_clock /\ p = pll_clock'
  BY ClockStep, Constants DEF ClockOK
<1>5. PICK e \in Int : /\ -Far(line.run) <= e /\ e <= Far(line.run)
                       /\ e = c + x - (IF taken[1] = 0 THEN 2 * Half ELSE 0)
  <2>1. PICK e \in Int : e = Error /\ e = c + x - (IF taken[1] = 0 THEN 2 * Half ELSE 0)
    <3>1. Error = c + x - (IF taken[1] = 0 THEN 2 * Half ELSE 0)
      BY <1>1, <1>4 DEF Error
    <3>2. c + x - (IF taken[1] = 0 THEN 2 * Half ELSE 0) \in Int
      BY <1>2
    <3> QED
      BY <3>1, <3>2
  <2> QED
    BY <2>1 DEF Near
<1>6. /\ Ends => taken[1] = 1
      /\ taken[1] = 1 => ~Samples
  BY InTheMiddle
<1>7. Error' = p + Ahead' - (IF taken'[1] = 0 THEN 2 * Half ELSE 0)
  BY <1>4 DEF Error
<1>8. Ticked = c + Tick - (IF Samples THEN 2 * Half ELSE 0)
  BY <1>4, Wraps
<1>9. CASE Crosses(Soft)
  <2>1. Ends /\ line.flips /\ taken[1] = 1 /\ ~Samples
    BY <1>6, <1>9, Drawn
  <2>2. e = c + x /\ Ticked = c + Tick
    BY <1>1, <1>2, <1>4, <1>5, <1>8, <2>1
  <2>3. PICK t \in Int, g \in Int : t = Tick - x /\ g = x - y
    BY <1>1, <1>2
  <2>4. Ticked = e + t /\ Tick - Left = g + t
    BY <1>1, <1>2, <1>4, <2>2, <2>3
  <2>5. p = Corrected(e + t, g + t, transition_history')
        /\ transition_history' \in [1..History -> BOOLEAN]
    BY <1>4, <1>9, <2>4, Drawn, ClockStep DEF ClockOK
  <2>6. -(Fifth + Jitter + s) <= e /\ e <= Fifth + Jitter + s /\ -Jitter <= g /\ g <= Jitter
    BY <1>1, <1>2, <1>3, <1>5, <2>3
  <2>7. p \in (t - (Fifth + Jitter))..(t + (Fifth + Jitter))
    BY <1>2, <1>3, <2>5, <2>6, Pulled
  <2>8. p + x - Tick <= Fifth + Jitter /\ -(Fifth + Jitter) <= p + x - Tick
    BY <1>1, <1>2, <2>3, <2>7
  <2> QED
    BY <1>1, <1>4, <2>1, <2>8, NearAfter
<1>10. CASE ~Crosses(Soft)
  <2>1. p = c + Tick - (IF Samples THEN 2 * Half ELSE 0)
    BY <1>4, <1>8, <1>10, NotDrawn
  <2>2. CASE Ends
    <3>1. taken[1] = 1 /\ ~Samples /\ taken'[1] = 0
      BY <1>6, <2>2, TakenStep
    <3>2. Error' = e + d /\ p + x - Tick = e
      BY <1>1, <1>2, <1>4, <1>5, <1>7, <2>1, <2>2, <3>1
    <3>3. PICK run \in Nat : run = line.run
      BY LineFields, Constants
    <3>4. Far(line.run) = Fifth + Jitter + (run + 1) * Drift
      BY <3>3 DEF Far
    <3>5. CASE line.flips
      <4>1. Drift = 0
        BY <1>10, <2>2, <3>5, AllCross
      <4>2. Far(line.run) = Fifth + Jitter
        BY <1>2, <3>3, <3>4, <4>1
      <4>3. p + x - Tick <= Fifth + Jitter /\ -(Fifth + Jitter) <= p + x - Tick
        BY <1>2, <1>5, <3>2, <4>2
      <4> QED
        BY <1>1, <1>4, <2>2, <3>5, <4>3, NearAfter
    <3>6. CASE ~line.flips
      <4>1. line'.run = run + 1
        BY <2>2, <3>3, <3>6, LineStep
      <4>2. Far(line.run)' = Fifth + Jitter' + (line'.run + 1) * Drift'
        BY DEF Far, Fifth
      <4>3. PICK u \in Nat : u = (run + 1) * Drift
        BY <1>2, <3>3
      <4>4. (run + 1 + 1) * Drift = u + Drift
        BY <1>2, <3>3, <4>3
      <4>5. Far(line.run)' = Fifth + Jitter + u + Drift
        BY <1>2, <4>1, <4>2, <4>3, <4>4
      <4>6. -(Fifth + Jitter + u + Drift) <= e + d /\ e + d <= Fifth + Jitter + u + Drift
        BY <1>1, <1>2, <1>5, <3>4, <4>3
      <4> QED
        BY <3>2, <4>5, <4>6 DEF Near
    <3> QED
      BY <3>5, <3>6
  <2>3. CASE ~Ends
    <3>1. taken'[1] = IF Samples THEN 1 ELSE taken[1]
      BY <1>6, <2>3, TakenStep
    <3>2. Error' = e
      <4>1. CASE Samples
        <5>1. taken[1] = 0 /\ taken'[1] = 1
          BY <1>6, <3>1, <4>1
        <5> QED
          BY <1>1, <1>2, <1>4, <1>5, <1>7, <2>1, <2>3, <4>1, <5>1
      <4>2. CASE ~Samples
        <5>1. taken'[1] = taken[1]
          BY <3>1, <4>2
        <5> QED
          BY <1>1, <1>2, <1>4, <1>5, <1>7, <2>1, <2>3, <4>2, <5>1
      <4> QED
        BY <4>1, <4>2
    <3>3. Far(line.run)' = Far(line.run)
      <4>1. line'.run = line.run
        BY <2>3, LineStep
      <4>2. Far(line.run)' = Fifth + Jitter' + (line'.run + 1) * Drift'
        BY DEF Far, Fifth
      <4> QED
        BY <1>2, <4>1, <4>2 DEF Far
    <3> QED
      BY <1>5, <3>2, <3>3 DEF Near
  <2> QED
    BY <2>2, <2>3
<1> QED
  BY <1>9, <1>10


(* Only where the line meets a sample at its change a soft bit is zero.     *)
LEMMA SoftNotZero ==
  ASSUME LineOK, Sample
  PROVE  /\ Ends => ~Ends'
         /\ ~Ends => last_soft_bit' # 0
<1>1. PICK n \in Int : n = line.left
  BY LineFields
<1>2. Sign \in {1, -1} /\ Parts \in Nat /\ Parts # 0 /\ last_soft_bit' = Soft
  BY Constants DEF Sign, Sample, BitclkDetect
<1>3. ASSUME Ends PROVE ~Ends'
  <2>1. Parts < line'.left /\ line'.left \in Int
    BY <1>3, LineStep
  <2> QED
    BY <1>2, <2>1 DEF Ends
<1>4. ASSUME ~Ends PROVE last_soft_bit' # 0
  <2>1. Parts < n
    BY <1>1, <1>2, <1>4 DEF Ends
  <2>2. PICK a \in Int : /\ Soft = Sign * a
                         /\ a = IF line.flips THEN Smaller(n - Parts, Parts) ELSE Parts
    BY <1>1, <1>2 DEF Soft, Smaller
  <2>3. a # 0
    BY <1>1, <1>2, <2>1, <2>2 DEF Smaller
  <2> QED
    BY <1>2, <2>2, <2>3
<1> QED
  BY <1>3, <1>4

LEMMA StaysInStep ==
  ASSUME Inv, Read, InStep, Sample, data_detect'
  PROVE  InStep'
<1>1. /\ LineOK /\ ClockOK /\ Counts
      /\ taken[1] \in {0, 1} /\ Near
  BY DEF Inv, InStep
<1>2. Near'
  BY <1>1, StaysNear DEF InStep
<1>3. /\ Ends => taken[1] = 1
      /\ taken[1] = 1 => ~Samples
      /\ Samples => (last_soft_bit > 0 <=> line.level)
  BY <1>1, InTheMiddle
<1>4. ASSUME Ends PROVE InStep'
  <2>1. taken[1] = 1 /\ ~Samples /\ taken'[1] = 0 /\ taken'[2] = 1
    BY <1>1, <1>3, <1>4, TakenStep
  <2>2. /\ nrzi_bit' = nrzi_bit /\ right' = right
        /\ (nrzi_bit <=> line.level) /\ right
    BY <2>1 DEF Sample, InStep
  <2>3. (nrzi_bit' <=> line'.level) <=> line'.run # 0
    BY <1>1, <1>4, <2>2, NextLevel
  <2>4. locked' \in {1, 2}
    BY <1>4, LockedStep DEF InStep, Smaller
  <2>5. ~Ends'
    BY <1>1, <1>4, SoftNotZero
  <2> QED
    BY <1>2, <2>1, <2>2, <2>3, <2>4, <2>5 DEF InStep
<1>5. ASSUME ~Ends PROVE InStep'
  <2>1. /\ taken'[1] = IF Samples THEN 1 ELSE taken[1]
        /\ taken'[2] = taken[2]
    BY <1>1, <1>3, <1>5, TakenStep
  <2>2. /\ line'.level = line.level /\ line'.run = line.run
    BY <1>1, <1>5, LineStep
  <2>3. locked' = locked /\ last_soft_bit' # 0
    BY <1>1, <1>5, LockedStep, SoftNotZero DEF InStep
  <2>4. CASE Samples
    <3>1. taken[1] = 0 /\ taken'[1] = 1
      BY <1>1, <1>3, <2>1, <2>4
    <3>2. /\ nrzi_bit' = (last_soft_bit > 0)
          /\ right' = (((last_soft_bit > 0) = nrzi_bit) = (line.run # 0))
      BY <2>4, Zenon DEF Sample, NrziDecode
    <3>3. nrzi_bit' <=> line'.level
      BY <1>3, <2>2, <2>4, <3>2
    <3>4. right'
      <4>1. nrzi_bit \in BOOLEAN
        BY <1>1 DEF Counts
      <4>2. ((last_soft_bit > 0) <=> nrzi_bit) <=> line.run # 0
        <5>1. (nrzi_bit <=> line.level) <=> line.run # 0
          BY <3>1 DEF InStep
        <5> QED
          BY <1>3, <2>4, <5>1
      <4>3. ASSUME NEW a \in BOOLEAN, NEW b \in BOOLEAN, NEW c \in BOOLEAN, (a <=> b) <=> c
            PROVE  (a = b) = c
        BY <4>3
      <4>4. (last_soft_bit > 0) \in BOOLEAN /\ (line.run # 0) \in BOOLEAN
        OBVIOUS
      <4>5. ((last_soft_bit > 0) = nrzi_bit) = (line.run # 0)
        BY <4>1, <4>2, <4>3, <4>4, Zenon
      <4> QED
        BY <3>2, <4>5, Zenon
    <3> QED
      BY <1>2, <2>1, <2>3, <3>1, <3>3, <3>4 DEF InStep
  <2>5. CASE ~Samples
    <3>1. taken'[1] = taken[1]
      BY <2>1, <2>5
    <3>2. nrzi_bit' = nrzi_bit /\ right' = right
      BY <2>5 DEF Sample
    <3> QED
      BY <1>2, <2>1, <2>2, <2>3, <3>1, <3>2 DEF InStep
  <2> QED
    BY <2>4, <2>5
<1> QED
  BY <1>4, <1>5

(* The transition that turns the detector on is a good one and not the      *)
(* first good one; so the clock has sampled the bit that ends there.        *)
LEMMA TurnsOn ==
  ASSUME Inv, Follow, ~data_detect, Sample, data_detect'
  PROVE  InStep'
<1>1. /\ LineOK /\ ClockOK /\ Counts /\ Quiet /\ Read /\ Heard /\ locked = 0
  BY DEF Inv, Follow
<1>2. Crosses(Soft)
  <2>1. CASE ~Crosses(Soft)
    <3>1. data_detect' = data_detect
      BY <2>1, NotDrawn
    <3> QED
      BY <3>1
  <2> QED
    BY <2>1
<1>3. /\ Ends /\ line.flips
      /\ pll_clock' = Corrected(Ticked, Tick - Left, transition_history')
      /\ transition_history' = Append(Tail(transition_history),
                                      10 * Magnitude(pll_clock + Left) < Half)
      /\ data_detect' = Detect(transition_history')
  BY <1>1, <1>2, Drawn
<1>4. /\ Ahead \in Int /\ Left \in Int /\ 1 <= Left
      /\ Left - Ahead <= Jitter /\ Ahead - Left <= Jitter
      /\ Jitter \in Nat /\ Drift \in Nat /\ Fifth \in Nat /\ Tick # 0
      /\ Half < 5 * Fifth + 5 /\ 11 * (Tick + Jitter) <= 4 * Half
  BY <1>1, Here, Bounds
<1>5. /\ Half \in Nat /\ Tick \in Nat /\ 4 * Tick <= Half
      /\ pll_clock \in Int /\ pll_clock' \in Int
  <2>1. ClockOK'
    BY <1>1, ClockStep
  <2>2. Half \in Nat /\ Tick \in Nat /\ 4 * Tick <= Half
    BY Constants
  <2>3. pll_clock \in Int /\ pll_clock' \in Int
    BY <1>1, <2>1, <2>2 DEF ClockOK
  <2> QED
    BY <2>2, <2>3
<1>6. transition_history \in [1..History -> BOOLEAN]
      /\ transition_history' \in [1..History -> BOOLEAN]
  BY <1>1, ClockStep DEF ClockOK
<1>7. /\ 10 * Magnitude(pll_clock + Left) < Half
      /\ Quality(transition_history) # 0
  <2>1. PICK good \in BOOLEAN : good <=> 10 * Magnitude(pll_clock + Left) < Half
    OBVIOUS
  <2>2. transition_history' = Append(Tail(transition_history), good)
    <3>1. good = (10 * Magnitude(pll_clock + Left) < Half)
      BY <2>1
    <3> QED
      BY <1>3, <3>1
  <2>3. /\ Quality(transition_history') <= Quality(transition_history) + 1
        /\ ~good => Quality(transition_history') <= Quality(transition_history)
    BY <1>6, <2>2, QualityMoves
  <2>4. PICK q \in Nat, r \in Nat :
          q = Quality(transition_history) /\ r = Quality(transition_history')
    <3>1. /\ Quality(transition_history) \in 0..History
          /\ Quality(transition_history') \in 0..History
      BY <1>6, QualityBounds
    <3> QED
      BY <3>1, Constants
  <2>5. q < OnThr
    BY <1>1, <2>4 DEF Quiet
  <2>6. r >= OnThr
    BY <1>3, <2>4 DEF Detect
  <2>7. r <= q + 1 /\ (~good => r <= q)
    BY <2>3, <2>4
  <2>8. OnThr \in Nat /\ 1 < OnThr
    BY Constants
  <2>9. good /\ q # 0
    BY <2>5, <2>6, <2>7, <2>8
  <2> QED
    BY <2>1, <2>4, <2>9
<1>8. 10 * (pll_clock + Left) < Half /\ -Half < 10 * (pll_clock + Left)
  <2>1. PICK x \in Int : x = pll_clock + Left
    BY <1>4, <1>5
  <2>2. 10 * Magnitude(x) < Half
    BY <1>7, <2>1
  <2>3. 10 * x < Half /\ -Half < 10 * x
    BY <1>5, <2>2 DEF Magnitude
  <2> QED
    BY <2>1, <2>3
<1>9. ~Samples /\ Ticked = pll_clock + Tick
  <2>1. ~(pll_clock + Tick >= Half)
    BY <1>4, <1>5, <1>8
  <2>2. ~Samples /\ Ticked = pll_clock + Tick - (IF Samples THEN 2 * Half ELSE 0)
    BY <1>1, <2>1, Wraps
  <2> QED
    BY <1>5, <2>2
<1>10. nrzi_bit <=> line.level
  <2>1. PICK s \in Nat : 2 * Drift <= s /\ 5 * s <= Fifth /\ 5 * Fifth <= Half
    BY <1>1, Bounds
  <2>2. PICK x \in Int, y \in Int, c \in Int : x = Ahead /\ y = Left /\ c = pll_clock
    BY <1>4, <1>5
  <2>3. ~(x + c > Half - 2 * Tick - Jitter - Drift)
    BY <1>4, <1>5, <1>8, <2>1, <2>2
  <2> QED
    BY <1>1, <1>7, <2>2, <2>3 DEF Heard
<1>11. Near'
  <2>1. PICK x \in Int, y \in Int, c \in Int, p \in Int :
          x = Ahead /\ y = Left /\ c = pll_clock /\ p = pll_clock'
    BY <1>4, <1>5
  <2>2. /\ x - y <= Jitter /\ y - x <= Jitter
        /\ 10 * (c + y) < Half /\ -Half < 10 * (c + y)
    BY <1>4, <1>8, <2>1
  <2>3. PICK a \in Int, b \in Int : a = c + Tick /\ b = Tick - y
    BY <1>5, <2>1
  <2>4. p = Corrected(a, b, transition_history')
    BY <1>3, <1>9, <2>1, <2>3
  <2>5. (a <= p /\ p <= b) \/ (b <= p /\ p <= a)
    <3>1. CASE a <= b
      <4>1. a \in a..b /\ b \in a..b
        BY <3>1
      <4>2. p \in a..b
        BY <1>6, <2>4, <4>1, CorrectedBetween
      <4> QED
        BY <4>2
    <3>2. CASE ~(a <= b)
      <4>1. a \in b..a /\ b \in b..a
        BY <3>2
      <4>2. p \in b..a
        BY <1>6, <2>4, <4>1, CorrectedBetween
      <4> QED
        BY <4>2
    <3> QED
      BY <3>1, <3>2
  <2>6. c + y <= Fifth /\ -Fifth <= c + y
    BY <1>4, <1>5, <2>1, <2>2
  <2>7. p + x - Tick <= Fifth + Jitter /\ -(Fifth + Jitter) <= p + x - Tick
    BY <1>4, <1>5, <2>2, <2>3, <2>5, <2>6
  <2> QED
    BY <1>1, <1>3, <2>1, <2>7, NearAfter
<1>12. (nrzi_bit' <=> line'.level) <=> line'.run # 0
  <2>1. nrzi_bit' = nrzi_bit
    BY <1>9 DEF Sample
  <2> QED
    BY <1>1, <1>3, <1>10, <2>1, NextLevel
<1>13. locked' = 1
  BY <1>1, <1>3, LockedStep DEF Smaller
<1>14. taken'[1] = 0
  BY <1>3 DEF Sample
<1>15. ~Ends'
  BY <1>1, <1>3, SoftNotZero
<1> QED
  BY <1>11, <1>12, <1>13, <1>14, <1>15 DEF InStep

LEMMA InitFollow == Init => Follow
<1> SUFFICES ASSUME Init PROVE Follow
  OBVIOUS
<1>1. Read
  <2>1. Sign \in {1, -1} /\ last_soft_bit = 0 /\ pll_clock = 0
    BY DEF Init, Sign
  <2>2. last_soft_bit = Sign * 0 /\ 0 \in 0..Parts
    BY <2>1, Constants
  <2> QED
    BY <2>1, <2>2 DEF Read
<1>2. Heard
  <2> DEFINE h == [i \in 1..History |-> FALSE]
  <2>1. h \in [1..History -> BOOLEAN] /\ {i \in 1..History : h[i]} = {}
    OBVIOUS
  <2>2. Quality(h) = 0
    BY <2>1, QualityBounds, FS_EmptySet
  <2> QED
    BY <2>2 DEF Init, Heard
<1>3. ~data_detect /\ locked = 0
  BY DEF Init
<1> QED
  BY <1>1, <1>2, <1>3 DEF Follow

LEMMA NextFollow == Inv /\ Follow /\ [Next]_vars => Follow'
<1>1. ASSUME Inv, Follow, Sample PROVE Follow'
  <2>1. Read' /\ Heard'
    BY <1>1, ReadInv, HeardInv DEF Inv, Follow
  <2>2. data_detect' => InStep'
    BY <1>1, StaysInStep, TurnsOn DEF Follow
  <2>3. ~data_detect' => locked' = 0
    BY <1>1 DEF Sample
  <2> QED
    BY <2>1, <2>2, <2>3 DEF Follow
<1>2. ASSUME Follow, UNCHANGED vars PROVE Follow'
  <2>1. UNCHANGED <<pll_clock, last_soft_bit, transition_history, data_detect,
                    nrzi_bit, line, taken, right, locked, calm>>
    BY <1>2 DEF vars, clockVars
  <2>2. /\ Sign' = Sign /\ Ends' = Ends /\ Ahead' = Ahead
        /\ Jitter' = Jitter /\ Drift' = Drift
    BY <2>1 DEF Sign, Ends, Ahead, Jitter, Drift, Grain, Magnitude
  <2>3. Error' = Error
    BY <2>1, <2>2 DEF Error
  <2>4. Read'
    BY <1>2, <2>1, <2>2 DEF Follow, Read
  <2>5. Heard'
    <3>1. Quality(transition_history)' = Quality(transition_history)
      BY <2>1 DEF Quality
    <3> QED
      BY <1>2, <2>1, <2>2, <3>1 DEF Follow, Heard
  <2>6. InStep' <=> InStep
    <3>1. Near' <=> Near
      BY <2>1, <2>2, <2>3 DEF Near, Far, Fifth
    <3> QED
      BY <2>1, <2>2, <3>1 DEF InStep
  <2> QED
    BY <1>2, <2>1, <2>4, <2>5, <2>6 DEF Follow
<1> QED
  BY <1>1, <1>2 DEF Next

(* For all rates of eight samples a bit or more, thresholds, and senders    *)
(* whose jitter and a sample are at most two elevenths of a bit together,   *)
(* and whose clock drifts by a 50th of a bit at most from one transition to *)
(* the next: as long as a carrier is detected, the clock is off by no more  *)
(* than a tenth of a turn, the jitter and the drift since the last          *)
(* transition when a bit of the line ends (bitclk_detect), and has sampled  *)
(* the bit once; the decoder holds its level.                               *)
THEOREM ClockFollowsLine == Spec => [](Inv /\ Follow)
<1>1. Init => Inv /\ Follow
  BY InitInv, InitFollow
<1>2. Inv /\ Follow /\ [Next]_vars => (Inv /\ Follow)'
  BY NextInv, NextFollow
<1> QED
  BY <1>1, <1>2, PTL DEF Spec

(* So no bit of a detected carrier is sampled twice or lost, and each       *)
(* decodes to what was sent (nrzi_decode), however the corrections of       *)
(* jittering transitions add up.                                            *)
THEOREM BitsAreSampledOnce == Spec => []EachBitOnce
<1>1. ASSUME Inv, Follow PROVE EachBitOnce
  <2>1. ASSUME locked = 2 PROVE data_detect
    BY <1>1, <2>1 DEF Follow
  <2> QED
    BY <1>1, <2>1 DEF Follow, InStep, EachBitOnce
<1> QED
  BY <1>1, ClockFollowsLine, PTL
================================================================================
