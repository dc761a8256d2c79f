------------------------------ MODULE TransmitProofs ----------------------------
(***************************************************************************)
(* Proofs about the way of a frame to the device, for all sizes of buffers *)
(* and periods, all frames, and any number of faults of the device.        *)
(***************************************************************************)
EXTENDS Transmit, TLAPS

Last == handed[Len(handed)]

(* The device is amid a stretch that ends where the ring begins, and has    *)
(* got the frame from its first sample on.                                  *)
UnderWay(f) ==
  /\ pcm = "running" /\ handed # <<>>
  /\ Last[2] = taken /\ Last[1] <= f.first

(* What becomes of a frame: not begun, or under way, or gone out whole; or  *)
(* a fault befell it.                                                       *)
Fate(f) == \/ taken <= f.first /\ taken < f.end
           \/ Hit(f)
           \/ taken < f.end /\ UnderWay(f)
           \/ f.end <= taken /\ Unbroken(f)

(* A frame is an interval of what the ring has accepted.                    *)
Fits(f) == /\ f.first \in Nat /\ f.end \in Nat
           /\ f.first <= f.end /\ f.end <= accepted

FramesFit == \A i \in 1..Len(frames) : Fits(frames[i])

Inv == /\ TypeOK /\ PlayedInOrder
       /\ FramesFit
       /\ \A i \in 1..Len(frames) : Fate(frames[i])

--------------------------------------------------------------------------------
(* Sizes *)

LEMMA ProductNat == ASSUME NEW a \in Nat, NEW b \in Nat PROVE a * b \in Nat
  OBVIOUS

LEMMA QuotientNat == ASSUME NEW a \in Nat, NEW b \in Nat \ {0} PROVE a \div b \in Nat
  OBVIOUS

(* The modulator leaves a number of samples.                                *)
LEMMA ModulatedNat == ASSUME NEW bytes \in FrameBytes PROVE Modulated(bytes) \in Nat
<1>1. bytes \in Nat /\ SamplesPerBit \in Nat \ {0}
  BY SizeAssumption DEF SamplesPerBit
<1>2. Flags(TxDelay) \in Nat /\ Flags(TxTail) \in Nat
  BY SizeAssumption DEF Flags
<1>3. Bits(bytes) \in Nat
  BY <1>1, <1>2 DEF Bits
<1>4. SampleCap \div SamplesPerBit \in Nat
  BY <1>1, SizeAssumption, QuotientNat
<1>5. Smaller(Bits(bytes), SampleCap \div SamplesPerBit) \in Nat
  BY <1>3, <1>4 DEF Smaller
<1> QED
  BY <1>1, <1>5, ProductNat DEF Modulated

(* What one turn takes from the ring is there.                              *)
LEMMA TakenFits ==
  ASSUME TypeOK
  PROVE  Taken \in Nat /\ taken + Taken <= accepted /\ (Queued > 0 => Taken > 0)
  BY SizeAssumption DEF TypeOK, Taken, Smaller, Queued

LEMMA ElementType ==
  ASSUME NEW S, NEW s \in Seq(S), NEW k \in 1..Len(s)
  PROVE  s[k] \in S
  OBVIOUS

LEMMA InitInv == Init => Inv
<1> SUFFICES ASSUME Init PROVE Inv
  OBVIOUS
<1>1. frames = <<>> /\ Len(frames) = 0 /\ handed = <<>> /\ Len(handed) = 0
  BY DEF Init
<1>2. TypeOK
  <2>1. accepted \in Nat /\ taken \in 0..accepted /\ Queued <= RingSize /\ faults \in 0..MaxFaults
    BY SizeAssumption DEF Init, Queued
  <2>2. /\ frames \in Seq([bytes : FrameBytes, first : Nat, end : Nat])
        /\ Len(frames) <= MaxFrames
    BY <1>1, SizeAssumption
  <2>3. handed \in Seq(Nat \X Nat)
    BY <1>1
  <2> QED
    BY <2>1, <2>2, <2>3 DEF Init, TypeOK
<1> QED
  BY <1>1, <1>2 DEF Inv, PlayedInOrder, FramesFit

--------------------------------------------------------------------------------
(* Stretches *)

(* Stretches only grow.                                                     *)
Grows == \A k \in 1..Len(handed) :
  /\ k \in 1..Len(handed')
  /\ handed'[k][1] = handed[k][1] /\ handed[k][2] <= handed'[k][2]

(* The device gets n samples more: a new stretch, or more of the last one.  *)
(* All the others stay as they are.                                         *)
LEMMA Handing ==
  ASSUME TypeOK, PlayedInOrder, NEW n \in Nat \ {0}, Hand(taken, taken + n)
  PROVE  /\ handed' \in Seq(Nat \X Nat) /\ handed' # <<>>
         /\ Last'[2] = taken + n /\ Last'[1] <= taken
         /\ pcm = "running" /\ handed # <<>> /\ Last[2] = taken => Last'[1] = Last[1]
         /\ Grows
         /\ \A k \in 1..Len(handed') :
              handed'[k][1] < handed'[k][2] /\ handed'[k][2] <= taken + n
         /\ \A k \in 1..(Len(handed') - 1) : handed'[k][2] <= handed'[k + 1][1]
<1>1. /\ taken \in Nat /\ handed \in Seq(Nat \X Nat) /\ Len(handed) \in Nat
      /\ \A k \in 1..Len(handed) : handed[k] \in Nat \X Nat
  BY DEF TypeOK
<1>2. \A k \in 1..Len(handed) : /\ handed[k][1] \in Nat /\ handed[k][2] \in Nat
                                /\ handed[k][1] < handed[k][2] /\ handed[k][2] <= taken
  BY <1>1 DEF PlayedInOrder
<1>3. CASE handed # <<>> /\ pcm = "running" /\ Last[2] = taken
  <2> DEFINE m == Len(handed)
  <2>1. m \in 1..m
    BY <1>1, <1>3
  <2>2. <<handed[m][1], taken + n>> \in Nat \X Nat
    BY <1>1, <1>2, <2>1
  <2>3. handed' = [handed EXCEPT ![m] = <<handed[m][1], taken + n>>]
    BY <1>3 DEF Hand, Last
  <2>4. /\ handed' \in Seq(Nat \X Nat) /\ Len(handed') = m
        /\ handed'[m] = <<handed[m][1], taken + n>>
        /\ \A k \in 1..m : k # m => handed'[k] = handed[k]
    BY <1>1, <2>1, <2>2, <2>3
  <2>5. Last' = <<handed[m][1], taken + n>> /\ Last = handed[m]
    BY <2>4 DEF Last
  <2>6. ASSUME NEW k \in 1..m
        PROVE  /\ handed'[k][1] = handed[k][1] /\ handed[k][2] <= handed'[k][2]
               /\ handed'[k][1] < handed'[k][2] /\ handed'[k][2] <= taken + n
    <3>1. CASE k = m
      <4>1. handed'[k] = <<handed[k][1], taken + n>>
        BY <2>4, <3>1
      <4>2. /\ handed[k][1] \in Nat /\ handed[k][2] \in Nat
            /\ handed[k][1] < handed[k][2] /\ handed[k][2] <= taken
        BY <1>2
      <4>3. PICK a \in Nat, b \in Nat : a = handed[k][1] /\ b = handed[k][2]
        BY <4>2
      <4>4. b <= taken + n /\ a < taken + n /\ taken + n <= taken + n
        BY <1>1, <4>2, <4>3
      <4> QED
        BY <4>1, <4>3, <4>4
    <3>2. CASE k # m
      <4>1. handed'[k] = handed[k]
        BY <2>4, <3>2
      <4>2. /\ handed[k][1] \in Nat /\ handed[k][2] \in Nat
            /\ handed[k][1] < handed[k][2] /\ handed[k][2] <= taken
        BY <1>2
      <4>3. PICK a \in Nat : a = handed[k][2] /\ a <= taken
        BY <4>2
      <4>4. a <= taken + n /\ a <= a
        BY <1>1, <4>3
      <4> QED
        BY <4>1, <4>2, <4>3, <4>4
    <3> QED
      BY <3>1, <3>2
  <2>7. ASSUME NEW k \in 1..(m - 1) PROVE handed'[k][2] <= handed'[k + 1][1]
    <3>1. handed'[k] = handed[k] /\ k + 1 \in 1..m
      BY <1>1, <2>4
    <3>2. handed'[k + 1][1] = handed[k + 1][1]
      BY <2>6, <3>1
    <3> QED
      BY <3>1, <3>2 DEF PlayedInOrder
  <2> QED
    BY <1>1, <1>2, <1>3, <2>1, <2>4, <2>5, <2>6, <2>7 DEF Grows
<1>4. CASE ~(handed # <<>> /\ pcm = "running" /\ Last[2] = taken)
  <2> DEFINE m == Len(handed)
  <2>1. handed' = Append(handed, <<taken, taken + n>>)
    BY <1>4 DEF Hand, Last
  <2>2. <<taken, taken + n>> \in Nat \X Nat
    BY <1>1
  <2>3. /\ handed' \in Seq(Nat \X Nat) /\ Len(handed') = m + 1
        /\ handed'[m + 1] = <<taken, taken + n>>
        /\ \A k \in 1..m : handed'[k] = handed[k]
    BY <1>1, <2>1, <2>2
  <2>4. Last' = <<taken, taken + n>> /\ handed' # <<>>
    <3>1. handed' # <<>>
      <4>1. m \in Nat /\ Len(<<>>) = 0
        BY <1>1
      <4> QED
        BY <2>3, <4>1
    <3>2. Last' = handed'[Len(handed')] /\ Len(handed') = m + 1
      BY <2>3, Zenon DEF Last
    <3>3. Last' = handed'[m + 1]
      BY <3>2, Zenon
    <3> QED
      BY <2>3, <3>1, <3>3, Zenon
  <2>5. ASSUME NEW k \in 1..m
        PROVE  handed'[k][1] = handed[k][1] /\ handed[k][2] <= handed'[k][2]
    <3>1. handed'[k] = handed[k]
      BY <2>3
    <3>2. handed[k][2] \in Nat
      BY <1>2
    <3> QED
      BY <3>1, <3>2
  <2>6. ASSUME NEW k \in 1..(m + 1)
        PROVE  handed'[k][1] < handed'[k][2] /\ handed'[k][2] <= taken + n
    <3>1. CASE k = m + 1
      BY <1>1, <2>3, <3>1
    <3>2. CASE k # m + 1
      <4>1. k \in 1..m
        BY <1>1, <3>2
      <4>2. k \in 1..m /\ handed'[k] = handed[k]
        BY <2>3, <4>1
      <4> QED
        BY <1>1, <1>2, <4>2
    <3> QED
      BY <3>1, <3>2
  <2>7. ASSUME NEW k \in 1..m PROVE handed'[k][2] <= handed'[k + 1][1]
    <3>1. CASE k = m
      BY <1>1, <1>2, <2>3, <3>1
    <3>2. CASE k # m
      <4>1. k \in 1..(m - 1) /\ k + 1 \in 1..m
        BY <1>1, <3>2
      <4>2. handed'[k] = handed[k] /\ handed'[k + 1] = handed[k + 1]
        BY <2>3, <4>1
      <4> QED
        BY <4>1, <4>2 DEF PlayedInOrder
    <3> QED
      BY <3>1, <3>2
  <2> QED
    BY <1>1, <1>4, <2>3, <2>4, <2>5, <2>6, <2>7 DEF Grows
<1> QED
  BY <1>3, <1>4

(* What a fault did to a frame stays done, and a frame that went out whole  *)
(* stays whole: stretches only grow.                                        *)
LEMMA HitStays ==
  ASSUME NEW f, hits \subseteq hits', Hit(f)
  PROVE  Hit(f)'
  BY DEF Hit

LEMMA UnbrokenStays ==
  ASSUME NEW f, f.end \in Nat,
         handed \in Seq(Nat \X Nat), handed' \in Seq(Nat \X Nat), Grows,
         Unbroken(f)
  PROVE  Unbroken(f)'
<1>1. CASE f.first = f.end
  BY <1>1 DEF Unbroken
<1>2. ASSUME NEW k \in 1..Len(handed), handed[k][1] <= f.first, f.end <= handed[k][2]
      PROVE  Unbroken(f)'
  <2>1. k \in 1..Len(handed') /\ handed'[k][1] = handed[k][1] /\ handed[k][2] <= handed'[k][2]
    BY DEF Grows
  <2>2. handed[k] \in Nat \X Nat /\ handed'[k] \in Nat \X Nat
    BY <2>1, ElementType
  <2>3. handed[k][2] \in Nat /\ handed'[k][2] \in Nat /\ f.end \in Nat
    BY <2>2
  <2>4. handed'[k][1] <= f.first
    BY <1>2, <2>1
  <2>5. f.end <= handed'[k][2]
    <3>1. f.end <= handed[k][2]
      BY <1>2
    <3>2. handed[k][2] <= handed'[k][2]
      BY <2>1
    <3>3. ASSUME NEW a \in Nat, NEW b \in Nat, NEW c \in Nat, a <= b, b <= c PROVE a <= c
      BY <3>3
    <3> QED
      BY <2>3, <3>1, <3>2, <3>3
  <2> QED
    BY <2>1, <2>4, <2>5 DEF Unbroken
<1> QED
  BY <1>1, <1>2 DEF Unbroken

(* The fates of all frames carry over from one state to the next, and that  *)
(* is all the invariant needs of a step that sends no frame.                *)
LEMMA FatesCarryOver ==
  ASSUME Inv, UNCHANGED stream, TypeOK', PlayedInOrder',
         \A f : Fits(f) /\ Fate(f) => Fate(f)'
  PROVE  Inv'
<1>1. frames' = frames /\ accepted' = accepted
  BY DEF stream
<1>2. ASSUME NEW i \in 1..Len(frames) PROVE Fits(frames[i])' /\ Fate(frames[i])'
  <2>1. Fits(frames[i]) /\ Fate(frames[i])
    BY DEF Inv, FramesFit
  <2>2. Fate(frames[i])'
    BY <1>1, <2>1
  <2> QED
    BY <1>1, <2>1, <2>2 DEF Fits
<1> QED
  BY <1>1, <1>2 DEF Inv, FramesFit

(* A frame from whose first sample on the last stretch runs is whole when   *)
(* that stretch reaches its end.                                            *)
LEMMA StretchCovers ==
  ASSUME NEW f, handed' \in Seq(Nat \X Nat), handed' # <<>>,
         Last'[1] <= f.first, f.end <= Last'[2]
  PROVE  Unbroken(f)'
<1>1. Len(handed') \in 1..Len(handed')
  OBVIOUS
<1> QED
  BY <1>1 DEF Unbroken, Last

--------------------------------------------------------------------------------
(* Playback *)

(* A frame that is not begun, or under way, when the device gets n samples  *)
(* more, runs in the last stretch afterwards.                               *)
LEMMA Running ==
  ASSUME TypeOK, PlayedInOrder, NEW n \in Nat \ {0}, Hand(taken, taken + n),
         NEW f, Fits(f), taken <= f.first \/ UnderWay(f)
  PROVE  Last'[1] <= f.first
<1>1. taken \in Nat
  BY DEF TypeOK
<1>2. Last'[1] <= taken /\ (UnderWay(f) => Last'[1] = Last[1])
  BY Handing DEF UnderWay
<1>3. Last'[1] \in Nat
  <2>1. handed' \in Seq(Nat \X Nat) /\ handed' # <<>>
    BY Handing
  <2>2. Last' \in Nat \X Nat
    BY <2>1 DEF Last
  <2> QED
    BY <2>2
<1> QED
  BY <1>1, <1>2, <1>3 DEF Fits, UnderWay

LEMMA PlaybackIdleInv == Inv /\ PlaybackIdle => Inv'
<1> SUFFICES ASSUME Inv, PlaybackIdle PROVE Inv'
  OBVIOUS
<1>1. UNCHANGED <<stream, frames, accepted, taken, pcm, handed, hits, faults>>
  BY DEF PlaybackIdle, stream, device
<1>2. TypeOK' /\ PlayedInOrder'
  BY <1>1 DEF Inv, TypeOK, PlayedInOrder, PlaybackIdle, Queued
<1>3. \A f : Fate(f) => Fate(f)'
  BY <1>1 DEF Fate, Hit, UnderWay, Unbroken, Last
<1> QED
  BY <1>1, <1>2, <1>3, FatesCarryOver

LEMMA PlaybackWritesInv == Inv /\ PlaybackWrites => Inv'
<1> SUFFICES ASSUME Inv, PlaybackWrites PROVE Inv'
  OBVIOUS
<1> DEFINE n == Taken
<1>1. TypeOK /\ PlayedInOrder /\ n \in Nat \ {0} /\ taken + n <= accepted
  BY TakenFits DEF Inv, PlaybackWrites
<1>2. /\ Hand(taken, taken + n) /\ taken' = taken + n /\ pcm' = "running"
      /\ UNCHANGED <<stream, frames, accepted, hits, faults>>
  BY DEF PlaybackWrites, stream
<1> HIDE DEF n
<1>3. taken \in Nat
  BY <1>1 DEF TypeOK
<1>4. TypeOK'
  <2>1. handed' \in Seq(Nat \X Nat)
    BY <1>1, <1>2, Handing
  <2>2. taken' \in 0..accepted' /\ Queued' <= RingSize
    BY <1>1, <1>2, SizeAssumption DEF TypeOK, Queued
  <2> QED
    BY <1>1, <1>2, <2>1, <2>2 DEF TypeOK, PlaybackWrites
<1>5. PlayedInOrder'
  BY <1>1, <1>2, Handing DEF PlayedInOrder
<1>6. ASSUME NEW f, Fits(f), Fate(f) PROVE Fate(f)'
  <2>1. CASE Hit(f)
    BY <1>2, <2>1, HitStays DEF Fate
  <2>2. CASE f.end <= taken /\ Unbroken(f)
    <3>1. handed \in Seq(Nat \X Nat) /\ handed' \in Seq(Nat \X Nat) /\ Grows
      BY <1>1, <1>2, <1>4, Handing DEF TypeOK
    <3>2. Unbroken(f)'
      BY <1>6, <2>2, <3>1, UnbrokenStays DEF Fits
    <3>3. f.end <= taken'
      BY <1>3, <1>1, <1>2, <1>6, <2>2 DEF Fits
    <3> QED
      BY <3>2, <3>3 DEF Fate
  <2>3. CASE taken <= f.first \/ UnderWay(f)
    <3>1. Last'[1] <= f.first
      BY <1>1, <1>2, <1>6, <2>3, Running
    <3>2. Last'[2] = taken' /\ handed' # <<>>
      BY <1>1, <1>2, Handing
    <3>3. CASE f.end <= taken'
      BY <1>4, <3>1, <3>2, <3>3, StretchCovers DEF Fate, TypeOK
    <3>4. CASE ~(f.end <= taken')
      <4>1. taken' < f.end
        BY <1>3, <1>1, <1>2, <1>6, <3>4 DEF Fits
      <4> QED
        BY <1>2, <3>1, <3>2, <4>1 DEF Fate, UnderWay
    <3> QED
      BY <3>3, <3>4
  <2> QED
    BY <1>6, <2>1, <2>2, <2>3 DEF Fate
<1> QED
  BY <1>2, <1>4, <1>5, <1>6, FatesCarryOver

(* The rest of the period, which a fault loses, marks the frames in it.     *)
LEMMA Marked ==
  ASSUME NEW f, NEW from, NEW end, <<from, end>> \in hits', from < f.end, end > f.first
  PROVE  Hit(f)'
  BY DEF Hit

LEMMA PlaybackShortInv ==
  ASSUME Inv, NEW n \in Shorts, PlaybackShort(n)
  PROVE  Inv'
<1>1. TypeOK /\ PlayedInOrder /\ n \in Nat \ {0} /\ Taken \in Nat /\ n < Taken
  BY TakenFits, SizeAssumption DEF Inv, PlaybackShort
<1>2. taken \in Nat /\ taken + Taken <= accepted /\ accepted \in Nat
  BY <1>1, TakenFits DEF TypeOK
<1>3. /\ Hand(taken, taken + n) /\ taken' = taken + Taken
      /\ hits' = hits \cup {<<taken + n, taken + Taken>>}
      /\ UNCHANGED <<stream, frames, accepted>>
  BY DEF PlaybackShort, stream
<1>4. handed \in Seq(Nat \X Nat) /\ handed' \in Seq(Nat \X Nat) /\ Grows
  BY <1>1, <1>3, Handing DEF TypeOK
<1>5. TypeOK'
  <2>1. taken' \in 0..accepted' /\ Queued' <= RingSize
    BY <1>1, <1>2, <1>3, SizeAssumption DEF TypeOK, Queued
  <2>2. faults' \in 0..MaxFaults
    BY <1>1, SizeAssumption DEF TypeOK, PlaybackShort
  <2>3. hits' \subseteq Int \X Nat
    BY <1>1, <1>2, <1>3 DEF TypeOK
  <2> QED
    BY <1>1, <1>3, <1>4, <2>1, <2>2, <2>3 DEF TypeOK, PlaybackShort
<1>6. PlayedInOrder'
  <2>1. /\ \A k \in 1..Len(handed') :
              handed'[k][1] < handed'[k][2] /\ handed'[k][2] <= taken + n
        /\ \A k \in 1..(Len(handed') - 1) : handed'[k][2] <= handed'[k + 1][1]
    BY <1>1, <1>3, Handing
  <2>2. ASSUME NEW k \in 1..Len(handed') PROVE handed'[k][2] <= taken'
    <3>1. handed'[k][2] \in Nat /\ handed'[k][2] <= taken + n
      BY <1>4, <2>1, ElementType
    <3> QED
      BY <1>1, <1>2, <1>3, <3>1
  <2> QED
    BY <2>1, <2>2 DEF PlayedInOrder
<1>7. ASSUME NEW f, Fits(f), Fate(f) PROVE Fate(f)'
  <2>1. f.first \in Nat /\ f.end \in Nat /\ f.first <= f.end
    BY <1>7 DEF Fits
  <2>2. CASE Hit(f)
    BY <1>3, <2>2, HitStays DEF Fate
  <2>3. CASE f.end <= taken /\ Unbroken(f)
    <3>1. Unbroken(f)'
      BY <1>4, <2>1, <2>3, UnbrokenStays
    <3>2. f.end <= taken'
      BY <1>1, <1>2, <1>3, <2>1, <2>3
    <3> QED
      BY <3>1, <3>2 DEF Fate
  <2>4. CASE taken <= f.first \/ UnderWay(f)
    <3>1. Last'[1] <= f.first /\ Last'[2] = taken + n /\ handed' # <<>>
      BY <1>1, <1>3, <1>7, <2>4, Running, Handing
    <3>2. CASE f.end <= taken + n
      <4>1. Unbroken(f)'
        BY <1>4, <3>1, <3>2, StretchCovers
      <4>2. f.end <= taken'
        BY <1>1, <1>2, <1>3, <2>1, <3>2
      <4> QED
        BY <4>1, <4>2 DEF Fate
    <3>3. CASE ~(f.end <= taken + n) /\ f.first < taken'
      <4>1. taken + n < f.end
        BY <1>1, <1>2, <2>1, <3>3
      <4> QED
        BY <1>3, <3>3, <4>1, Marked DEF Fate
    <3>4. CASE ~(f.first < taken')
      <4>1. taken' \in Nat
        BY <1>1, <1>2, <1>3
      <4>2. CASE taken' < f.end
        BY <2>1, <3>4, <4>1, <4>2 DEF Fate
      <4>3. CASE ~(taken' < f.end)
        BY <2>1, <3>4, <4>1, <4>3 DEF Fate, Unbroken
      <4> QED
        BY <4>2, <4>3
    <3> QED
      BY <3>2, <3>3, <3>4
  <2> QED
    BY <1>7, <2>2, <2>3, <2>4 DEF Fate
<1> QED
  BY <1>1, <1>3, <1>5, <1>6, <1>7, FatesCarryOver

LEMMA PlaybackFailsInv == Inv /\ PlaybackFails => Inv'
<1> SUFFICES ASSUME Inv, PlaybackFails PROVE Inv'
  OBVIOUS
<1>1. TypeOK /\ PlayedInOrder /\ Taken \in Nat \ {0}
  BY TakenFits DEF Inv, PlaybackFails
<1>2. taken \in Nat /\ taken + Taken <= accepted /\ accepted \in Nat
  BY <1>1, TakenFits DEF TypeOK
<1>3. /\ taken' = taken + Taken
      /\ hits' = hits \cup {<<taken, taken + Taken>>}
      /\ UNCHANGED <<stream, frames, accepted, handed>>
  BY DEF PlaybackFails, stream
<1>4. TypeOK'
  <2>1. taken' \in 0..accepted' /\ Queued' <= RingSize
    BY <1>1, <1>2, <1>3, SizeAssumption DEF TypeOK, Queued
  <2>2. faults' \in 0..MaxFaults
    BY <1>1, SizeAssumption DEF TypeOK, PlaybackFails
  <2>3. hits' \subseteq Int \X Nat
    BY <1>1, <1>2, <1>3 DEF TypeOK
  <2> QED
    BY <1>1, <1>3, <2>1, <2>2, <2>3 DEF TypeOK, PlaybackFails
<1>5. PlayedInOrder'
  <2>1. ASSUME NEW k \in 1..Len(handed) PROVE handed[k][2] <= taken'
    <3>1. handed \in Seq(Nat \X Nat) /\ handed[k][2] <= taken
      BY <1>1 DEF TypeOK, PlayedInOrder
    <3>2. handed[k][2] \in Nat
      BY <3>1, ElementType
    <3> QED
      BY <1>1, <1>2, <1>3, <3>1, <3>2
  <2> QED
    BY <1>1, <1>3, <2>1 DEF PlayedInOrder
<1>6. ASSUME NEW f, Fits(f), Fate(f) PROVE Fate(f)'
  <2>1. f.first \in Nat /\ f.end \in Nat /\ f.first <= f.end
    BY <1>6 DEF Fits
  <2>2. CASE Hit(f)
    BY <1>3, <2>2, HitStays DEF Fate
  <2>3. CASE f.end <= taken /\ Unbroken(f)
    <3>1. Unbroken(f)'
      BY <1>3, <2>3 DEF Unbroken
    <3>2. f.end <= taken'
      BY <1>1, <1>2, <1>3, <2>1, <2>3
    <3> QED
      BY <3>1, <3>2 DEF Fate
  <2>4. CASE taken < f.end /\ f.first < taken'
    BY <1>3, <2>4, Marked DEF Fate
  <2>5. CASE taken < f.end /\ ~(f.first < taken')
    <3>1. taken' \in Nat
      BY <1>1, <1>2, <1>3
    <3>2. CASE taken' < f.end
      BY <2>1, <2>5, <3>1, <3>2 DEF Fate
    <3>3. CASE ~(taken' < f.end)
      BY <2>1, <2>5, <3>1, <3>3 DEF Fate, Unbroken
    <3> QED
      BY <3>2, <3>3
  <2> QED
    BY <1>6, <2>2, <2>3, <2>4, <2>5 DEF Fate
<1> QED
  BY <1>1, <1>3, <1>4, <1>5, <1>6, FatesCarryOver

--------------------------------------------------------------------------------
(* The loop, and the device by itself *)

LEMMA LoopInv == Inv /\ (PollReturns \/ PollInterrupted \/ InputDone) => Inv'
<1> SUFFICES ASSUME Inv, PollReturns \/ PollInterrupted \/ InputDone PROVE Inv'
  OBVIOUS
<1>1. UNCHANGED <<stream, timeout, frames, accepted, taken, pcm, handed, hits, faults>>
  BY DEF PollReturns, PollInterrupted, InputDone, stream, device
<1>2. TypeOK' /\ PlayedInOrder'
  BY <1>1 DEF Inv, TypeOK, PlayedInOrder, PollReturns, PollInterrupted, InputDone, Queued
<1>3. \A f : Fate(f) => Fate(f)'
  BY <1>1 DEF Fate, Hit, UnderWay, Unbroken, Last
<1> QED
  BY <1>1, <1>2, <1>3, FatesCarryOver

(* The device stops: what is under way is cut, and marked, unless nothing   *)
(* is queued, and then nothing is under way.                                *)
LEMMA StopsInv ==
  ASSUME Inv, TypeOK', hits \subseteq hits',
         Queued = 0 \/ <<taken, taken>> \in hits',
         UNCHANGED <<stream, taken, handed>>
  PROVE  Inv'
<1>1. frames' = frames /\ accepted' = accepted
  BY DEF stream
<1>2. taken \in Nat /\ accepted \in Nat
  BY DEF Inv, TypeOK
<1>3. PlayedInOrder'
  BY DEF Inv, PlayedInOrder
<1>4. ASSUME NEW f, Fits(f), Fate(f) PROVE Fate(f)'
  <2>1. f.first \in Nat /\ f.end \in Nat /\ f.end <= accepted
    BY <1>4 DEF Fits
  <2>2. CASE Hit(f)
    BY <2>2, HitStays DEF Fate
  <2>3. CASE f.end <= taken /\ Unbroken(f)
    BY <2>3 DEF Fate, Unbroken
  <2>4. CASE taken < f.end /\ taken <= f.first
    BY <2>4 DEF Fate
  <2>5. CASE taken < f.end /\ ~(taken <= f.first)
    <3>1. Queued # 0 /\ taken > f.first
      BY <1>2, <2>1, <2>5 DEF Queued
    <3> QED
      BY <2>5, <3>1, Marked DEF Fate
  <2> QED
    BY <1>4, <2>2, <2>3, <2>4, <2>5 DEF Fate
<1> QED
  BY <1>3, <1>4, FatesCarryOver

LEMMA UnderrunInv == Inv /\ Underrun => Inv'
<1> SUFFICES ASSUME Inv, Underrun PROVE Inv'
  OBVIOUS
<1>1. UNCHANGED <<stream, frames, accepted, taken, handed>>
  BY DEF Underrun, stream
<1>2. faults' \in 0..MaxFaults
  BY SizeAssumption DEF Inv, TypeOK, Underrun
<1>3. hits \subseteq hits' /\ (Queued = 0 \/ <<taken, taken>> \in hits')
  BY DEF Underrun
<1>4. hits' \subseteq Int \X Nat
  BY DEF Inv, TypeOK, Underrun
<1>5. TypeOK'
  BY <1>1, <1>2, <1>4 DEF Inv, TypeOK, Underrun, Queued
<1> QED
  BY <1>1, <1>3, <1>5, StopsInv

LEMMA SuspendInv == Inv /\ Suspend => Inv'
<1> SUFFICES ASSUME Inv, Suspend PROVE Inv'
  OBVIOUS
<1>1. UNCHANGED <<stream, frames, accepted, taken, handed>>
  BY DEF Suspend, stream
<1>2. faults' \in 0..MaxFaults
  BY SizeAssumption DEF Inv, TypeOK, Suspend
<1>3. hits \subseteq hits' /\ <<taken, taken>> \in hits'
  BY DEF Suspend
<1>4. hits' \subseteq Int \X Nat
  BY SizeAssumption DEF Inv, TypeOK, Suspend
<1>5. TypeOK'
  BY <1>1, <1>2, <1>4 DEF Inv, TypeOK, Suspend, Queued
<1> QED
  BY <1>1, <1>3, <1>5, StopsInv

--------------------------------------------------------------------------------
(* A frame more, all of it at once: the ring may hold older ones, so that   *)
(* it is not begun yet.                                                     *)
LEMMA TransmitInv ==
  ASSUME Inv, NEW bytes \in FrameBytes, Transmit(bytes)
  PROVE  Inv'
<1> DEFINE n == Smaller(Modulated(bytes), RingSize - Queued)
           frame == [bytes |-> bytes, first |-> accepted, end |-> accepted + n]
<1>1. TypeOK /\ accepted \in Nat /\ taken \in Nat /\ taken <= accepted
  BY DEF Inv, TypeOK
<1>2. n \in Nat /\ n <= RingSize - Queued
  BY <1>1, ModulatedNat, SizeAssumption DEF Smaller, Queued, TypeOK
<1>3. /\ frames' = Append(frames, frame) /\ accepted' = accepted + n
      /\ UNCHANGED <<step, timeout, taken, pcm, handed, hits, faults>>
  BY DEF Transmit, device
<1> HIDE DEF n
<1>4. frame \in [bytes : FrameBytes, first : Nat, end : Nat]
  BY <1>1, <1>2
<1>5. frames \in Seq([bytes : FrameBytes, first : Nat, end : Nat])
  BY <1>1 DEF TypeOK
<1>6. PICK f : f = frame
  OBVIOUS
<1> HIDE DEF frame
<1>7. /\ frames' \in Seq([bytes : FrameBytes, first : Nat, end : Nat])
      /\ Len(frames') = Len(frames) + 1
      /\ frames'[Len(frames) + 1] = f
      /\ \A i \in 1..Len(frames) : frames'[i] = frames[i]
  BY <1>3, <1>4, <1>5, <1>6
<1>8. TypeOK'
  <2>1. Len(frames') <= MaxFrames
    BY <1>7, <1>5, SizeAssumption DEF Transmit
  <2>2. accepted' \in Nat /\ taken' \in 0..accepted' /\ Queued' <= RingSize
    BY <1>1, <1>2, <1>3, SizeAssumption DEF Queued
  <2> QED
    BY <1>1, <1>3, <1>7, <2>1, <2>2 DEF TypeOK
<1>9. PlayedInOrder'
  BY <1>3 DEF Inv, PlayedInOrder
<1>10. ASSUME NEW g, Fits(g), Fate(g) PROVE Fits(g)' /\ Fate(g)'
  BY <1>1, <1>2, <1>3, <1>10 DEF Fits, Fate, Hit, UnderWay, Unbroken, Last
<1>11. Fits(f)' /\ Fate(f)'
  <2>1. f.first = accepted /\ f.end = accepted + n
    BY <1>6 DEF frame
  <2> QED
    BY <1>1, <1>2, <1>3, <2>1 DEF Fits, Fate, Unbroken
<1>12. ASSUME NEW i \in 1..Len(frames') PROVE (Fits(frames[i]) /\ Fate(frames[i]))'
  <2>1. CASE i = Len(frames) + 1
    BY <1>7, <1>11, <2>1
  <2>2. CASE i \in 1..Len(frames)
    <3>1. Fits(frames[i]) /\ Fate(frames[i])
      BY <2>2 DEF Inv, FramesFit
    <3> QED
      BY <1>7, <1>10, <2>2, <3>1
  <2> QED
    BY <1>5, <1>7, <2>1, <2>2
<1> QED
  BY <1>8, <1>9, <1>12 DEF Inv, FramesFit

LEMMA NextInv == Inv /\ [Next]_vars => Inv'
<1> SUFFICES ASSUME Inv, [Next]_vars PROVE Inv'
  OBVIOUS
<1>1. CASE Playback
  BY <1>1, PlaybackIdleInv, PlaybackWritesInv, PlaybackShortInv, PlaybackFailsInv DEF Playback
<1>2. CASE PollReturns \/ PollInterrupted \/ InputDone
  BY <1>2, LoopInv
<1>3. CASE \E bytes \in FrameBytes : Transmit(bytes)
  BY <1>3, TransmitInv
<1>4. CASE Underrun \/ Suspend
  BY <1>4, UnderrunInv, SuspendInv
<1>5. CASE UNCHANGED vars
  <2>1. UNCHANGED <<step, timeout, stream, frames, accepted, taken, pcm, handed, hits, faults>>
    BY <1>5 DEF vars, stream, device
  <2>2. TypeOK' /\ PlayedInOrder'
    BY <2>1 DEF Inv, TypeOK, PlayedInOrder, Queued
  <2>3. \A f : Fate(f) => Fate(f)'
    BY <2>1 DEF Fate, Hit, UnderWay, Unbroken, Last
  <2> QED
    BY <2>1, <2>2, <2>3, FatesCarryOver
<1> QED
  BY <1>1, <1>2, <1>3, <1>4, <1>5 DEF Next

--------------------------------------------------------------------------------
(* The theorems *)

(* The inductive invariant: at every moment each frame has one of four      *)
(* fates.                                                                   *)
THEOREM TransmitInvariant == Spec => []Inv
<1> QED
  BY InitInv, NextInv, PTL DEF Spec

(* Every variable keeps its type, whatever the sizes: in particular the     *)
(* ring never holds more than RING_BUFFER_SIZE samples, and playback never  *)
(* takes more than were accepted.                                           *)
THEOREM TransmitTypeCorrect == Spec => []TypeOK
<1>1. Inv => TypeOK
  BY DEF Inv
<1> QED
  BY <1>1, TransmitInvariant, PTL

(* The device gets the samples in the order in which frames were queued,    *)
(* none twice, for every size of a period and every series of underruns,    *)
(* suspensions, short counts and failures that aud_process_playback_period  *)
(* meets.                                                                   *)
THEOREM SamplesStayInOrder == Spec => []PlayedInOrder
<1>1. Inv => PlayedInOrder
  BY DEF Inv
<1> QED
  BY <1>1, TransmitInvariant, PTL

(* Only a fault of the device during a frame can break it: a frame of any   *)
(* length, queued behind any others, is handed over in one stretch.         *)
THEOREM FramesStayWhole == Spec => []OnlyFaultsBreakFrames
<1>1. Inv => OnlyFaultsBreakFrames
  <2> SUFFICES ASSUME Inv, NEW i \in 1..Len(frames), taken >= frames[i].end
               PROVE  Unbroken(frames[i]) \/ Hit(frames[i])
    BY DEF OnlyFaultsBreakFrames
  <2>1. taken \in Nat /\ frames[i].end \in Nat /\ Fate(frames[i])
    BY DEF Inv, TypeOK, FramesFit, Fits
  <2> QED
    BY <2>1 DEF Fate
<1> QED
  BY <1>1, TransmitInvariant, PTL
================================================================================
