-------------------------------- MODULE Spectrum -------------------------------
(***************************************************************************)
(* The spectrum that mw_cal computes (src/src/fft.c, src/src/main_cal.c):  *)
(* samples are read into a buffer, permuted by bit reversal, and combined  *)
(* in place, stage by stage.                                               *)
(***************************************************************************)
EXTENDS Sums

CONSTANTS
  Bits,     \* the size of the transform is 2^Bits
  Root,     \* in the place of exp(-2 pi i / size): its order is the size
  Inputs,   \* the values of a sample
  Reads     \* how many samples one read may return

VARIABLES
  data,     \* the caller's buffer
  work,     \* work_real and work_imag
  length    \* of the butterflies that come next; past the size when done

fftVars == <<data, work, length>>

(* 1 << b *)
Shifted == LET p[b \in 0..Bits] == IF b = 0 THEN 1 ELSE 2 * p[b - 1] IN p

FftSize == Shifted[Bits]
Points == 0..FftSize - 1

(* cos_angle + i sin_angle at angle n * -2 pi / size.                       *)
Twiddle == LET t[n \in Points] == IF n = 0 THEN 1 ELSE (Root * t[n - 1]) % Prime IN t

(* At half the size the angle is -pi, and its cosine -1.                    *)
ASSUME SpectrumAssumption ==
  /\ Bits \in Nat \ {0} /\ Prime \in Nat \ {0} /\ Root \in Int
  /\ Twiddle[Shifted[Bits - 1]] \in Int /\ (Twiddle[Shifted[Bits - 1]] + 1) % Prime = 0
  /\ Inputs \subseteq Int /\ Reads \subseteq Int

FftInit == /\ data = [i \in Points |-> 0] /\ work = [i \in Points |-> 0]
           /\ length = 2 * FftSize

(* Fault: the last bit is forgotten.                                        *)
ReversedShort ==
  LET r[b \in 0..Bits] ==
        [i \in Points |-> IF b <= 1 THEN 0
                          ELSE (i % 2) * Shifted[b - 1] + r[b - 1][i \div 2]]
  IN  r

(* reversed of the b low bits of an index: bit 0 becomes bit b - 1, and the *)
(* others, bits - 1 of them, follow.                                        *)
Reversed ==
  LET r[b \in 0..Bits] ==
        [i \in Points |-> IF b = 0 THEN 0
                          ELSE (i % 2) * Shifted[b - 1] + r[b - 1][i \div 2]]
  IN  r

(* bit_reverse_copy: sample i goes to the place of its reversed index.      *)
Copied(input) ==
  [k \in Points |-> IF \E i \in Points : Reversed[Bits][i] = k
                    THEN input[CHOOSE i \in Points : Reversed[Bits][i] = k] ELSE work[k]]

(* The callback of mw_cal: a read replaces the beginning of the buffer, and *)
(* the transform is of all of it.                                           *)
Hear(n, samples) ==
  /\ length > FftSize
  /\ data' = [i \in Points |-> IF i < n THEN samples[i] ELSE data[i]]
  /\ work' = Copied(data')
  /\ length' = 2

(* One turn of the outer loop of fft_process: pairs half a length apart.    *)
Combine ==
  /\ length <= FftSize
  /\ LET half == length \div 2
         Temp(k) == work[k] * Twiddle[(k % half) * (FftSize \div length)]
     IN  work' = [k \in Points |->
                    IF k % length < half THEN (work[k] + Temp(k + half)) % Prime
                                         ELSE (work[k - half] - Temp(k)) % Prime]
  /\ length' = 2 * length
  /\ UNCHANGED data

FftNext == \/ Combine
           \/ \E n \in Reads : \E samples \in [0..n - 1 -> Inputs] : Hear(n, samples)

FftSpec == FftInit /\ [][FftNext]_fftVars

--------------------------------------------------------------------------------
(* When the stages are through, work[k] is the Fourier sum of the buffer at *)
(* frequency k, although every stage overwrites what it reads, and whatever *)
(* the transform before has left behind.                                    *)
SpectrumOfData ==
  length > FftSize =>
    \A k \in Points :
      work[k] = Total([i \in Points |-> data[i] * Twiddle[(i * k) % FftSize]], FftSize) % Prime
================================================================================
