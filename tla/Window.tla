--------------------------------- MODULE Window --------------------------------
(***************************************************************************)
(* The tone detectors of the receiver: one shift register of the last      *)
(* samples (ring_simple_t of src/src/ring.c), and for each tone a sliding  *)
(* Goertzel filter (src/src/goertzel.c) that is fed the newest sample and  *)
(* the one that leaves the window (src/src/demod_goertzel.c).              *)
(*                                                                         *)
(* With w a root of unity of order Size, 2 cos(omega) is w^bin + w^-bin,   *)
(* and in residues as good as in real numbers.                             *)
(***************************************************************************)
EXTENDS Sums

CONSTANTS
  Size,     \* window_size, not zero
  Coeff,    \* coeff of every tone, 2 cos(2 pi bin / Size), as a residue
  Levels    \* the values of a sample

VARIABLES
  buffer, head,  \* of the ring
  q1, q2,        \* of the filter of every tone
  recent         \* the last Size samples, newest first

toneVars == <<buffer, head, q1, q2, recent>>
Tones == DOMAIN Coeff
Slots == 0..Size - 1

(* What a filter answers to a single sample of one, n samples later:        *)
(* sin((n + 1) omega) / sin(omega), by its recurrence.                      *)
Answer(t) ==
  LET u[n \in 0..Size] == IF n = 0 THEN 1 ELSE IF n = 1 THEN Coeff[t]
                          ELSE (Coeff[t] * u[n - 1] - u[n - 2]) % Prime
  IN  u

(* grz_init rounds to a whole number of periods in the window: after Size   *)
(* samples the filter is back where it was.  Neither tone is a constant.    *)
ASSUME WindowAssumption ==
  /\ Size \in Nat /\ 1 < Size /\ Prime \in Nat \ {0} /\ Levels \subseteq Int
  /\ \A t \in Tones : /\ Coeff[t] \in Int
                      /\ Answer(t)[Size - 1] % Prime = 0
                      /\ (Answer(t)[Size] - 1) % Prime = 0

ToneInit == /\ buffer = [i \in Slots |-> 0] /\ head = 0
            /\ q1 = [t \in Tones |-> 0] /\ q2 = [t \in Tones |-> 0]
            /\ recent = [i \in Slots |-> 0]

(* Fault: the head moves on before the old sample is read.                  *)
ShiftedOutEarly == buffer[(head + 1) % Size]

(* ring_simple_shift1 returns the sample it overwrites.                     *)
ShiftedOut == buffer[head]

Shift1(sample) == /\ buffer' = [buffer EXCEPT ![head] = sample]
                  /\ head' = (head + 1) % Size

Filter(sample, front) ==
  /\ q1' = [t \in Tones |-> (sample - front + Coeff[t] * q1[t] - q2[t]) % Prime]
  /\ q2' = q1

(* value, before it is divided by half the window size.                     *)
Power(t) == q1[t] * q1[t] + q2[t] * q2[t] - q1[t] * q2[t] * Coeff[t]

Process(sample) ==
  /\ Shift1(sample)
  /\ Filter(sample, ShiftedOut)
  /\ recent' = [i \in Slots |-> IF i = 0 THEN sample ELSE recent[i - 1]]

ToneNext == \E sample \in Levels : Process(sample)

ToneSpec == ToneInit /\ [][ToneNext]_toneVars

--------------------------------------------------------------------------------
(* 2 cos(n omega), by its recurrence. *)
Cosine2(t) ==
  LET c[n \in Slots] == IF n = 0 THEN 2 ELSE IF n = 1 THEN Coeff[t]
                        ELSE Coeff[t] * c[n - 1] - c[n - 2]
  IN  c

(* What the filter of every tone reports is the power of the tone in the    *)
(* last Size samples, the squared magnitude of their Fourier sum: nothing   *)
(* older has an effect, and no sample of the window is missed or counted    *)
(* twice, though ring and filters are stepped separately.                   *)
PowerOfWindow ==
  \A t \in Tones :
    LET cos2 == Cosine2(t)
        Weighted(i) == [j \in Slots |-> recent[j] * cos2[IF i < j THEN j - i ELSE i - j]]
        Fourier2 == Total([i \in Slots |-> recent[i] * Total(Weighted(i), Size)], Size)
    IN  (2 * Power(t) - Fourier2) % Prime = 0
================================================================================
