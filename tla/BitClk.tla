--------------------------------- MODULE BitClk --------------------------------
(***************************************************************************)
(* Bit clock recovery, data carrier detect and the NRZI decoder behind it  *)
(* (src/src/bitclk.c, src/include/nrzi.h), fed by a line whose transitions *)
(* jitter and whose sender's clock is slower or faster than the receiver's. *)
(*                                                                         *)
(* The floating-point clock of [-1, 1) counts here in integer steps, Half  *)
(* of them for 1.0; a correction is rounded down.  A soft bit is its       *)
(* distance from the zero crossing in parts of a sample, at most Parts: so *)
(* the crossing lies where linear interpolation finds it.                  *)
(***************************************************************************)
EXTENDS Integers, Sequences, FiniteSets

CONSTANTS
  Half,      \* PHASE_MAX in steps
  Tick,      \* pll_clock_tick in steps
  Parts,     \* time is counted in these parts of a sample
  History,   \* length of transition_history; 32
  OnThr,     \* DCD_ON_THR; 26
  OffThr,    \* DCD_OFF_THR; 12
  MaxRun,    \* bits without transition that bit stuffing leaves
  Senders    \* [jitter : parts of a sample by which a transition may be early
             \*           or late,
             \*  drift : parts by which a bit is longer than the receiver's]

Grain == Tick \div Parts             (* steps of the clock in a part         *)
BitLength == (2 * Half) \div Grain   (* parts in a bit of the receiver       *)
Smaller(a, b) == IF a < b THEN a ELSE b
Magnitude(a) == IF a < 0 THEN -a ELSE a

(* At least eight samples a bit, in whole parts of a sample, so that no     *)
(* correction passes zero.  Jitter and a sample together are less than a    *)
(* fifth of a bit, and the senders' clocks drift by a 50th at most between  *)
(* two transitions.  One good transition is not enough: the first may come  *)
(* before the first bit is sampled.                                         *)
ASSUME BitClkAssumption ==
  /\ {Half, Tick, Parts, History, MaxRun} \subseteq Nat \ {0}
  /\ {OnThr, OffThr} \subseteq Nat
  /\ 8 * Tick <= 2 * Half /\ Tick % Parts = 0 /\ (2 * Half) % Grain = 0
  /\ OffThr < OnThr /\ 1 < OnThr /\ OnThr <= History
  /\ Senders \subseteq [jitter : Nat, drift : Int]
  /\ \A s \in Senders : /\ 11 * (Parts + s.jitter) <= 2 * BitLength
                        /\ 50 * ((MaxRun + 1) * Magnitude(s.drift)) <= BitLength

VARIABLES
  pll_clock, last_soft_bit, transition_history, data_detect,
  nrzi_bit,  \* last_bit of the NRZI decoder
  line,      \* level; flips: whether it changes at the end of the bit; left:
             \* parts until then; late: jitter of that end; run: bits since
             \* the last change; sender: whose line it is
  taken,     \* bits sampled in the present bit of the line, and in the last one
  right,     \* the last bit came out as it was sent
  locked,    \* bits of the line since data_detect is on, at most 2
  calm       \* transitions since data_detect changed, at most OnThr - OffThr

clockVars == <<pll_clock, last_soft_bit, transition_history, data_detect>>
vars == <<clockVars, nrzi_bit, line, taken, right, locked, calm>>

(* Only a sender at exactly the receiver's rate may keep changing its level *)
(* exactly at samples.                                                      *)
BetweenSamples(b) == b.sender.drift # 0 /\ b.flips => b.left % Parts # 0

Init == /\ pll_clock = 0 /\ last_soft_bit = 0 /\ data_detect = FALSE
        /\ transition_history = [i \in 1..History |-> FALSE]
        /\ nrzi_bit = FALSE
        /\ line \in [level : {TRUE}, flips : BOOLEAN, left : 1..BitLength,
                     late : {0}, run : {0}, sender : Senders]
        /\ BetweenSamples(line)
        /\ taken = <<0, 0>> /\ right = FALSE /\ locked = 0 /\ calm = 0

--------------------------------------------------------------------------------
(* The clock *)

(* Fault: a value of PHASE_MAX stays.                                       *)
WrapPhaseLate(value) == IF value > Half THEN value - 2 * Half ELSE value

(* One subtraction is enough: a tick is less than PHASE_WRAP.               *)
WrapPhase(value) == IF value >= Half THEN value - 2 * Half ELSE value

Quality(history) == Cardinality({i \in DOMAIN history : history[i]})

(* Fault: one threshold for both directions.                                *)
DetectAtOnce(history) == Quality(history) >= OnThr

Detect(history) == \/ Quality(history) >= OnThr
                   \/ data_detect /\ Quality(history) > OffThr

(* MIN_INERTIA + (MAX_INERTIA - MIN_INERTIA) * signal_quality / 32, in      *)
(* parts of 100 * History.                                                  *)
Inertia(history) == 28 * History + 54 * Quality(history)

(* Fault: the correction is computed and lost. *)
CorrectedNot(clock, ideal, history) == clock

Corrected(clock, ideal, history) ==
  (clock * Inertia(history) + ideal * (100 * History - Inertia(history)))
    \div (100 * History)

Ticked == WrapPhase(pll_clock + Tick)

(* Fault: the bit is taken when the clock leaves the middle of its range,   *)
(* at the transitions of the line.                                          *)
SamplesAtEdge == pll_clock <= 0 /\ Ticked > 0

(* A bit is sampled when the clock wraps.                                   *)
Samples == pll_clock > 0 /\ Ticked <= 0

(* At a zero crossing: its timing error, less than 0.05 bits or not, enters *)
(* the history, and the clock is drawn to where it should be.  With a soft  *)
(* bit of exactly zero there is no crossing, before or after it.            *)
Correction(soft) ==
  LET delta == Magnitude(soft) + Magnitude(last_soft_bit)
      crossing == pll_clock + (Tick * Magnitude(last_soft_bit)) \div delta
      good == 10 * Magnitude(crossing) < Half
      history == Append(Tail(transition_history), good)
  IN  /\ transition_history' = history
      /\ data_detect' = Detect(history)
      /\ pll_clock' = Corrected(Ticked, (Tick * Magnitude(soft)) \div delta, history)

Crosses(soft) == last_soft_bit * soft < 0

BitclkDetect(soft) ==
  /\ IF Crosses(soft) THEN Correction(soft)
     ELSE pll_clock' = Ticked /\ UNCHANGED <<transition_history, data_detect>>
  /\ last_soft_bit' = soft

(* A bit is one when the level has not changed.                             *)
NrziDecode(bit) == bit = nrzi_bit

--------------------------------------------------------------------------------
(* The line *)

Sign == IF line.level THEN 1 ELSE -1

(* The next sample, one sample nearer to the crossing or past it.           *)
Soft == Sign * (IF line.flips THEN Smaller(line.left - Parts, Parts) ELSE Parts)

(* The bits that may follow, and when they end; without a change at the end *)
(* there is nothing to jitter.                                              *)
NextBits ==
  {[level |-> line.level # line.flips, flips |-> f,
    left |-> line.left - Parts + BitLength + line.sender.drift + j - line.late,
    late |-> j, run |-> IF line.flips THEN 0 ELSE line.run + 1,
    sender |-> line.sender] :
   f \in BOOLEAN, j \in {-line.sender.jitter, 0, line.sender.jitter}}

Follows(b) == /\ BetweenSamples(b)
              /\ b.flips \/ (b.run < MaxRun /\ b.late = 0)

(* One sample: the line moves on, and what bitclk_detect finds goes to the  *)
(* NRZI decoder.                                                            *)
Ends == line.left <= Parts
Sample ==
  /\ IF Ends THEN line' \in {b \in NextBits : Follows(b)}
     ELSE line' = [line EXCEPT !.left = @ - Parts]
  /\ BitclkDetect(Soft)
  /\ LET n == Smaller(2, taken[1] + (IF Samples THEN 1 ELSE 0))
     IN  taken' = IF Ends THEN <<0, n>> ELSE <<n, taken[2]>>
  /\ IF Samples
     THEN /\ nrzi_bit' = (last_soft_bit > 0)
          /\ right' = (NrziDecode(last_soft_bit > 0) = (line.run # 0))
     ELSE UNCHANGED <<nrzi_bit, right>>
  /\ locked' = IF ~data_detect' THEN 0
               ELSE Smaller(2, locked + (IF Ends THEN 1 ELSE 0))
  /\ calm' = IF data_detect' # data_detect THEN 0
             ELSE Smaller(OnThr - OffThr, calm + (IF Crosses(Soft) THEN 1 ELSE 0))

Next == Sample

(* Samples come as long as the sound device captures.                       *)
Spec == Init /\ [][Next]_vars /\ WF_vars(Next)

--------------------------------------------------------------------------------
(* Properties *)

(* Every variable keeps its type; above all the clock its range.            *)
TypeOK ==
  /\ pll_clock \in (-Half)..(Half - 1)
  /\ last_soft_bit \in (-Parts)..Parts
  /\ transition_history \in [1..History -> BOOLEAN]
  /\ data_detect \in BOOLEAN /\ nrzi_bit \in BOOLEAN /\ right \in BOOLEAN
  /\ line.left \in 1..2 * BitLength /\ line.run \in 0..MaxRun
  /\ taken \in (0..2) \X (0..2) /\ locked \in 0..2 /\ calm \in 0..OnThr - OffThr

(* While a carrier is detected, every bit of the line is sampled once, none *)
(* twice and none never, and decodes to what was sent: jitter and the       *)
(* corrections it causes never move the clock past a bit.                   *)
EachBitOnce == locked = 2 => taken[1] <= 1 /\ taken[2] = 1 /\ right

(* The detector does not chatter: after a change it takes at least          *)
(* DCD_ON_THR - DCD_OFF_THR transitions to change again.                    *)
NoChatter == [][data_detect' # data_detect => calm + 1 >= OnThr - OffThr]_vars

(* A line at the receiver's rate whose transitions are early or late by a   *)
(* part of a sample, and never meet a sample exactly, is recognised from    *)
(* whatever phase it starts and not lost again: in the end this is always   *)
(* so.                                                                      *)
Steady == /\ line.sender.jitter <= 1 /\ line.sender.drift = 0
          /\ \A k \in 0..Parts : (line.left - line.late + k * BitLength) % Parts
                                     \in 2..(Parts - 2)
Recognised == ~Steady \/ data_detect
================================================================================
