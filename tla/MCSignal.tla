-------------------------------- MODULE MCSignal -------------------------------
(***************************************************************************)
(* The stages of reception whose state integers can hold, each on its own: *)
(* the bit clock, the squelch, the sliding windows that measure the tones, *)
(* and the spectrum for calibration.                                       *)
(***************************************************************************)
EXTENDS BitClk, Squelch, Window, Spectrum, TLC

VARIABLE stage  \* the stage that runs

(* One jitters by a quarter of a sample and its clock is slower than the    *)
(* receiver's; the others hardly jitter, and the clock of one is faster.    *)
MCSenders == {[jitter |-> 3, drift |-> 1]} \cup [jitter : {1}, drift : {-1, 0}]

(* Signal and noise on the two sides of the threshold; the last of the      *)
(* signals is too near to the first of the noises to be told from it.       *)
Carriers == [signal : {4, 20, 34}, noise : {42, 60, 90}, fading : {FALSE}]
Fades == {[signal |-> 20, noise |-> 60, fading |-> TRUE]}
MCChannels == Carriers \cup Fades

(* One and two periods in a window of five samples: modulo 41 the order of  *)
(* 10 is five, and these are 10 + 1/10 and 10^2 + 1/10^2.                   *)
MCCoeff == "mark" :> 6 @@ "space" :> 34
MCLevels == {-1, 0, 1}

(* The stages that do not run have one initial state.                       *)
MCInit ==
  /\ stage \in {"clock", "squelch", "tone", "spectrum"}
  /\ Init /\ SqlInit /\ ToneInit /\ FftInit
  /\ stage # "clock" => line.left = 1 /\ line.flips /\ line.sender.drift = 0
  /\ stage # "squelch" => channel.fading

ClockStep == stage = "clock" /\ Next /\ UNCHANGED <<stage, sqlVars, toneVars, fftVars>>
SignalStep == stage = "squelch" /\ Signal /\ UNCHANGED <<stage, vars, toneVars, fftVars>>
NoiseStep == stage = "squelch" /\ Noise /\ UNCHANGED <<stage, vars, toneVars, fftVars>>
FadingStep == stage = "squelch" /\ Fading /\ UNCHANGED <<stage, vars, toneVars, fftVars>>
ToneStep == stage = "tone" /\ ToneNext /\ UNCHANGED <<stage, vars, sqlVars, fftVars>>
SpectrumStep == stage = "spectrum" /\ FftNext /\ UNCHANGED <<stage, vars, sqlVars, toneVars>>

MCNext == ClockStep \/ SignalStep \/ NoiseStep \/ FadingStep \/ ToneStep \/ SpectrumStep

(* Samples come as long as the sound device captures, of the signal and of  *)
(* the noise.                                                               *)
MCSpec == /\ MCInit /\ [][MCNext]_<<stage, vars, sqlVars, toneVars, fftVars>>
          /\ WF_vars(ClockStep) /\ WF_sqlVars(SignalStep) /\ WF_sqlVars(NoiseStep)

(* A steady line is recognised and not lost again, from whatever phase the  *)
(* line starts in relation to the clock.                                    *)
CarrierIsHeld == <>[](stage = "clock" => Recognised)
================================================================================
