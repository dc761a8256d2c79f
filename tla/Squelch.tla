--------------------------------- MODULE Squelch -------------------------------
(***************************************************************************)
(* The squelch (sql_process of src/src/squelch.c): two slow averages, one  *)
(* of the envelopes below the threshold and one of those above, with the   *)
(* threshold halfway between.  A low envelope means a carrier, because     *)
(* without one an FM receiver is loud.  Filter and gain control before it  *)
(* are the envelope that comes in.                                         *)
(***************************************************************************)
EXTENDS Integers

CONSTANTS
  Threshold,  \* init_threshold in steps; a multiple of 20
  Slowness,   \* 1 / alpha, more than one: alpha is 1 - exp(...)
  Channels,   \* channels listened to: [signal, noise : envelopes,
              \*                       fading : any envelope may come]
  Envelopes   \* envelopes of a fading channel

ASSUME SquelchAssumption ==
  /\ {Threshold, Slowness} \subseteq Nat \ {0} /\ Slowness # 1
  /\ Envelopes \subseteq Nat
  /\ \A c \in Channels : c.signal \in Nat /\ c.noise \in Nat

VARIABLES channel, low_ema, high_ema, threshold

sqlVars == <<channel, low_ema, high_ema, threshold>>

(* low_ema_est_mul and high_ema_est_mul are 0.25 and 1.55.                  *)
SqlInit == /\ channel \in Channels
        /\ low_ema = Threshold \div 4
        /\ high_ema = (155 * Threshold) \div 100
        /\ threshold = Threshold

(* By the share alpha of the distance, never further: what does not make a  *)
(* step is lost.                                                            *)
Averaged(average, envelope) ==
  IF envelope < average THEN average - (average - envelope) \div Slowness
                        ELSE average + (envelope - average) \div Slowness

(* strength is 0.51 in miniwolf_init.                                       *)
Opens(envelope) == 100 * envelope < 51 * low_ema + 49 * high_ema

(* Fault: without the else, the high average hears every envelope.          *)
SqlProcessNoElse(envelope) ==
  /\ low_ema' = IF envelope < threshold THEN Averaged(low_ema, envelope) ELSE low_ema
  /\ high_ema' = Averaged(high_ema, envelope)
  /\ threshold' = (low_ema' + high_ema') \div 2
  /\ UNCHANGED channel

(* Fault: the averages are exchanged.                                       *)
SqlProcessCrossed(envelope) ==
  /\ IF envelope > threshold
     THEN low_ema' = Averaged(low_ema, envelope) /\ UNCHANGED high_ema
     ELSE high_ema' = Averaged(high_ema, envelope) /\ UNCHANGED low_ema
  /\ threshold' = (low_ema' + high_ema') \div 2
  /\ UNCHANGED channel

(* sql_process on a sample with this envelope.                              *)
SqlProcess(envelope) ==
  /\ IF envelope < threshold
     THEN low_ema' = Averaged(low_ema, envelope) /\ UNCHANGED high_ema
     ELSE high_ema' = Averaged(high_ema, envelope) /\ UNCHANGED low_ema
  /\ threshold' = (low_ema' + high_ema') \div 2
  /\ UNCHANGED channel

(* Digital silence changes nothing: the step that leaves everything alone.  *)
Signal == SqlProcess(channel.signal)
Noise == SqlProcess(channel.noise)
Fading == channel.fading /\ \E envelope \in Envelopes : SqlProcess(envelope)

SqlNext == Signal \/ Noise \/ Fading

(* A station is heard again and again, and so is the channel without it.    *)
SqlFairness == WF_sqlVars(Signal) /\ WF_sqlVars(Noise)
SqlSpec == SqlInit /\ [][SqlNext]_sqlVars /\ SqlFairness

--------------------------------------------------------------------------------
(* Whatever comes, the average of the low envelopes stays below that of the *)
(* high ones, with the threshold between them: the squelch can not turn     *)
(* over and pass noise for signal.                                          *)
LevelsStayApart == low_ema <= threshold /\ threshold <= high_ema /\ low_ema < high_ema

(* The signal is below the middle between the noise and the first low_ema.  *)
(* One above it may pull the low average along, or be taken for noise for   *)
(* ever once enough noise was heard first: the code promises nothing then.  *)
Distinct(c) == 2 * c.signal < c.noise + Threshold \div 4

(* On a channel without fading whose signal and noise are that far apart,   *)
(* the squelch (sql_process, from its initial estimate on) is in the end    *)
(* open on the signal and shut on the noise, and stays so.                  *)
Separates == Distinct(channel) /\ ~channel.fading =>
               Opens(channel.signal) /\ ~Opens(channel.noise)
SquelchSettles == <>[]Separates
================================================================================
