-------------------------------- MODULE Transmit -------------------------------
(***************************************************************************)
(* The way of a frame to the air: modulate_and_transmit of src/src/loop.c, *)
(* the modulator's buffer limits in src/src/modem.c, the output ring and   *)
(* the playback half of src/src/audio.c, driven by loop_run.               *)
(*                                                                         *)
(* All of it runs in one thread, so a call of the ring is one step here    *)
(* (module Ring has the fine grain).  Samples are numbered in the order in *)
(* which the ring accepts them; the ring holds the numbers from taken up   *)
(* to accepted, and a stretch of samples is a pair <<first, end>> with end *)
(* exclusive.  Sizes are the real ones.                                    *)
(***************************************************************************)
EXTENDS Integers, Sequences, FiniteSets

CONSTANTS
  RingSize,      \* RING_BUFFER_SIZE
  SampleCap,     \* the length of sample_data in modulate_and_transmit
  BitCap,        \* sizeof(bits_data) in md_tx_process, one bit per byte
  Period,        \* ALSA_PERIOD_SIZE
  DeviceBuffer,  \* what the device holds: four periods
  Rate,          \* sample rate
  TxDelay,       \* preamble in ms
  TxTail,        \* postamble in ms
  FrameBytes,    \* the lengths of the frames to send
  Shorts,        \* how many samples a short snd_pcm_writei takes
  MaxFrames,     \* bound: frames handed over
  MaxFaults      \* bound: faults of the sound device

ASSUME SizeAssumption ==
  /\ RingSize \in Nat \ {0} /\ SampleCap \in Nat /\ BitCap \in Nat
  /\ Period \in Nat \ {0} /\ DeviceBuffer \in Nat /\ Rate \in Nat
  /\ TxDelay \in Nat /\ TxTail \in Nat
  /\ FrameBytes \subseteq Nat /\ Shorts \subseteq Nat \ {0}
  /\ MaxFrames \in Nat /\ MaxFaults \in Nat

VARIABLES
  step,      \* where loop_run is
  timeout,   \* what the next poll will wait at most
  frames,    \* the frames handed over, in order
  accepted,  \* samples written to the ring so far
  taken,     \* samples read from the ring so far
  pcm,       \* the state of the playback device
  handed,    \* the stretches handed to the device without a break
  hits,      \* the stretches that faults of the device lost or cut
  faults     \* how many faults there were

stream == <<frames, accepted>>
device == <<pcm, handed, hits, faults>>
vars == <<step, timeout, stream, taken, device>>

Smaller(a, b) == IF a < b THEN a ELSE b
Queued == accepted - taken

Init ==
  /\ step = "playback" /\ timeout = "long"
  /\ frames = <<>> /\ accepted = 0 /\ taken = 0
  /\ pcm = "prepared" /\ handed = <<>> /\ hits = {} /\ faults = 0

--------------------------------------------------------------------------------
(* Modulation *)

(* ceilf(0.001 * ms * 1200 / 8) *)
Flags(ms) == (ms * 1200 + 7999) \div 8000

(* The framer emits the flags, the frame and its two bytes of CRC, least    *)
(* significant bit first.  Bit stuffing, which can only add to it, is left  *)
(* out.                                                                     *)
Bits(bytes) == 8 * (Flags(TxDelay) + bytes + 2 + Flags(TxTail))
SamplesPerBit == 1 + Rate \div 1200

(* How many samples md_tx_process leaves in the buffer.  A frame too long   *)
(* for the bit buffer leaves none, one too long for the sample buffer       *)
(* leaves the bits that fit; both return -1, which nobody looks at.         *)
Modulated(bytes) ==
  IF Bits(bytes) > BitCap THEN 0
  ELSE Smaller(Bits(bytes), SampleCap \div SamplesPerBit) * SamplesPerBit

(* modulate_and_transmit: what the ring has no room for is dropped.         *)
Transmit(bytes) ==
  /\ step = "input"
  /\ Len(frames) < MaxFrames
  /\ LET n == Smaller(Modulated(bytes), RingSize - Queued) IN
     /\ frames' = Append(frames, [bytes |-> bytes, first |-> accepted,
                                  end |-> accepted + n])
     /\ accepted' = accepted + n
  /\ UNCHANGED <<step, timeout, taken, device>>

--------------------------------------------------------------------------------
(* Playback *)

(* Faults: a whole period is written, whatever ring_read returned; nothing  *)
(* is until the ring holds a whole period.                                  *)
TakenBlindly == Period
TakenWholePeriods == IF Queued >= Period THEN Period ELSE 0

(* What one iteration takes from the ring and tries to write.               *)
Taken == Smaller(Queued, Period)

(* A stretch continues the last one unless the device stopped in between.   *)
Hand(from, end) ==
  handed' = IF handed # <<>> /\ pcm = "running" /\ handed[Len(handed)][2] = from
            THEN [handed EXCEPT ![Len(handed)] = <<@[1], end>>]
            ELSE Append(handed, <<from, end>>)

(* aud_process_playback_period with an empty ring.                          *)
PlaybackIdle ==
  /\ step = "playback"
  /\ Queued = 0
  /\ timeout' = "long"
  /\ step' = "poll"
  /\ UNCHANGED <<stream, taken, device>>

(* Fault: the write that reported an underrun or a suspend is not repeated. *)
PlaybackWritesOnce ==
  /\ step = "playback"
  /\ Queued > 0
  /\ IF pcm \in {"xrun", "suspended"} THEN UNCHANGED handed
                                      ELSE Hand(taken, taken + Taken)
  /\ taken' = taken + Taken
  /\ pcm' = "running"
  /\ timeout' = "short"
  /\ step' = "poll"
  /\ UNCHANGED <<stream, hits, faults>>

(* The period is written: at once, or after snd_pcm_writei reported an      *)
(* underrun or a suspend and aud_stream_recover got the device going.       *)
PlaybackWrites ==
  /\ step = "playback"
  /\ Queued > 0
  /\ Hand(taken, taken + Taken)
  /\ taken' = taken + Taken
  /\ pcm' = "running"
  /\ timeout' = "short"
  /\ step' = "poll"
  /\ UNCHANGED <<stream, hits, faults>>

(* Fault: after a short count the whole period is written once more.        *)
PlaybackShortRepeats(n) ==
  /\ step = "playback"
  /\ n < Taken
  /\ faults < MaxFaults
  /\ Hand(taken, taken + n)
  /\ hits' = hits \cup {<<taken + n, taken + Taken>>}
  /\ pcm' \in {"running", "xrun", "suspended"}
  /\ timeout' = "short"
  /\ step' = "poll"
  /\ faults' = faults + 1
  /\ UNCHANGED <<stream, taken>>

(* snd_pcm_writei returns a short count: the rest of the period is gone,    *)
(* and the caller takes it for a success.                                   *)
PlaybackShort(n) ==
  /\ step = "playback"
  /\ n < Taken
  /\ faults < MaxFaults
  /\ Hand(taken, taken + n)
  /\ hits' = hits \cup {<<taken + n, taken + Taken>>}
  /\ taken' = taken + Taken
  /\ pcm' \in {"running", "xrun", "suspended"}
  /\ timeout' = "short"
  /\ step' = "poll"
  /\ faults' = faults + 1
  /\ UNCHANGED stream

(* The write fails for good: an error recovery does not know, a failed      *)
(* recovery, or a second error.  The period is gone.                        *)
PlaybackFails ==
  /\ step = "playback"
  /\ Queued > 0
  /\ faults < MaxFaults
  /\ hits' = hits \cup {<<taken, taken + Taken>>}
  /\ taken' = taken + Taken
  /\ pcm' \in {"prepared", "xrun", "suspended"}
  /\ timeout' = "long"
  /\ step' = "poll"
  /\ faults' = faults + 1
  /\ UNCHANGED <<stream, handed>>

--------------------------------------------------------------------------------
(* The loop around it *)

PollReturns ==
  /\ step = "poll"
  /\ step' = "input"
  /\ UNCHANGED <<timeout, stream, taken, device>>

(* EINTR: continue. *)
PollInterrupted ==
  /\ step = "poll"
  /\ step' = "playback"
  /\ UNCHANGED <<timeout, stream, taken, device>>

InputDone ==
  /\ step = "input"
  /\ step' = "playback"
  /\ UNCHANGED <<timeout, stream, taken, device>>

(* The device has played all it was given.  With an empty ring that is how  *)
(* every transmission ends; with samples waiting it is a fault: the loop    *)
(* came too late.                                                           *)
Underrun ==
  /\ pcm = "running"
  /\ pcm' = "xrun"
  /\ IF Queued = 0
     THEN UNCHANGED <<hits, faults>>
     ELSE /\ faults < MaxFaults
          /\ faults' = faults + 1
          /\ hits' = hits \cup {<<taken, taken>>}
  /\ UNCHANGED <<step, timeout, stream, taken, handed>>

(* The machine sleeps; what the device still held is not played.            *)
Suspend ==
  /\ pcm = "running"
  /\ faults < MaxFaults
  /\ pcm' = "suspended"
  /\ faults' = faults + 1
  /\ hits' = hits \cup {<<taken - DeviceBuffer, taken>>, <<taken, taken>>}
  /\ UNCHANGED <<step, timeout, stream, taken, handed>>

Playback == \/ PlaybackIdle
            \/ PlaybackWrites
            \/ \E n \in Shorts : PlaybackShort(n)
            \/ PlaybackFails

Next == \/ Playback
        \/ PollReturns
        \/ PollInterrupted
        \/ \E bytes \in FrameBytes : Transmit(bytes)
        \/ InputDone
        \/ Underrun
        \/ Suspend

(* The loop goes on: poll returns by its timeout, and snd_pcm_writei blocks *)
(* no longer than the device plays.                                         *)
Fairness == WF_vars(Playback) /\ WF_vars(PollReturns) /\ WF_vars(InputDone)

Spec == Init /\ [][Next]_vars /\ Fairness

--------------------------------------------------------------------------------
(* Properties *)

(* Every variable keeps its type, and the ring never holds more than fits.  *)
TypeOK ==
  /\ step \in {"playback", "poll", "input"} /\ timeout \in {"short", "long"}
  /\ frames \in Seq([bytes : FrameBytes, first : Nat, end : Nat])
  /\ Len(frames) <= MaxFrames
  /\ accepted \in Nat /\ taken \in 0..accepted /\ Queued <= RingSize
  /\ pcm \in {"prepared", "running", "xrun", "suspended"}
  /\ handed \in Seq(Nat \X Nat)
  /\ hits \subseteq Int \X Nat
  /\ faults \in 0..MaxFaults

(* A fault of the device lost samples of the frame or cut it in two.        *)
Hit(f) == \E h \in hits : h[1] < f.end /\ h[2] > f.first

(* The frame has been handed to the device in one unbroken stretch.         *)
Unbroken(f) == \/ f.first = f.end
               \/ \E k \in 1..Len(handed) :
                    handed[k][1] <= f.first /\ f.end <= handed[k][2]

(* The device gets the samples in the order in which frames were queued,    *)
(* none twice, whatever is retried after an underrun or a suspend.          *)
PlayedInOrder ==
  /\ \A k \in 1..Len(handed) : /\ handed[k][1] < handed[k][2]
                               /\ handed[k][2] <= taken
  /\ \A k \in 1..(Len(handed) - 1) : handed[k][2] <= handed[k + 1][1]

(* Only a fault that befell the device during a frame can break it: the     *)
(* underrun at the end of every transmission and the recovery from it at    *)
(* the start of the next never do, because a frame is queued all at once.   *)
OnlyFaultsBreakFrames ==
  \A i \in 1..Len(frames) :
    taken >= frames[i].end => Unbroken(frames[i]) \/ Hit(frames[i])

(* No frame is left behind in the ring: each one is handed to the device in *)
(* one stretch, unless a fault of the device befell it.                     *)
EveryFrameGoesOut ==
  \A i \in 1..MaxFrames :
    Len(frames) >= i ~> /\ Len(frames) >= i
                        /\ taken >= frames[i].end
                        /\ Unbroken(frames[i]) \/ Hit(frames[i])

(* The test at src/test/test_modem.h:643-650 has it that a frame of the     *)
(* maximum payload is modulated successfully: when the ring is empty, all   *)
(* of its samples get there.                                                *)
MaxPayloadIsModulated ==
  \A i \in 1..Len(frames) :
    frames[i].bytes = 255 /\ (i = 1 \/ frames[i].first = taken) =>
      frames[i].end - frames[i].first = Bits(255) * SamplesPerBit
================================================================================
