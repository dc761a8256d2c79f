# miniwolf: a verification project

miniwolf is a sound card modem and TNC for AX.25 packets over 1200 baud AFSK.
It takes samples from an ALSA device, runs several demodulators over them,
reports the frames they find on stdout, TCP, UDP and Unix sockets, and sends
frames that come in from there.  This directory holds TLA+ modules that model
parts of it, the TLC configurations that check them, and proofs that TLAPS
checks.  `PROJECT.json` lists every component, run, fault, hazard and theorem,
and maps every definition to the lines of code it stands for.

## The system

Everything in the program `miniwolf` happens in one thread.  `main` initialises
the ring for output, opens the device, opens sockets, and calls `loop_run`:

    forever:
      write one period from the ring to the device   (aud_process_playback_period)
      poll all descriptors, 10 ms or 250 ms          (EINTR: back to the top)
      audio ready: read and demodulate until drained (aud_process_capture)
      stdin, TCP, UDP, UDS ready: decode and modulate (process_*_input)
      leave when nothing was received for too long

The ring is written for two threads all the same: its indices are atomic, and
no lock protects its slots.

| Component | State it keeps | Operations | What makes it correct |
|---|---|---|---|
| Sample ring, `ring.c` | slots, two free-running atomic indices | init, available, write, read | a bounded FIFO for one producer and one consumer, no data race |
| Reception, `modem.c` | per demodulator: filters, bit clock, deframer; shared: last modem, CRC, time | process a buffer, modulate | a frame is reported once; none is suppressed that was not seen |
| Modulation, `modem.c`, `mod.c`, `loop.c` | none between frames but the phase | modulate_and_transmit | a frame is put into the ring whole |
| Playback, `audio.c` | output ring, state of the device | aud_output, playback period, recovery | in order, no gap within a frame, everything goes out |
| Capture, `audio.c` | state of the device | capture period, drain, recovery | goes on after an overrun or a suspend |
| Event loop, `loop.c` | poll timeout, last packet time | one turn | nobody starves, leaves only when idle |
| Routing, `loop.c` | which outputs are on | audio_input_callback | every enabled output gets each frame |
| Inputs, `loop.c` | one KISS decoder, four line readers | process_*_input | frames of clients do not mix |
| Life cycle, `main.c`, `miniwolf.c` | enabled flags, descriptors | init, free | what is freed was initialised |
| Options | the options record | arguments, file, defaults | each value is what arguments and file give together, else the default |
| Bit clock, `bitclk.c`, `nrzi.h` | clock, history of transitions, carrier detect | per soft bit | each bit once; lock is found, held, and does not chatter |
| Squelch, `squelch.c` | two averages and a threshold | per sample | signal and noise are told apart |
| Tone detectors, `ring.c`, `goertzel.c`, `demod_goertzel.c` | window, two values a tone | per sample | the power of the window and nothing else |
| Filters, gain control, quadrature demodulator, synthesis | floats | per sample | numerics |
| `mw_cal`, `fft.c` | buffer, work arrays | per read | the spectrum of the buffer |
| `mw_bench`, `mavg.c` | counters, averages | offline, tests | |
| `libtnc`, `libcomm` | | HDLC, AX.25, KISS, TNC2, sockets, poller | submodules, absent here |

Components interact by calls only.  A received buffer runs through the squelch,
the modem and the outputs within one call; a frame to send runs through the
modem into the ring within one call, and from the ring to the device a period
at a time, on later turns of the loop.  The deduplication state is where the two
directions meet: `modem_modulate` writes what `md_multi_rx_process_at` reads.

What is hard to test: the interleaving of the two sides of the ring and the
wrap of its indices; demodulators that complete one frame in different buffers,
with a modulation or a tick of the clock in between; a device that underruns,
is suspended or fails at any time; clients that share decoders and leave amid a
frame; end conditions of the loop; failures on the way to it; feedback in the
bit clock and the squelch.
`PROJECT.json` lists these hazards with their lines.

## Modules

| Module | Models | Rests on |
|---|---|---|
| `SampleQueue` | abstract: a bounded FIFO of samples with calls that take time | |
| `Ring` | `ring.c`, each atomic access and each copied sample a step | instance of `SampleQueue` |
| `MCRing` | small instance of `Ring` for TLC | `Ring` |
| `RingProofs` | theorems about `Ring` | `Ring` |
| `Modem` | reception with several demodulators, deduplication, modulation | |
| `MCModem` | instance for TLC | `Modem` |
| `ModemProofs` | theorems about `Modem` | `Modem` |
| `Transmit` | modulator limits, output ring, playback, `loop_run` around them | |
| `MCTransmit` | instance for TLC with the real sizes | `Transmit` |
| `TransmitProofs` | theorems about `Transmit` | `Transmit` |
| `AudioIO`, `MCAudioIO` | `audio.c` call by call: capture, playback, recovery, and the device | |
| `AudioIOProofs` | theorems about `AudioIO` | `AudioIO` |
| `Loop`, `MCLoop` | `loop.c`: a turn of the loop, clients, shared decoders, outputs, idle exit | |
| `LoopProofs` | theorems about `Loop` | `Loop` |
| `Startup`, `MCStartup` | options, `main`, `miniwolf_init` and `_free`, opening of the device, service manager | |
| `StartupProofs` | theorems about `Startup` | `Startup` |
| `BitClk` | bit clock, carrier detect, NRZI, and a line with jitter and drift | |
| `BitClkProofs` | theorems about `BitClk` | `BitClk` |
| `Sums` | the sum that `Window` and `Spectrum` are to compute, and the modulus of their arithmetic | |
| `Window` | shift register and sliding Goertzel filters | `Sums` |
| `Squelch` | averages and thresholds of the squelch | |
| `SignalProofs` | theorems about `Squelch`, `Window` and `Spectrum` | `Squelch`, `Window`, `Spectrum` |
| `Spectrum` | buffer and FFT of `mw_cal` | `Sums` |
| `MCSignal` | the stages of `BitClk`, `Squelch`, `Window` and `Spectrum`, one at a time, for TLC | `BitClk`, `Squelch`, `Window`, `Spectrum` |

`AudioIO`, `Transmit`, `Loop` and `Startup` divide the program by time scale.
`Startup` ends where `Loop` begins, in the state its `LoopIsReady` describes.
What `Loop` calls `queued` is what `Transmit` begins with; the outcomes of a
period that `Transmit` takes in one step are what `AudioIO` finds possible: given
once, or not at all.  What a demodulator completes is a choice in `Modem`, and
`BitClk` and `Window` say what precedes it.

Operators whose comment begins with "Fault" are not part of any specification.
They are plausible mistakes: put in the place of the definition they follow the
name of, each must break the property `PROJECT.json` pairs it with.

### SampleQueue

A call to put or get has a moment when it begins and one when it takes effect
and returns.  A put takes at least as many samples as had room when it began; a
get returns at least as many as were queued when it began.  That is what
`ring_write` and `ring_read` promise when the other side goes on meanwhile, and
what the rest of the program relies on.

### Ring

`buffer`, `read_idx` and `write_idx` are the fields of `struct ring_buffer`; the
other variables are the arguments and locals of the call each side is in.
`WriteBegin` loads both indices and computes the space, `WriteCopy` copies one
sample of the one or two `memcpy` calls, `WriteCommit` stores the index;
`ReadBegin`, `ReadCopy`, `ReadCommit` likewise, and `RingAvailable` remembers
what the consumer was told.  Indices wrap at `IndexRange`, the number of values
of a `size_t`, which the size of the buffer must divide; the program's 131072
does.  The two loads of a call are one step: nobody but the caller stores its
own index.  Memory is sequentially consistent, as the default order of
`atomic_load` and `atomic_store` makes it for code without data races, and
`NoDataRace` is that proviso.

`RingAvailable` belongs to the consumer.  A third thread may see the read index
overtake the write index it loaded earlier; no such thread exists in the code.

Fairness: a side that is within a call takes its next step.  The code has no
wait there.  Calls need never begin.

### Modem

One action is one buffer of samples, of every demodulator in order
(`ProcessQuiet`, `ProcessRemote`, `ProcessOwn`: nothing ends in the buffer, a
transmission of another station does, one of this station does), a modulation
(`Modulate`, `ModulateFails`), or a tick of the clock.  What a demodulator makes
of a transmission is a choice: it completes the frame in this buffer, in the
next, or never.  The first demodulator with a frame ends the feeding of
deframers after it, and they lose what they had begun (`broken`).  Frames are
told apart by CRC, as the code does; two frames of equal CRC are one here.
`seen`, `copies`, `swallowed`, `interrupted`, `overdue` and `garbage` are
history: they record what happened and no guard of reception reads them.

The clock ticks whenever it likes.  A buffer is at most 4800 samples, a tenth of a
second, but the window is measured at the time of processing (`modem.c:33`, `62`),
and a closed squelch, a blocked write to stdout or the recovery of the device may
hold the next buffer back for as long as they last.  `overdue` has the
transmissions that a demodulator was late with while the clock ticked twice.  The
program starts well after second 1 of the epoch (`StartTime > 1`), without which
a frame with CRC 0 would match the initial state; `mw_bench` adds its simulated
seconds to the present time, too (`main_bench.c:299`, `338`).

`ModulateFails` is a failure of the HDLC framer (for instance because the
preamble does not fit the bit buffer).  `libtnc` is not part of the repository,
so what it leaves in the CRC is a choice over all of them.

### Transmit

Samples are numbered as `ring_write` accepts them, so that the ring is the
interval from `taken` to `accepted` and a frame is an interval, too.  `Transmit`
computes how many samples the modulator leaves (`Modulated`, with the
truncation of `md_tx_process`), and drops what the ring has no room for.  The
playback actions are the outcomes of one call of `aud_process_playback_period`:
nothing queued, a period written (at once or after recovery and one retry),
a short count that loses the rest, and a failure that loses the period.
`Underrun` and `Suspend` are the device's own.  `handed` records the stretches
the device got without a break, `hits` what faults lost or cut.

An underrun with an empty ring is how every transmission ends, and no fault; the
recovery from it at the start of the next is part of `PlaybackWrites`.

Fairness: `loop_run` goes on.  Poll has a timeout, `snd_pcm_writei` blocks no
longer than the device plays, input of one turn ends.  Interrupted polls and new
input may come for ever as far as the bounds allow; playback is at the top of
every turn, so the frames go out regardless.

### AudioIO

`dir` says whether the stream is the one for capture or for playback; one
behaviour is about one of them.  A call of the library is a step, with what
`audio.c` does about its result: `Report` is the error branch that leads into
`aud_stream_recover` the first time and out of the function the second time
(`again`).  The device is external: it fills or plays its buffer, overruns or
runs dry, is suspended with the machine and comes back (`asleep`), resumes or
cannot (`resumes`), and tells `snd_pcm_avail_update` of a suspension or not
(`hears`); drivers differ in both.  Any call of the library may fail otherwise,
`MaxFaults` times with the suspensions.  Buffers are counted in chunks of half of
what one call of the callback takes (2400 samples); the device's four periods
are 6 or 7 of them.

Fairness: the loop polls and the calls go on; a running device delivers or
plays; a suspended machine is resumed.  Nothing is assumed of faults or of how
often playback has something to play.

### Loop

A turn is `Poll`, which fixes what is ready (`todo`), one step for each thing that
is, in the order of the code, and `IdleCheck`.  That a server that is not enabled
has descriptor 0, so that input on stdin counts for it, is part of `LookedAt`.
Clients send their frames in two pieces.  `Decoded` and `Unfinished` are what a KISS
decoder and a line reader make of the bytes they have got, and what they keep;
both are modelled from their use and the protocols: `libtnc`'s directory is empty.  `libcomm`'s servers are initialised with timeout 0
(`miniwolf.c:39`), so a call is taken not to block, and to accept one client,
read from one, or close one.  `EINTR` changes nothing and is a stutter.

Fairness: the loop goes on (poll has a timeout, no call blocks), time passes, and
each client is served again and again as long as its server is called and it
has something for it: strong fairness, an assumption about `libcomm`.

Two things that may go wrong are left out here.  The sources are those that
`Startup` calls watched: a server that the poller refused is not in `Loop`.  And
the registration of a client that connects (`loop.c:34`, `46`), whose result nobody
looks at, succeeds.

### Startup

The value of an option is where it comes from.  `Watch` is `socket_poller_add`: its
result counts for the capture stream only; for a server or stdin a refusal is
ignored (`miniwolf.c:45` to `118`), and `unwatched` remembers it.  `Advance` is the way without
failures, `Failure` a call that fails; `LoopEnds` the only way out of `loop_run`,
`EXITIF` with a failure status, from which the service manager starts over.
Arguments are valid ones, numbers positive; the device gets the parameters it is
asked for.

### BitClk, Window, Squelch, Spectrum

These are floating-point code, and each model says what it keeps of that.

* `BitClk` counts the clock in steps, `Half` of them for 1.0, and rounds a correction
  down.  Time on the line is in parts of a sample, so that a bit need not be a whole
  number of samples: at 44.1 kHz it is 36.75, and `Parts` a multiple of four.  The
  line changes at bit ends that are early or late by the sender's jitter, and the
  sender's bits are longer or shorter than the receiver's by its drift;
  soft bits fall linearly towards a change, so that the interpolation of
  `bitclk_detect` finds it.  `BitClkAssumption` asks for 8 samples a bit, for
  jitter and one sample to be 2/11 of a bit at most together, for the
  drift between two transitions to be a 50th of a bit at most (a quarter of a percent
  with the seven bits that stuffing leaves), and that one
  good transition does not turn the detector on.  With a threshold
  of one, `EachBitOnce` is false: TLC finds that a transition half a step from
  where it is expected turns the detector on while the clock is still far off.
  A sender off the receiver's rate does not change its level exactly at
  a sample (`BetweenSamples`): that soft bit is zero, the crossing is not seen
  (`bitclk.c:66`), and the drift of two runs adds up.
  `nrzi_decode` is called by the deframer of `libtnc`.
  The history has 4 places in the run and thresholds in
  proportion (3 and 1 for 26 and 12 of 32), and a run of equal bits is at most two
  bits long.
* `Window` and `Spectrum` compute with residues modulo a prime in the place of real
  and complex numbers.  The filters ask for no more than the laws of a ring and a
  coefficient whose ringing (`Answer`) has the window for its period, the transform for
  no more than a root of unity that is -1 at half its size: what they compute
  is right in every ring that has these, as the proofs show, and for a window of any size
  there is a prime that does.  `WindowAssumption` excludes a tone of no
  periods or of half as many periods as samples, a constant or alternating one.  In floats the
  poles of the filter lie on the unit circle, and rounding errors stay in `q1` and
  `q2`; that is not in the model.
* `Squelch` takes the envelope as input.  `alpha` is one in `Slowness`, a quarter in
  the run; an average steps by that share of its distance from the envelope, and a
  rest smaller than a step is lost.
  `SquelchSettles` has a condition (`Distinct`): the signal is below the middle
  between the noise and the first `low_ema`.  TLC finds that a louder signal, heard
  after the noise, is taken for noise for ever; the run has such a channel, and the
  property says nothing of it.
* In `Spectrum` a read may stop in the middle of the buffer, and the transform is
  of all of it, old samples included (`main_cal.c:144`).

## Runs

| Run | Shows | Bounds and why they are enough |
|---|---|---|
| `ring` | types, `NoOverrun`, `NoDataRace`, `AvailableIsHonoured`, and that the ring implements `SampleQueue`, liveness of calls included | 3 slots, 6 index values, chunks of 0 to 4 samples of two values: full and empty ring, both chunks of a copy, wrap of slots and of indices, short counts |
| `modem` | `NothingVanishes`, `SwallowedWasJustSeen`, `DeliveredOnce` | 2 demodulators, CRCs 0 and 1, 3 transmissions, 1 modulation, 3 seconds: a late second decode, one that is overdue, starvation, a chain of repetitions, an open and a closed window |
| `modem_garbage` | violation: `OnlySeenFramesSwallowed` | as above |
| `modem_self` | violation: `SelfDemodulationFiltered` | as above |
| `transmit` | `PlayedInOrder`, `OnlyFaultsBreakFrames`, and that every frame goes out | sizes of the program at 48 kHz; 2 frames of 20 or 255 bytes and 1 fault: a long transmission, one that overflows the ring, a second one after the device ran dry, a fault at any place |
| `transmit_payload` | violation: `MaxPayloadIsModulated` | as above |
| `audio` | `OneErrorIsRecovered`, `GivenOnce`, that capture goes on (`CaptureGoesOn`) and calls return (`PeriodReturns`) | 6 chunks in the device, 2 in a read, 3 faults: a full buffer and an overrun, reads of one and of two chunks, an error in the first call, in the recovery and in the repetition |
| `loop` | `OnlyMixingBreaksFrames`, `OutputsGetTheirFrames`; every whole frame is queued (`FramesAreQueued`), the idle program ends (`IdleProgramExits`) | all 128 combinations of output options with one received frame of each kind; four groups of two or three clients, on one decoder and on several; idle exit after 2 ticks |
| `loop_udp` | violation: `UdpKissIsSent` | as above |
| `startup` | `FreesWhatItMade`, `LoopIsReady`, `StrongestSourceCounts`, and that a service comes back (`ServiceComesBack`) | all combinations of the options that steer `main`, with each server; files that set and unset every kind of option; 2 failures |
| `startup_args` | violation: `ArgumentsOverrideFile` | as above |
| `signal` | `EachBitOnce`, `NoChatter`, `CarrierIsHeld`; `PowerOfWindow`; `LevelsStayApart`, `SquelchSettles`; `SpectrumOfData` | 8.5 samples a bit, in twelfths of a sample; three senders: jitter of a quarter of a sample with bits a twelfth of a sample longer than the receiver's, and jitter of a twelfth with bits as long and a twelfth shorter; every initial phase; a window of 5 samples of 3 values, with one and two periods, modulo 41; transforms of 8 samples of 2 values, whole and partial reads; 9 steady channels, one of them not `Distinct`, and a fading one with envelopes on both sides of the threshold and near it |

`MaxAir`, `MaxSent`, `MaxTime`, `MaxFrames` and `MaxFaults` bound counters and
stop the behaviour there; `MaxRead` bounds what a consumer asks for.  The modem
run has two of the program's three demodulators; with three its invariants hold
as well, but take minutes.  Deadlock is checked except in `audio` (a capture stream
that is wedged stops for good, see below), `loop` and `startup` (the program ends).

`CaptureGoesOn` has two exceptions, both real.  When `snd_pcm_start` fails in
recovery (`audio.c:60`) the stream is left prepared, never becomes ready, and
nothing tries again.  When the stream is suspended with nothing in its buffer and
`snd_pcm_avail_update` says 0, the period ends before the error is seen.
`OneErrorIsRecovered` has one: after a successful resume the capture stream is
running, `snd_pcm_start` on it fails, and the recovery counts as failed
(`audio.c:94`); the next turn reads what is there.
`OnlyMixingBreaksFrames` has the one that the code is built with, that clients
share decoders (`loop.c:353`, `361`).
`DeliveredOnce` has two: a modulation between two decodes of a transmission, and two
ticks of the clock between the buffers they fall into; TLC finds it delivered twice in both.
`LoopIsReady` has the servers and the stdin that the poller refused to watch.
`CarrierIsHeld` is about lines at the receiver's rate whose transitions are early or late by a part of a sample
and never meet a sample exactly (`Steady`): with the short history of the run and a sender that drifts by
a percent, good and bad transitions alternate so that the detector switches on and off for ever.

## What disagrees with the code's own words

* `modem_self`.  `modem.c:225`: "Treat tx crc as already demodulated to filter out
  self-demodulations".  The test for a duplicate also asks that another modem
  saw it, and `last_modem` still names the demodulator of the last frame.  When
  that one hears the station, the station's frame is reported as received.
* `modem_garbage`.  `modem.c:61` suppresses a frame "just (within 1s) seen".
  `modem_modulate` stores `frame_crc` even when the framer failed and never
  assigned it, and a frame that has this CRC within the next second is dropped
  though nobody saw it.
* `transmit_payload`.  `test_modem.h:643-650` requires that 255 bytes, the "Maximum
  AX.25 payload size", modulate successfully.  In the program, at 48 kHz with the
  default preamble, they need 100696 samples and the buffer has 96000; the -1 is
  ignored and the beginning of the frame is transmitted.  At 44.1 kHz it fits.

* `loop_udp`.  `README.md:91`: `--udp-kiss-addr` is to "Send received packets via UDP
  (KISS)".  The sender is used only inside the branch of `loop.c:201`, with `--kiss`
  or a TCP server for KISS.  `--udp-tnc2-addr` with `--kiss` is the same at
  `loop.c:232`, and Unix sockets are subject to both.
* `startup_args`.  `README.md:121`: "Arguments override entries in the configuration
  file."  The file is read after the arguments, and only strings are left alone
  when they are set already; numbers and flags are replaced.  `options.h:103` has it that
  the file overwrites "only null/zero/empty values", which is as little true.

Seen on the way, without a run of their own: `README.md` gives 50 ms as the default
of `--tx-tail`, `options.c:44` has 30; the value of `--squelch` switches the squelch on
and is otherwise unused (`miniwolf.c:138` has 0.51); keys of the
configuration file are said to be the long option names (`README.md:118`), but `exit-idle`,
`verbose` and `debug` are not read from it (`options_file.c:16-52`).

## Proofs

`RingProofs`, for every size, index range, set of samples and chunks:

* `RingInvariant`: the inductive invariant.  `NoOverrun` by itself is not
  inductive: the snapshots matter.  The invariant says that the space a writer
  computed is no more than there is now (the consumer can only have made more),
  that what a reader computed is no more than what is queued now, that what has
  been copied so far is in the slots after the queue and in the output, and that
  copies stay below the counts.
* `TypeCorrect`, `NeverOverrun`, `NeverDataRace`, `AvailableHolds` follow.
  The steps that matter are arithmetic modulo two numbers: `SlotsDistinct` (two
  indices less than a buffer apart are different slots, also across the wrap at
  `IndexRange`, because `N` divides it) and `AddressIsSlot` (the two chunks of
  `memcpy` reach the slots of consecutive indices).
* `RingIsAQueue`: every step of the ring is a step of `SampleQueue` or a stutter.
  `WriteCommit` is where the samples become part of the queue, `ReadCommit` where
  they leave it.

`ModemProofs`, for every number of demodulators, set of CRCs and bound:

* `ModemInvariant`, with `Remembered`: `last_crc` is either what a failed modulation
  left, or nothing yet, or a frame that was delivered or sent, last seen at
  `last_time`.  From it `ModemTypeCorrect`, `NothingEverVanishes` and
  `WindowIsOneSecond`.

`AudioIOProofs`, for every size of the buffers and any number of faults:

* `InvHolds`: neither `GivenOnce` nor the bound of three errors in `TypeOK` is
  inductive.  `Patience` ties the errors so far to where the caller is: at most one
  for each of the library calls that came before, one more while the call is
  repeated, at least one when recovery is under way; `NotYetGiven` says that
  nothing is given away before the call returns; `PlaybackStartsItself` that
  recovery of playback never gets to `snd_pcm_start`.
* `TypesHold`, `PeriodsAreGivenOnce` and `ErrorsAreRecovered` follow.  `ErrorInv` is
  the step they rest on: one error more, and where it leads.

`TransmitProofs`, for every size of ring, buffers and periods, and any number of
frames and faults:

* `TransmitInvariant`: a frame that has gone out says nothing of how it went, so
  `OnlyFaultsBreakFrames` is not inductive.  The invariant gives every frame one of
  four fates: not begun; hit by a fault; under way, the last stretch the device got
  having begun at or before its first sample and reaching what has been taken; gone
  out whole in some stretch.  A period that is written makes the last stretch longer
  or begins one, a fault ends it and hits whatever is under way, and a new frame is
  not begun.
* `TransmitTypeCorrect`, `SamplesStayInOrder` and `FramesStayWhole` follow.

`FramesAreDeliveredOnce` (in `ModemProofs`) adds to the invariant of the modem that
a demodulator can still be late with the latest transmission only, that
those to come have no copies yet, and that the latest, once delivered and as long as
no modulation interrupts, is the one the deduplication triple knows, from another
demodulator and, unless overdue, less than two ticks ago (`LatestOnly`, `NotYetHeard`,
`LateIsKnown`).  How often the clock ticks is not bounded.

`StartupProofs`, for every set of options and settings and any number of failures:

* `StartupInvariant`: `FreesWhatItMade` speaks of the end and `LoopIsReady` of one step in
  the middle; the invariant says at each step what is held (`HeldSoFar`) and watched
  or refused by the poller (`WatchedSoFar`), that each server was looked at once and is enabled, refused, or
  not asked for (`Looked`), and what value each option has by then
  (`Sources`).
* `StartupTypeCorrect`, `EverythingIsFreed`, `LoopStartsReady` and
  `OptionsAreAsGiven` follow.

`LoopProofs`, for any clients, frames and outputs that `ScenariosAssumption` admits:

* `LoopInvariant`: that a frame comes out whole depends on what its decoder kept from
  earlier pieces, and that on which client is amid a frame.  `DecodersHold` says that a
  decoder in which no two clients have met holds exactly the begun part of
  the frame of its one client that is amid a frame, and nothing if there is none;
  `Placed` and `Turns` bound where clients and the turn are.
* `LoopTypeCorrect`, `FramesOfClientsStayWhole` and `OutputsAreServed` follow.

`BitClkProofs`, for every rate, jitter, drift, length of history and thresholds that
`BitClkAssumption` admits:

* `BitClkInvariant`: the hysteresis is not visible in one state.  `Quiet` says that the
  quality of the history is at most `calm` from the threshold at which `data_detect` last
  changed; it is preserved because a transition shifts the history by one and so
  changes the number of good transitions by at most one (`QualityMoves`).  `LineOK` says that
  the end of a bit stays ahead of the samples taken, however early or late.
* `BitClkTypeCorrect`: the clock stays in its range, since a correction is a weighted
  mean of two values in it (`Mean`).  `DetectorIsCalm` is the action property `NoChatter`.
* `ClockFollowsLine`: what `EachBitOnce` needs and does not say, how far the clock is
  from the line.  `Read` is what the soft bits say: the sign of the last one is that of
  the bit the line is in, and the crossing that `bitclk_detect` interpolates is the
  end of the bit to the step.  `Heard` says that the last transition was timed to the
  place where the clock was, so that a good one leaves the clock near the line;
  `InStep` that with the detector on the clock is within the tolerance of the
  line.  The detector turns on at a good transition only, since the good ones of the history
  increase, and a correction takes a weighted mean of the error there was and
  the jitter of one transition (`StaysNear`).
* `BitsAreSampledOnce`: the clock wraps in the middle of a bit then, once in each
  (`InTheMiddle`), and the soft bit has its sign there.

`SignalProofs`:

* `SquelchNeverTurnsOver` for every first estimate but zero, every
  `Slowness` above one (alpha is `1 - exp(...)`, less than one), and all envelopes.  An
  average moves towards an envelope and does not reach
  it, and an envelope is heard by the average on its own side of the threshold.
* `OldestIsShiftedOut`: the shift register, a power of two of slots with one index, hands
  the filters the sample that is as old as the window is long, for every size.
* `PowerIsOfWindow`: with it, a filter knows the power of the samples in the window and
  nothing of those before, however long it runs, for every size of the window, every
  modulus, and every coefficient whose filter rings with a period of that window
  (`WindowAssumption`; `ResponseExists` makes of it the ringing without reduction).  Its two
  values are sums of the window weighted with that ringing; a new sample moves each
  weight on by one, and what the oldest would keep is what the code subtracts.
  That the product of two such ringings is the weight `PowerOfWindow` has is an
  induction over the samples between them (`FormIsCosine`).  The induction is over a
  set of numbers, from the well-foundedness of `<` (`SetInduction`).
* `SpectrumIsOfData`: the transform for every power of two above one, every root of
  unity that is -1 at half the size, and any samples.  The property speaks of the end;
  the invariant (`FftInv`) says after each pass of the outer loop of `fft_process`
  that every block of `2^b` places holds the transform of the samples `2^(Bits - b)`
  apart, from the one whose number is the block's with its bits reversed (`Blocks`).  It
  needs of the bit reversal that twice is the identity, so that `bit_reverse_copy`
  finds every sample once (`ReversedTwice`), and that the two blocks a pass
  joins begin at a sample and the one half a distance on (`BlockPair`); of the butterfly
  that it makes out of a sum of even terms and one of odd terms the sum of all of
  them, and its other half from the turn by -1 (`Merge`, `Butterfly`); and of the work array that
  places are joined in pairs which no other pair touches (`PairsCover`,
  `Placed`).  A read sets up the first blocks whatever the array held.
  Congruence modulo `Prime` (`Same`) stands for equality of complex numbers.

The assumptions are the named `ASSUME`s of `Ring`, `Modem`, `AudioIO`, `Transmit`,
`Startup`, `Loop`, `BitClk`, `Squelch`, `Window` and `Spectrum`, which TLC evaluates for the
instances it checks.

Model-checked only:

* liveness and `ENABLED`, which the prover does not reach: `EveryFrameGoesOut`,
  `CaptureGoesOn`, `PeriodReturns`, `FramesAreQueued`, `IdleProgramExits`,
  `ServiceComesBack`, `CarrierIsHeld`, `SquelchSettles`, and the liveness of calls in
  `SampleQueue`.

Every invariant and action property of the passing runs is proved, and the steps of the
refinement of `SampleQueue`.

## Not modelled, and the plan

Nothing of the plan is left.

Not modelled:

* gain control, Butterworth filters, the quadrature demodulator and synthesis:
  floating-point recursions without decisions.  `Modem` takes what they make of a
  signal as a choice;
* durations: that a long poll after a failed write lets the device run dry
  (`loop.c:79`), and that draining capture never ends on a machine slower than the
  device (`audio.c:302`);
* `libtnc` and `libcomm`, beyond what their use shows: submodules, absent here;
* `mavg.c` (moving average, used by tests only) and `mw_bench` (an offline reader of
  files around the modem): no state beyond what `Window` and `Modem` have;
* of `mw_cal`, decibels and printing;
* weak memory orders.
