--------------------------------- MODULE AudioIO -------------------------------
(***************************************************************************)
(* One sound stream and the calls of src/src/audio.c that read or write    *)
(* it, library call by library call: the period read or written, the error *)
(* that snd_pcm reports, aud_stream_recover and the one repetition.  dir   *)
(* says which of the two streams it is.  The device (ALSA) fills or plays  *)
(* its buffer, runs over or dry, and is suspended with the machine; its    *)
(* buffer is counted in chunks.  Module Transmit takes a write of a period *)
(* as one step with three outcomes; here is what happens inside.           *)
(***************************************************************************)
EXTENDS Integers, Sequences

CONSTANTS
  Buffer,     \* chunks the device holds
  Capacity,   \* chunks that fit the caller's buffer
  MaxFaults   \* bound: suspensions and failing library calls

ASSUME SizeAssumption ==
  Buffer \in Nat \ {0} /\ Capacity \in Nat \ {0} /\ MaxFaults \in Nat

VARIABLES
  dir,       \* "capture" or "playback"
  pcm,       \* state of the stream
  before,    \* its state before it was suspended
  fill,      \* chunks in the device's buffer
  asleep,    \* the device is not back yet: snd_pcm_resume says EAGAIN
  resumes,   \* the driver can resume, instead of needing a prepare
  hears,     \* snd_pcm_avail_update reports a suspension
  pc,        \* where the caller is
  op,        \* the library call being made, or made again after recovery
  again,     \* it is the repetition
  want,      \* chunks to read
  trouble,   \* the errors of this period so far, in order
  given,     \* periods given to the callback or the device by this call
  result,    \* what became of the last period
  faults,    \* how many faults there were
  startFailed  \* a fault made snd_pcm_start fail at some time

driver == <<dir, resumes, hears>>
device == <<pcm, before, fill, asleep>>
attempt == <<op, again, want>>
history == <<faults, startFailed>>
vars == <<driver, device, pc, attempt, trouble, given, result, history>>

Smaller(a, b) == IF a < b THEN a ELSE b

(* After aud_start: capture runs, playback is prepared and starts with the  *)
(* first write.                                                             *)
Init ==
  /\ dir \in {"capture", "playback"}
  /\ pcm = IF dir = "capture" THEN "running" ELSE "prepared"
  /\ before = "running" /\ fill = 0 /\ asleep = FALSE
  /\ resumes \in BOOLEAN /\ hears \in BOOLEAN
  /\ pc = "loop" /\ op = "avail" /\ again = FALSE /\ want = 0
  /\ trouble = <<>> /\ given = 0 /\ result = "none"
  /\ faults = 0 /\ startFailed = FALSE

--------------------------------------------------------------------------------
(* The calls *)

(* The poller watches the capture stream: there are samples, or an error.   *)
Ready == \/ pcm \in {"xrun", "suspended"}
         \/ pcm = "running" /\ fill > 0

BeginPeriod(first) ==
  /\ pc' = "call" /\ op' = first /\ again' = FALSE /\ want' = 0
  /\ trouble' = <<>> /\ given' = 0 /\ result' = "none"
  /\ UNCHANGED <<driver, device, history>>

CaptureBegins == /\ dir = "capture" /\ pc = "loop" /\ Ready
                 /\ BeginPeriod("avail")
PlaybackBegins == /\ dir = "playback" /\ pc = "loop"
                  /\ BeginPeriod("io")

Return(r) == pc' = "returned" /\ result' = r

(* aud_stream_recover: where an error leads.                                *)
Recovery(e) == IF e = "EPIPE" THEN "prepare"
               ELSE IF e = "ESTRPIPE" THEN "resume" ELSE "fail"

(* Fault: the repetition is recovered and repeated like the first call.     *)
ReportAgain(e) ==
  /\ trouble' = Append(trouble, e)
  /\ IF Recovery(e) = "fail"
     THEN Return("failed")
     ELSE pc' = Recovery(e) /\ UNCHANGED result
  /\ UNCHANGED <<driver, device, attempt, given>>

(* A library call reports an error: recovery the first time, the end of it  *)
(* the second time.                                                         *)
Report(e) ==
  /\ trouble' = Append(trouble, e)
  /\ IF again \/ Recovery(e) = "fail"
     THEN Return("failed")
     ELSE pc' = Recovery(e) /\ UNCHANGED result
  /\ UNCHANGED <<driver, device, attempt, given>>

Stopped == IF pcm = "xrun" THEN "EPIPE"
           ELSE IF pcm = "suspended" THEN "ESTRPIPE" ELSE "ok"

(* snd_pcm_avail_update in aud_process_capture_period.                      *)
Avail ==
  /\ pc = "call" /\ op = "avail"
  /\ IF pcm = "xrun" \/ (pcm = "suspended" /\ hears)
     THEN Report(Stopped) /\ UNCHANGED history
     ELSE /\ IF fill = 0
             THEN Return("empty") /\ UNCHANGED attempt
             ELSE /\ op' = "io" /\ again' = FALSE
                  /\ want' = Smaller(fill, Capacity)
                  /\ UNCHANGED <<pc, result>>
          /\ UNCHANGED <<driver, device, trouble, given, history>>

(* snd_pcm_readi and snd_pcm_writei on a stream that has stopped.           *)
IoStopped ==
  /\ pc = "call" /\ op = "io" /\ Stopped # "ok"
  /\ Report(Stopped)
  /\ UNCHANGED history

(* A call fails in a way recovery does not know.                            *)
CallFails ==
  /\ pc = "call" /\ faults < MaxFaults
  /\ Report("EIO")
  /\ faults' = faults + 1 /\ UNCHANGED startFailed

(* The read blocks until there is as much as it asks for; the callback gets *)
(* it.                                                                      *)
Read ==
  /\ pc = "call" /\ op = "io" /\ dir = "capture"
  /\ pcm = "running" /\ fill >= want
  /\ fill' = fill - want
  /\ given' = given + 1
  /\ Return("done")
  /\ UNCHANGED <<driver, pcm, before, asleep, attempt, trouble, history>>

(* Fault: the write after recovery stands outside the error branch.         *)
WriteTwice ==
  /\ pc = "call" /\ op = "io" /\ dir = "playback"
  /\ pcm \in {"prepared", "running"} /\ fill < Buffer
  /\ fill' = fill + 1 /\ pcm' = "running"
  /\ given' = given + 1
  /\ IF given = 0 THEN UNCHANGED <<pc, result>> ELSE Return("done")
  /\ UNCHANGED <<driver, before, asleep, attempt, trouble, history>>

(* The write blocks until the period fits, and starts a prepared stream.    *)
(* That fewer samples are taken looks the same to the caller.               *)
Write ==
  /\ pc = "call" /\ op = "io" /\ dir = "playback"
  /\ pcm \in {"prepared", "running"} /\ fill < Buffer
  /\ fill' = fill + 1 /\ pcm' = "running"
  /\ given' = given + 1
  /\ Return("done")
  /\ UNCHANGED <<driver, before, asleep, attempt, trouble, history>>

(* aud_process_capture goes on until a period is not there; playback writes *)
(* one period per turn.                                                     *)
NextPeriod == /\ pc = "returned" /\ dir = "capture" /\ result = "done"
              /\ BeginPeriod("avail")
BackToLoop == /\ pc = "returned" /\ (dir = "playback" \/ result # "done")
              /\ pc' = "loop"
              /\ UNCHANGED <<driver, device, attempt, trouble, given, result, history>>
--------------------------------------------------------------------------------
(* aud_stream_recover *)

(* Back in the function that noticed the error, which makes its call again. *)
Recovered == pc' = "call" /\ again' = TRUE /\ UNCHANGED <<op, want>>

(* Fault: the stream is left prepared after an xrun.                        *)
RestartNever == Recovered

(* Fault: playback is started as well.                                      *)
RestartBoth == pc' = "start" /\ UNCHANGED attempt

(* Capture has to be started, playback starts with the next write.          *)
Restart == IF dir = "capture" THEN pc' = "start" /\ UNCHANGED attempt
                              ELSE Recovered

(* Fault: the loop around resume goes on for every error.                   *)
ResumeInsists ==
  /\ pc = "resume" /\ ~asleep
  /\ IF resumes THEN pcm' = before /\ Restart
                ELSE UNCHANGED <<pc, pcm, attempt>>
  /\ UNCHANGED <<driver, before, fill, asleep, trouble, given, result, history>>

(* While the device is asleep the call sleeps and asks again.  A driver     *)
(* that cannot resume has to prepare the stream.                            *)
Resume ==
  /\ pc = "resume" /\ ~asleep
  /\ IF resumes THEN pcm' = before /\ Restart
                ELSE pc' = "prepare" /\ UNCHANGED <<pcm, attempt>>
  /\ UNCHANGED <<driver, before, fill, asleep, trouble, given, result, history>>

Prepare ==
  /\ pc = "prepare"
  /\ pcm' = "prepared" /\ fill' = 0
  /\ Restart
  /\ UNCHANGED <<driver, before, asleep, trouble, given, result, history>>

Fails(e) == /\ trouble' = Append(trouble, e)
            /\ Return("failed")
            /\ UNCHANGED <<driver, device, attempt, given>>

PrepareFails ==
  /\ pc = "prepare" /\ faults < MaxFaults
  /\ Fails("prepare")
  /\ faults' = faults + 1 /\ UNCHANGED startFailed

(* aud_capture_restart.  Only a prepared stream can be started: one that    *)
(* was resumed is running already.                                          *)
Start ==
  /\ pc = "start"
  /\ IF pcm = "prepared"
     THEN /\ pcm' = "running" /\ Recovered
          /\ UNCHANGED <<driver, before, fill, asleep, trouble, given, result>>
     ELSE Fails("EBADFD")
  /\ UNCHANGED history

StartFails ==
  /\ pc = "start" /\ faults < MaxFaults
  /\ Fails("start")
  /\ faults' = faults + 1 /\ startFailed' = TRUE

--------------------------------------------------------------------------------
(* The device *)

caller == <<pc, attempt, trouble, given, result>>

Deliver ==
  /\ dir = "capture" /\ pcm = "running"
  /\ IF fill < Buffer THEN fill' = fill + 1 /\ UNCHANGED pcm
                      ELSE pcm' = "xrun" /\ UNCHANGED fill
  /\ UNCHANGED <<driver, before, asleep, caller, history>>

Play ==
  /\ dir = "playback" /\ pcm = "running"
  /\ IF fill > 0 THEN fill' = fill - 1 /\ UNCHANGED pcm
                 ELSE pcm' = "xrun" /\ UNCHANGED fill
  /\ UNCHANGED <<driver, before, asleep, caller, history>>

Suspend ==
  /\ pcm \in {"prepared", "running"} /\ faults < MaxFaults
  /\ before' = pcm /\ pcm' = "suspended" /\ asleep' = TRUE
  /\ faults' = faults + 1
  /\ UNCHANGED <<driver, fill, caller, startFailed>>

Wake == asleep /\ asleep' = FALSE
        /\ UNCHANGED <<driver, pcm, before, fill, caller, history>>

Caller == \/ CaptureBegins \/ Avail \/ Read \/ Write \/ IoStopped
          \/ NextPeriod \/ BackToLoop
          \/ Resume \/ Prepare \/ Start

Next == \/ Caller \/ PlaybackBegins
        \/ CallFails \/ PrepareFails \/ StartFails
        \/ Deliver \/ Play \/ Suspend \/ Wake

(* The loop polls and calls go on; a running device takes or gives samples; *)
(* the machine is resumed some time.                                        *)
Fairness == WF_vars(Caller) /\ WF_vars(Deliver) /\ WF_vars(Play) /\ WF_vars(Wake)

Spec == Init /\ [][Next]_vars /\ Fairness

--------------------------------------------------------------------------------
(* Properties *)

(* Every variable keeps its type; no period sees more than three errors,    *)
(* and the device's buffer never holds more than fits.                      *)
TypeOK ==
  /\ dir \in {"capture", "playback"}
  /\ pcm \in {"prepared", "running", "xrun", "suspended"}
  /\ before \in {"prepared", "running"} /\ fill \in 0..Buffer
  /\ asleep \in BOOLEAN /\ resumes \in BOOLEAN /\ hears \in BOOLEAN
  /\ again \in BOOLEAN /\ startFailed \in BOOLEAN
  /\ pc \in {"loop", "call", "resume", "prepare", "start", "returned"}
  /\ op \in {"avail", "io"} /\ want \in 0..Capacity
  /\ trouble \in Seq({"EPIPE", "ESTRPIPE", "EIO", "EBADFD", "prepare", "start"})
  /\ Len(trouble) <= 3
  /\ given \in 0..1 /\ result \in {"none", "done", "empty", "failed"}
  /\ faults \in 0..MaxFaults

(* aud_stream_recover exists so that an xrun or a suspension costs nothing  *)
(* but the samples lost in it: by itself it never makes a period fail.  The *)
(* one exception is a capture stream that was resumed: it runs, and the     *)
(* attempt to start it is taken for a failure (audio.c:94), so that what is *)
(* there is left for the next turn.                                         *)
OneErrorIsRecovered ==
  pc = "returned" /\ result = "failed" =>
    /\ trouble \notin {<<"EPIPE">>, <<"ESTRPIPE">>}
    /\ dir = "playback" => "EBADFD" \notin {trouble[k] : k \in DOMAIN trouble}

(* A period is given away exactly once when the call reports success, and   *)
(* not at all when it does not, whatever was tried again: a period taken    *)
(* from the output ring is never played twice.                              *)
GivenOnce ==
  pc = "returned" => given = (IF result = "done" THEN 1 ELSE 0)

(* What stops capture for good: snd_pcm_start failed in recovery and the    *)
(* prepared stream never becomes ready; or the stream was suspended empty   *)
(* and snd_pcm_avail_update says 0.                                         *)
Wedged == \/ pcm = "prepared" /\ startFailed
          \/ pcm = "suspended" /\ ~hears /\ fill = 0

(* Reception goes on after every overrun and suspension, unless one of      *)
(* these two things happened.                                               *)
CaptureGoesOn == dir = "capture" => []<>(pcm = "running") \/ <>[]Wedged

(* A call made for one period returns: the wait for a suspended device ends *)
(* when the device is back, also with a driver that cannot resume.          *)
PeriodReturns == (pc = "call") ~> (pc = "returned")
================================================================================
