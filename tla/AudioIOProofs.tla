----------------------------- MODULE AudioIOProofs -----------------------------
(***************************************************************************)
(* Proofs about capture and playback, for any size of the device's buffer  *)
(* and of the caller's, and any number of faults.                          *)
(***************************************************************************)
EXTENDS AudioIO, TLAPS

Stops == {"EPIPE", "ESTRPIPE"}
Errors == Stops \cup {"EIO", "EBADFD", "prepare", "start"}
Met == {trouble[k] : k \in DOMAIN trouble}

Recovering == pc \in {"resume", "prepare", "start"}
Working == pc = "call" \/ Recovering

(* A call is made at most twice, and there are two of them in a period: no  *)
(* more errors than that have come so far, and one at least when a call is  *)
(* being repeated or is about to be.                                        *)
Patience ==
  /\ Recovering => ~again
  /\ Working => Len(trouble) <= (IF op = "io" THEN 1 ELSE 0)
                                  + (IF again \/ Recovering THEN 1 ELSE 0)
  /\ Working /\ (again \/ Recovering) => Len(trouble) >= 1

(* Nothing has been given away while the call is still on its way.          *)
NotYetGiven == Working => given = 0

(* The playback stream is never started by hand.                            *)
PlaybackStartsItself == dir = "playback" => pc # "start" /\ "EBADFD" \notin Met

Inv ==
  /\ TypeOK
  /\ Patience
  /\ NotYetGiven /\ GivenOnce
  /\ PlaybackStartsItself /\ OneErrorIsRecovered

(* What an error more does to the list of them.                             *)
LEMMA Appended ==
  ASSUME NEW S, NEW s \in Seq(S), NEW e \in S
  PROVE  /\ Append(s, e) \in Seq(S) /\ Len(Append(s, e)) = Len(s) + 1
         /\ \A x : Append(s, e) = <<x>> => x = e /\ Len(s) = 0
         /\ {Append(s, e)[k] : k \in DOMAIN Append(s, e)}
              \subseteq {s[k] : k \in DOMAIN s} \cup {e}
<1>1. Append(s, e) \in Seq(S) /\ Len(Append(s, e)) = Len(s) + 1
  OBVIOUS
<1>2. ASSUME NEW x, Append(s, e) = <<x>> PROVE x = e /\ Len(s) = 0
  <2>1. Len(s) = 0
    BY <1>1, <1>2
  <2>2. Append(s, e)[1] = e
    BY <2>1
  <2> QED
    BY <1>2, <2>1, <2>2
<1>3. ASSUME NEW k \in DOMAIN Append(s, e)
      PROVE  Append(s, e)[k] \in {s[i] : i \in DOMAIN s} \cup {e}
  <2>1. CASE k = Len(s) + 1
    BY <2>1
  <2>2. CASE k \in DOMAIN s
    BY <2>2
  <2> QED
    BY <2>1, <2>2
<1> QED
  BY <1>1, <1>2, <1>3

LEMMA InitInv == Init => Inv
<1> SUFFICES ASSUME Init PROVE Inv
  OBVIOUS
<1>1. trouble = <<>> /\ trouble \in Seq(Errors) /\ Len(trouble) = 0
  BY DEF Init
<1>2. TypeOK
  <2>1. 0 \in 0..Buffer /\ 0 \in 0..Capacity /\ 0 \in 0..MaxFaults
    BY SizeAssumption
  <2>2. trouble \in Seq({"EPIPE", "ESTRPIPE", "EIO", "EBADFD", "prepare", "start"})
    BY <1>1
  <2>3. pcm \in {"prepared", "running", "xrun", "suspended"}
    BY DEF Init
  <2>4. Len(trouble) <= 3 /\ given \in 0..1
    BY <1>1 DEF Init
  <2>5. /\ resumes \in BOOLEAN /\ hears \in BOOLEAN
        /\ asleep \in BOOLEAN /\ again \in BOOLEAN /\ startFailed \in BOOLEAN
    BY DEF Init
  <2>6. /\ fill = 0 /\ want = 0 /\ faults = 0
        /\ before = "running" /\ pc = "loop" /\ op = "avail" /\ result = "none"
        /\ dir \in {"capture", "playback"}
    BY DEF Init
  <2> QED
    BY <2>1, <2>2, <2>3, <2>4, <2>5, <2>6 DEF TypeOK
<1> QED
  BY <1>1, <1>2 DEF Init, Inv, Patience, NotYetGiven, GivenOnce, PlaybackStartsItself,
     OneErrorIsRecovered, Working, Recovering, Met

--------------------------------------------------------------------------------
(* Errors *)

(* One error more, and the period is given up or goes to recovery.          *)
LEMMA ErrorInv ==
  ASSUME Inv, Working, NEW e \in Errors, trouble' = Append(trouble, e),
         \/ pc' = "returned" /\ result' = "failed"
         \/ pc = "call" /\ ~again /\ pc' \in {"resume", "prepare"} /\ result' = result,
         pc' = "returned" => e \notin Stops \/ Len(trouble) >= 1,
         dir = "playback" => e # "EBADFD",
         UNCHANGED <<driver, device, attempt, given>>,
         faults' \in 0..MaxFaults, startFailed' \in BOOLEAN
  PROVE  Inv'
<1> USE DEF Inv
<1>1. trouble \in Seq(Errors) /\ Len(trouble) <= 2
  BY DEF TypeOK, Errors, Stops, Patience, Working
<1>2. /\ trouble' \in Seq(Errors) /\ Len(trouble') = Len(trouble) + 1
      /\ \A x : trouble' = <<x>> => x = e /\ Len(trouble) = 0
      /\ Met' \subseteq Met \cup {e}
  BY <1>1, Appended DEF Met
<1>3. TypeOK'
  BY <1>1, <1>2 DEF TypeOK, Errors, Stops, driver, device, attempt
<1>4. Patience'
  BY <1>1, <1>2 DEF Patience, Working, Recovering, attempt
<1>5. NotYetGiven' /\ GivenOnce'
  BY DEF NotYetGiven, GivenOnce, Working, Recovering
<1>6. PlaybackStartsItself'
  BY <1>2 DEF PlaybackStartsItself, driver
<1>7. OneErrorIsRecovered'
  BY <1>2, <1>6 DEF OneErrorIsRecovered, PlaybackStartsItself, Met, Stops
<1> QED
  BY <1>3, <1>4, <1>5, <1>6, <1>7

LEMMA ReportInv ==
  ASSUME Inv, pc = "call", NEW e \in Stops \cup {"EIO"}, Report(e),
         faults' \in 0..MaxFaults, startFailed' \in BOOLEAN
  PROVE  Inv'
<1>1. /\ trouble' = Append(trouble, e)
      /\ UNCHANGED <<driver, device, attempt, given>>
  BY DEF Report
<1>2. /\ \/ pc' = "returned" /\ result' = "failed"
         \/ ~again /\ pc' \in {"resume", "prepare"} /\ result' = result
      /\ pc' = "returned" => e \notin Stops \/ again
  BY DEF Report, Return, Recovery, Stops
<1>3. again => Len(trouble) >= 1
  BY DEF Inv, Patience, Working
<1> QED
  BY <1>1, <1>2, <1>3, ErrorInv DEF Working, Errors, Stops

LEMMA FailsInv ==
  ASSUME Inv, Recovering, NEW e \in Errors \ Stops, Fails(e),
         dir = "playback" => e # "EBADFD",
         faults' \in 0..MaxFaults, startFailed' \in BOOLEAN
  PROVE  Inv'
  BY ErrorInv DEF Fails, Return, Working

(* The end of recovery.                                                     *)
LEMMA RestartInv ==
  ASSUME Inv, pc \in {"resume", "prepare"}, Restart,
         UNCHANGED <<driver, before, asleep, trouble, given, result, history>>,
         pcm' \in {"prepared", "running"}, fill' \in 0..Buffer
  PROVE  Inv'
<1> USE DEF Inv
<1>1. /\ \/ pc' = "start" /\ again' = again /\ dir = "capture"
         \/ pc' = "call" /\ again' = TRUE
      /\ UNCHANGED <<op, want>>
  BY DEF Restart, Recovered, attempt
<1>2. TypeOK'
  BY <1>1 DEF TypeOK, driver, history
<1>3. Patience'
  BY <1>1 DEF Patience, Working, Recovering
<1>4. NotYetGiven' /\ GivenOnce'
  BY <1>1 DEF NotYetGiven, GivenOnce, Working, Recovering
<1>5. PlaybackStartsItself' /\ OneErrorIsRecovered'
  BY <1>1 DEF PlaybackStartsItself, OneErrorIsRecovered, Met, driver
<1> QED
  BY <1>2, <1>3, <1>4, <1>5
--------------------------------------------------------------------------------
(* The steps *)

LEMMA BeginPeriodInv ==
  ASSUME Inv, NEW first \in {"avail", "io"}, BeginPeriod(first)
  PROVE  Inv'
<1> USE DEF Inv, BeginPeriod
<1>1. trouble' = <<>> /\ trouble' \in Seq(Errors) /\ Len(trouble') = 0
  OBVIOUS
<1>2. TypeOK'
  <2>1. 0 \in 0..Capacity
    BY SizeAssumption
  <2>2. trouble' \in Seq({"EPIPE", "ESTRPIPE", "EIO", "EBADFD", "prepare", "start"})
    BY <1>1
  <2>3. Len(trouble') <= 3 /\ given' \in 0..1
    BY <1>1
  <2>4. UNCHANGED <<dir, resumes, hears, pcm, before, fill, asleep, faults, startFailed>>
    BY DEF driver, device, history
  <2>5. pc' = "call" /\ op' = first /\ again' = FALSE /\ want' = 0 /\ result' = "none"
    OBVIOUS
  <2> HIDE DEF BeginPeriod
  <2> QED
    BY <2>1, <2>2, <2>3, <2>4, <2>5 DEF TypeOK
<1>3. Patience' /\ NotYetGiven' /\ GivenOnce'
  BY <1>1 DEF Patience, NotYetGiven, GivenOnce, Working, Recovering
<1>4. PlaybackStartsItself' /\ OneErrorIsRecovered'
  BY <1>1 DEF PlaybackStartsItself, OneErrorIsRecovered, Met
<1> QED
  BY <1>2, <1>3, <1>4

LEMMA AvailInv == Inv /\ Avail => Inv'
<1> SUFFICES ASSUME Inv, Avail PROVE Inv'
  OBVIOUS
<1> USE DEF Inv, Avail
<1>1. CASE pcm = "xrun" \/ (pcm = "suspended" /\ hears)
  <2>1. Stopped \in Stops /\ Report(Stopped) /\ UNCHANGED history
    BY <1>1 DEF Stopped, Stops
  <2>2. faults' \in 0..MaxFaults /\ startFailed' \in BOOLEAN
    BY <2>1 DEF history, TypeOK
  <2> QED
    BY <2>1, <2>2, ReportInv
<1>2. CASE ~(pcm = "xrun" \/ (pcm = "suspended" /\ hears))
  <2>1. UNCHANGED <<driver, device, trouble, given, history>>
    BY <1>2
  <2>2. \/ pc' = "returned" /\ result' = "empty" /\ UNCHANGED attempt
        \/ /\ op' = "io" /\ again' = FALSE /\ want' = Smaller(fill, Capacity)
           /\ UNCHANGED <<pc, result>>
    BY <1>2 DEF Return
  <2>3. TypeOK'
    <3>1. Smaller(fill, Capacity) \in 0..Capacity
      BY SizeAssumption DEF Smaller, TypeOK
    <3> QED
      BY <2>1, <2>2, <3>1 DEF TypeOK, driver, device, attempt, history
  <2>4. Patience' /\ NotYetGiven' /\ GivenOnce'
    BY <2>1, <2>2 DEF Patience, NotYetGiven, GivenOnce, Working, Recovering, TypeOK
  <2>5. PlaybackStartsItself' /\ OneErrorIsRecovered'
    BY <2>1, <2>2 DEF PlaybackStartsItself, OneErrorIsRecovered, Met, driver
  <2> QED
    BY <2>3, <2>4, <2>5
<1> QED
  BY <1>1, <1>2

(* One fault more, as long as the bound allows it.                          *)
LEMMA OneFaultMore ==
  ASSUME Inv, faults < MaxFaults, faults' = faults + 1
  PROVE  faults' \in 0..MaxFaults
  BY SizeAssumption DEF Inv, TypeOK

LEMMA IoStoppedInv == Inv /\ IoStopped => Inv'
<1> SUFFICES ASSUME Inv, IoStopped PROVE Inv'
  OBVIOUS
<1>1. Stopped \in Stops
  BY DEF IoStopped, Stopped, Stops
<1>2. faults' \in 0..MaxFaults /\ startFailed' \in BOOLEAN
  BY DEF IoStopped, history, Inv, TypeOK
<1> QED
  BY <1>1, <1>2, ReportInv DEF IoStopped

LEMMA CallFailsInv == Inv /\ CallFails => Inv'
<1> SUFFICES ASSUME Inv, CallFails PROVE Inv'
  OBVIOUS
<1>1. faults' \in 0..MaxFaults /\ startFailed' \in BOOLEAN
  BY OneFaultMore DEF CallFails, Inv, TypeOK
<1> QED
  BY <1>1, ReportInv DEF CallFails

(* A period is read or written: whatever was tried before it, it is the     *)
(* first one this call gives away.                                          *)
LEMMA IoInv ==
  ASSUME Inv, pc = "call", given' = given + 1, Return("done"),
         fill' \in 0..Buffer, pcm' \in {"prepared", "running"},
         UNCHANGED <<driver, before, asleep, attempt, trouble, history>>
  PROVE  Inv'
<1> USE DEF Inv, Return
<1>1. given' = 1
  BY DEF NotYetGiven, Working
<1>2. TypeOK'
  BY <1>1 DEF TypeOK, driver, attempt, history
<1>3. Patience' /\ NotYetGiven' /\ GivenOnce'
  BY <1>1 DEF Patience, NotYetGiven, GivenOnce, Working, Recovering
<1>4. PlaybackStartsItself' /\ OneErrorIsRecovered'
  BY DEF PlaybackStartsItself, OneErrorIsRecovered, Met, driver
<1> QED
  BY <1>2, <1>3, <1>4

LEMMA ReadInv == Inv /\ Read => Inv'
<1> SUFFICES ASSUME Inv, Read PROVE Inv'
  OBVIOUS
<1>1. fill' \in 0..Buffer
  BY SizeAssumption DEF Read, Inv, TypeOK
<1> QED
  BY <1>1, IoInv DEF Read

LEMMA WriteInv == Inv /\ Write => Inv'
<1> SUFFICES ASSUME Inv, Write PROVE Inv'
  OBVIOUS
<1>1. fill' \in 0..Buffer
  BY SizeAssumption DEF Write, Inv, TypeOK
<1> QED
  BY <1>1, IoInv DEF Write

LEMMA BackToLoopInv == Inv /\ BackToLoop => Inv'
  BY DEF BackToLoop, Inv, TypeOK, Patience, NotYetGiven, GivenOnce, PlaybackStartsItself,
     OneErrorIsRecovered, Met, Working, Recovering, driver, device, attempt, history

LEMMA ResumeInv == Inv /\ Resume => Inv'
<1> SUFFICES ASSUME Inv, Resume PROVE Inv'
  OBVIOUS
<1> USE DEF Inv, Resume
<1>1. CASE resumes
  <2>1. pcm' \in {"prepared", "running"} /\ fill' \in 0..Buffer
    BY <1>1 DEF TypeOK
  <2> QED
    BY <1>1, <2>1, RestartInv
<1>2. CASE ~resumes
  BY <1>2 DEF TypeOK, Patience, NotYetGiven, GivenOnce, PlaybackStartsItself,
     OneErrorIsRecovered, Met, Working, Recovering, driver, attempt, history
<1> QED
  BY <1>1, <1>2

LEMMA PrepareInv == Inv /\ Prepare => Inv'
<1> SUFFICES ASSUME Inv, Prepare PROVE Inv'
  OBVIOUS
<1>1. fill' \in 0..Buffer
  BY SizeAssumption DEF Prepare
<1> QED
  BY <1>1, RestartInv DEF Prepare

LEMMA PrepareFailsInv == Inv /\ PrepareFails => Inv'
<1> SUFFICES ASSUME Inv, PrepareFails PROVE Inv'
  OBVIOUS
<1>1. faults' \in 0..MaxFaults /\ startFailed' \in BOOLEAN
  BY OneFaultMore DEF PrepareFails, Inv, TypeOK
<1>2. Recovering /\ "prepare" \in Errors \ Stops /\ Fails("prepare")
  BY DEF PrepareFails, Recovering, Errors, Stops
<1> QED
  BY <1>1, <1>2, FailsInv

(* Playback never gets here, so that EBADFD is a matter of capture.         *)
LEMMA StartInv == Inv /\ Start => Inv'
<1> SUFFICES ASSUME Inv, Start PROVE Inv'
  OBVIOUS
<1> USE DEF Inv, Start
<1>1. dir = "capture" /\ Recovering
  BY DEF PlaybackStartsItself, TypeOK, Recovering
<1>2. CASE pcm = "prepared"
  <2>1. TypeOK'
    BY <1>2 DEF TypeOK, Recovered, driver, history
  <2>2. Patience' /\ NotYetGiven' /\ GivenOnce'
    BY <1>2 DEF Patience, NotYetGiven, GivenOnce, Working, Recovering, Recovered
  <2>3. PlaybackStartsItself' /\ OneErrorIsRecovered'
    BY <1>2 DEF PlaybackStartsItself, OneErrorIsRecovered, Met, Recovered, driver
  <2> QED
    BY <2>1, <2>2, <2>3
<1>3. CASE pcm # "prepared"
  <2>1. "EBADFD" \in Errors \ Stops /\ Fails("EBADFD") /\ UNCHANGED history
    BY <1>3 DEF Errors, Stops
  <2>2. faults' \in 0..MaxFaults /\ startFailed' \in BOOLEAN
    BY <2>1 DEF history, TypeOK
  <2> QED
    BY <1>1, <2>1, <2>2, FailsInv
<1> QED
  BY <1>2, <1>3

LEMMA StartFailsInv == Inv /\ StartFails => Inv'
<1> SUFFICES ASSUME Inv, StartFails PROVE Inv'
  OBVIOUS
<1>1. faults' \in 0..MaxFaults /\ startFailed' \in BOOLEAN
  BY OneFaultMore DEF StartFails
<1>2. Recovering /\ "start" \in Errors \ Stops /\ Fails("start")
  BY DEF StartFails, Recovering, Errors, Stops
<1> QED
  BY <1>1, <1>2, FailsInv

(* The device never touches what the caller knows.                          *)
LEMMA DeviceInv ==
  ASSUME Inv, UNCHANGED <<driver, caller, startFailed>>,
         pcm' \in {"prepared", "running", "xrun", "suspended"},
         before' \in {"prepared", "running"}, fill' \in 0..Buffer,
         asleep' \in BOOLEAN, faults' \in 0..MaxFaults
  PROVE  Inv'
<1> USE DEF Inv
<1>1. UNCHANGED <<dir, resumes, hears, pc, op, again, want, trouble, given, result>>
  BY DEF driver, caller, attempt
<1>2. TypeOK'
  BY <1>1 DEF TypeOK
<1>3. Patience' /\ NotYetGiven' /\ GivenOnce' /\ PlaybackStartsItself' /\ OneErrorIsRecovered'
  BY <1>1 DEF Patience, NotYetGiven, GivenOnce, PlaybackStartsItself, OneErrorIsRecovered,
     Met, Working, Recovering
<1> QED
  BY <1>2, <1>3

LEMMA DeviceStepInv == Inv /\ (Deliver \/ Play \/ Suspend \/ Wake) => Inv'
<1> SUFFICES ASSUME Inv, Deliver \/ Play \/ Suspend \/ Wake PROVE Inv'
  OBVIOUS
<1>1. UNCHANGED <<driver, caller, startFailed>>
  BY DEF Deliver, Play, Suspend, Wake, history
<1>2. /\ pcm' \in {"prepared", "running", "xrun", "suspended"}
      /\ before' \in {"prepared", "running"} /\ asleep' \in BOOLEAN
  BY DEF Deliver, Play, Suspend, Wake, Inv, TypeOK
<1>3. fill' \in 0..Buffer
  BY SizeAssumption DEF Deliver, Play, Suspend, Wake, Inv, TypeOK
<1>4. faults' \in 0..MaxFaults
  BY OneFaultMore DEF Deliver, Play, Suspend, Wake, history, Inv, TypeOK
<1> QED
  BY <1>1, <1>2, <1>3, <1>4, DeviceInv

LEMMA NextInv == Inv /\ [Next]_vars => Inv'
<1> SUFFICES ASSUME Inv, [Next]_vars PROVE Inv'
  OBVIOUS
<1>1. CASE CaptureBegins \/ PlaybackBegins \/ NextPeriod
  BY <1>1, BeginPeriodInv DEF CaptureBegins, PlaybackBegins, NextPeriod
<1>2. CASE Avail \/ IoStopped \/ CallFails
  BY <1>2, AvailInv, IoStoppedInv, CallFailsInv
<1>3. CASE Read \/ Write \/ BackToLoop
  BY <1>3, ReadInv, WriteInv, BackToLoopInv
<1>4. CASE Resume \/ Prepare \/ Start
  BY <1>4, ResumeInv, PrepareInv, StartInv
<1>5. CASE PrepareFails \/ StartFails
  BY <1>5, PrepareFailsInv, StartFailsInv
<1>6. CASE Deliver \/ Play \/ Suspend \/ Wake
  BY <1>6, DeviceStepInv
<1>7. CASE UNCHANGED vars
  <2>1. /\ UNCHANGED <<driver, caller, startFailed>>
        /\ UNCHANGED <<pcm, before, fill, asleep, faults>>
    BY <1>7 DEF vars, device, history, caller
  <2> QED
    BY <2>1, DeviceInv DEF Inv, TypeOK
<1> QED
  BY <1>1, <1>2, <1>3, <1>4, <1>5, <1>6, <1>7 DEF Next, Caller

--------------------------------------------------------------------------------
(* The theorems *)

(* The invariant that carries the rest: how often a call was made, what was *)
(* given away and which errors came, at every point of a period.            *)
THEOREM InvHolds == Spec => []Inv
<1> QED
  BY InitInv, NextInv, PTL DEF Spec

(* Every variable keeps its type.  In particular no period sees more than   *)
(* three errors: recovery is tried once for each of the two library calls,  *)
(* and aud_process_capture_period and aud_process_playback always end.      *)
THEOREM TypesHold == Spec => []TypeOK
<1>1. Inv => TypeOK
  BY DEF Inv
<1> QED
  BY <1>1, InvHolds, PTL

(* A period is given away once when the call reports success and not at all *)
(* when it does not, whatever was repeated, with any number of faults: the  *)
(* repetition in aud_process_playback never plays a period twice.           *)
THEOREM PeriodsAreGivenOnce == Spec => []GivenOnce
<1>1. Inv => GivenOnce
  BY DEF Inv
<1> QED
  BY <1>1, InvHolds, PTL

(* An xrun or a suspension by itself never makes a period fail, but for the *)
(* capture stream that is started while it runs.                            *)
THEOREM ErrorsAreRecovered == Spec => []OneErrorIsRecovered
<1>1. Inv => OneErrorIsRecovered
  BY DEF Inv
<1> QED
  BY <1>1, InvHolds, PTL
================================================================================
