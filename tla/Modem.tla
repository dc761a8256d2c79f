---------------------------------- MODULE Modem --------------------------------
(***************************************************************************)
(* Reception and transmission of frames by src/src/modem.c: several        *)
(* demodulators run over the same buffers of samples, the first of them to *)
(* complete a frame wins the buffer, and the triple (last_modem, last_crc, *)
(* last_time) keeps the same frame from being reported twice and a frame   *)
(* just sent from being reported at all.                                   *)
(*                                                                         *)
(* Signal processing is abstracted to its outcome.  A transmission on the  *)
(* air ends in some buffer; a demodulator completes it in that buffer, or  *)
(* in the next one when its filters lag across the boundary, or never.     *)
(* A deframer that is not fed a buffer (out_frame_buf == NULL) misses the  *)
(* bits of that buffer, and with them any frame they belong to.            *)
(***************************************************************************)
EXTENDS Integers, Sequences, FiniteSets

CONSTANTS Count,       \* number of demodulators (mrx->count)
          Crc,         \* frames, told apart by their CRC as the code does
          StartTime,   \* time(NULL) when the program starts
          MaxTime,     \* bound: the clock stops here
          MaxAir,      \* bound: transmissions heard
          MaxSent      \* bound: modulations

ASSUME CountAssumption == Count \in Nat \ {0}
ASSUME CrcAssumption == 0 \in Crc
ASSUME TimeAssumption == StartTime \in Nat /\ StartTime > 1
                         /\ MaxTime \in Nat /\ MaxTime >= StartTime
ASSUME BoundAssumption == MaxAir \in Nat /\ MaxSent \in Nat

VARIABLES
  now,          \* time(NULL)
  ticked,       \* the clock ticked since the last buffer, a decode pending
  last_modem, last_crc, last_time,
  air,          \* the transmissions that have ended on the air, in order
  late,         \* late[d]: the one demodulator d completes in the next buffer
  broken,       \* broken[d]: d's deframer missed bits of what is on the air
  sent,         \* the frames modulated, with their times
  played,       \* how many of them have left the station
  copies,       \* how often each transmission was returned to the caller
  interrupted,  \* transmissions a demodulator was late with while we modulated
  overdue,      \* those it was late with while the clock ticked twice
  seen,         \* seen[c]: when c was last decoded or modulated, or Never
  swallowed,    \* the last frame that was pretended not to be received
  garbage       \* CRCs that unsuccessful modulations left behind

dedup == <<last_modem, last_crc, last_time>>
demodulators == <<late, broken>>
outgoing == <<sent, played>>
vars == <<now, ticked, dedup, air, demodulators, outgoing, copies,
          interrupted, overdue, seen, swallowed, garbage>>

Demods == 0..(Count - 1)
None == 0
Never == -2
Ids == 1..MaxAir
Times == StartTime..MaxTime
SentFrame == [crc : Crc, at : Times]
Transmission == [crc : Crc, own : BOOLEAN, delay : 0..(MaxTime - StartTime)]

Init ==
  /\ now = StartTime /\ ticked = FALSE
  /\ last_modem = -1 /\ last_crc = 0 /\ last_time = 0
  /\ air = <<>>
  /\ late = [d \in Demods |-> None]
  /\ broken = [d \in Demods |-> FALSE]
  /\ sent = <<>> /\ played = 0
  /\ copies = [i \in Ids |-> 0]
  /\ interrupted = {} /\ overdue = {}
  /\ seen = [c \in Crc |-> Never]
  /\ swallowed = {}
  /\ garbage = {}

--------------------------------------------------------------------------------
(* One buffer of samples *)

(* The frames d's deframer completes if it is fed this buffer, in order:   *)
(* the one its filters held back, then the one that ends here.  how[d]     *)
(* tells what d makes of the transmission that ends in this buffer.        *)
Completed(d, id, how) ==
  (IF late[d] # None THEN <<late[d]>> ELSE <<>>)
  \o (IF id # None /\ how[d] = "now" /\ ~broken[d] THEN <<id>> ELSE <<>>)

(* The demodulators are run in order; the first to complete a frame ends   *)
(* the feeding of the deframers after it.                                  *)
Winners(id, how) ==
  {d \in Demods : /\ Completed(d, id, how) # <<>>
                  /\ \A e \in 0..(d - 1) : Completed(e, id, how) = <<>>}

(* md_rx_process leaves the last frame it completed in the output buffer.  *)
Returned(d, id, how) ==
  LET frames == Completed(d, id, how) IN frames[Len(frames)]

(* Faults of the test for a duplicate: the frame is not compared; the      *)
(* window is a second too wide; it is a second too narrow.                 *)
DuplicateAnyFrame(crc, modem, time) ==
  modem # last_modem /\ time - last_time <= 1
DuplicateWideWindow(crc, modem, time) ==
  crc = last_crc /\ modem # last_modem /\ time - last_time <= 2
DuplicateSameSecond(crc, modem, time) ==
  crc = last_crc /\ modem # last_modem /\ time - last_time < 1

(* "If just (within 1s) seen identical frame on another modem" *)
Duplicate(crc, modem, time) ==
  crc = last_crc /\ modem # last_modem /\ time - last_time <= 1

(* What every deframer has of the air after the buffer; next tells whether *)
(* a further transmission has already begun in it.                         *)
Feed(fed, id, how, next) ==
  /\ late' = [d \in Demods |->
                IF d \in fed /\ id # None /\ how[d] = "late" /\ ~broken[d]
                THEN id ELSE None]
  /\ broken' = [d \in Demods |->
                  next /\ (d \notin fed \/ (id = None /\ broken[d]))]

(* Deduplication of the frame that demodulator m returned.                 *)
Report(m, crc, i) ==
  /\ IF Duplicate(crc, m, now)
     THEN /\ swallowed' = {[crc |-> crc, at |-> now, since |-> seen[crc]]}
          /\ UNCHANGED copies
     ELSE /\ copies' = [copies EXCEPT ![i] = @ + 1]
          /\ UNCHANGED swallowed
  /\ last_modem' = m
  /\ last_crc' = crc
  /\ last_time' = now
  /\ seen' = [seen EXCEPT ![crc] = now]

(* md_multi_rx_process over a buffer in which transmission id of heard ends *)
(* (None when none does); next counts against the bound of transmissions.   *)
Process(heard, id, how, next) ==
  /\ next => Len(heard) < MaxAir
  /\ air' = heard
  /\ \/ /\ Winners(id, how) = {}
        /\ Feed(Demods, id, how, next)
        /\ UNCHANGED <<dedup, copies, seen, swallowed>>
     \/ \E m \in Winners(id, how) :
          /\ Feed(0..m, id, how, next)
          /\ LET i == Returned(m, id, how) IN Report(m, heard[i].crc, i)
  /\ ticked' = FALSE
  /\ UNCHANGED <<now, sent, interrupted, overdue, garbage>>

Outcomes == [Demods -> {"now", "late", "never"}]

(* No transmission ends in the buffer.                                      *)
ProcessQuiet(next) ==
  /\ Process(air, None, [d \in Demods |-> "never"], next)
  /\ UNCHANGED played

(* A transmission of another station ends in the buffer.                    *)
ProcessRemote(c, how, next) ==
  /\ Len(air) < MaxAir
  /\ Process(Append(air, [crc |-> c, own |-> FALSE, delay |-> 0]),
             Len(air) + 1, how, next)
  /\ UNCHANGED played

(* The station hears the end of its own transmission.                       *)
ProcessOwn(how, next) ==
  /\ Len(air) < MaxAir
  /\ played < Len(sent)
  /\ played' = played + 1
  /\ LET frame == sent[played'] IN
     Process(Append(air, [crc |-> frame.crc, own |-> TRUE,
                          delay |-> now - frame.at]),
             Len(air) + 1, how, next)

--------------------------------------------------------------------------------
(* modem_modulate *)

(* The transmissions some demodulator still has to complete.                *)
Pending == {late[d] : d \in Demods} \ {None}

(* Fault: the station counts itself as one demodulator more.               *)
ModulateAsDemodulator(c) ==
  /\ Len(sent) < MaxSent
  /\ last_modem' = Count
  /\ last_crc' = c
  /\ last_time' = now
  /\ sent' = Append(sent, [crc |-> c, at |-> now])
  /\ interrupted' = interrupted \cup Pending
  /\ seen' = [seen EXCEPT ![c] = now]
  /\ UNCHANGED <<now, ticked, air, demodulators, played, copies, overdue,
                 swallowed, garbage>>

(* The CRC of the frame is recorded as just seen; last_modem is left alone. *)
Modulate(c) ==
  /\ Len(sent) < MaxSent
  /\ last_crc' = c
  /\ last_time' = now
  /\ sent' = Append(sent, [crc |-> c, at |-> now])
  /\ interrupted' = interrupted \cup Pending
  /\ seen' = [seen EXCEPT ![c] = now]
  /\ UNCHANGED <<now, ticked, last_modem, air, demodulators, played, copies,
                 overdue, swallowed, garbage>>

(* hldc_framer_process fails: frame_crc was never assigned, and whatever it *)
(* holds is recorded.  Nothing is sent.                                     *)
ModulateFails(any) ==
  /\ Len(sent) + Cardinality(garbage) < MaxSent
  /\ last_crc' = any
  /\ last_time' = now
  /\ interrupted' = interrupted \cup Pending
  /\ garbage' = garbage \cup {any}
  /\ UNCHANGED <<now, ticked, last_modem, air, demodulators, outgoing, copies,
                 overdue, seen, swallowed>>

--------------------------------------------------------------------------------
(* The rest of the world *)

(* An own transmission that the receiver does not hear.                     *)
OwnUnheard ==
  /\ played < Len(sent)
  /\ played' = played + 1
  /\ UNCHANGED <<now, ticked, dedup, air, demodulators, sent, copies,
                 interrupted, overdue, seen, swallowed, garbage>>

(* A second passes.  Any number may pass between two buffers: the time is   *)
(* that of processing, and a closed squelch, a blocked write to stdout or   *)
(* the recovery of the device holds the next buffer back.                   *)
Tick ==
  /\ now < MaxTime
  /\ now' = now + 1
  /\ ticked' = (Pending # {})
  /\ overdue' = overdue \cup (IF ticked THEN Pending ELSE {})
  /\ UNCHANGED <<dedup, air, demodulators, outgoing, copies, interrupted,
                 seen, swallowed, garbage>>

Next ==
  \/ \E next \in BOOLEAN :
       \/ ProcessQuiet(next)
       \/ \E how \in Outcomes : \/ \E c \in Crc : ProcessRemote(c, how, next)
                                \/ ProcessOwn(how, next)
  \/ \E c \in Crc : Modulate(c) \/ ModulateFails(c)
  \/ OwnUnheard
  \/ Tick

Spec == Init /\ [][Next]_vars

--------------------------------------------------------------------------------
(* Properties *)

(* Every variable keeps its type.                                           *)
TypeOK ==
  /\ now \in Times /\ ticked \in BOOLEAN
  /\ last_modem \in Demods \cup {-1}
  /\ last_crc \in Crc
  /\ last_time \in Times \cup {0}
  /\ air \in Seq(Transmission) /\ Len(air) <= MaxAir
  /\ late \in [Demods -> 0..Len(air)]
  /\ broken \in [Demods -> BOOLEAN]
  /\ sent \in Seq(SentFrame) /\ Len(sent) <= MaxSent
  /\ played \in 0..Len(sent)
  /\ copies \in [Ids -> Nat]
  /\ interrupted \subseteq 1..Len(air) /\ overdue \subseteq 1..Len(air)
  /\ seen \in [Crc -> Times \cup {Never}]
  /\ swallowed \subseteq [crc : Crc, at : Times, since : Times \cup {Never}]
  /\ garbage \subseteq Crc

Delivered == {air[i].crc : i \in {j \in 1..Len(air) : copies[j] > 0}}
Sent == {sent[k].crc : k \in 1..Len(sent)}

(* Deduplication never makes a frame vanish: whatever was pretended not to  *)
(* be received has been returned to the caller at some time, or was sent by *)
(* this station, unless a failed modulation left its CRC behind.  Chains of *)
(* repetitions, each of which renews the window, do not change that.        *)
NothingVanishes ==
  \A s \in swallowed : s.crc \in Delivered \cup Sent \cup garbage

(* The window is a second wide: what was pretended not to be received had   *)
(* been decoded or modulated at most one second earlier.                    *)
SwallowedWasJustSeen ==
  \A s \in swallowed : \/ s.crc \in garbage
                       \/ s.since # Never /\ s.at - s.since <= 1

(* One transmission is returned to the caller once, however many            *)
(* demodulators decode it, unless the station modulates between two of      *)
(* those decodes or the clock ticks twice between the buffers they fall     *)
(* into.  In both cases the code does return it twice.                      *)
DeliveredOnce ==
  \A i \in 1..Len(air) : i \notin interrupted \cup overdue => copies[i] <= 1

(* The comment at src/src/modem.c:61, taken without exception: only a frame *)
(* that was seen within the last second is pretended not received.          *)
OnlySeenFramesSwallowed ==
  \A s \in swallowed : s.since # Never /\ s.at - s.since <= 1

(* The comment at src/src/modem.c:225: the station does not receive its own *)
(* transmission when it hears it back within the second it was modulated in. *)
SelfDemodulationFiltered ==
  \A i \in 1..Len(air) : air[i].own /\ air[i].delay = 0 => copies[i] = 0
================================================================================
