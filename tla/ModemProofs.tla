------------------------------ MODULE ModemProofs ------------------------------
(***************************************************************************)
(* Proofs about the deduplication of frames, for any number of             *)
(* demodulators, any set of CRCs and any bounds.                           *)
(***************************************************************************)
EXTENDS Modem, TLAPS

(* What last_crc and last_time remember: nothing yet, or what a failed     *)
(* modulation left, or a frame that was delivered or sent, and the moment  *)
(* it was last seen.                                                       *)
Remembered ==
  \/ last_crc \in garbage
  \/ last_time = 0
  \/ /\ last_crc \in Delivered \cup Sent
     /\ seen[last_crc] = last_time

(* No frame was modulated in the future.                                   *)
SentBefore == \A k \in 1..Len(sent) : sent[k].at <= now

Inv ==
  /\ TypeOK
  /\ SentBefore
  /\ Remembered
  /\ NothingVanishes
  /\ SwallowedWasJustSeen

(* The shortest sequences.                                                 *)
LEMMA ShortSequences ==
  ASSUME NEW S, NEW x \in S
  PROVE  <<>> \in Seq(S) /\ <<x>> \in Seq(S)
  OBVIOUS

LEMMA ElementType ==
  ASSUME NEW S, NEW s \in Seq(S), NEW k \in 1..Len(s)
  PROVE  s[k] \in S
  OBVIOUS

LEMMA InitInv == Init => Inv
<1> SUFFICES ASSUME Init PROVE Inv
  OBVIOUS
<1>1. air = <<>> /\ air \in Seq(Transmission) /\ Len(air) = 0
  BY DEF Init
<1>2. sent = <<>> /\ sent \in Seq(SentFrame) /\ Len(sent) = 0
  BY DEF Init
<1>3. now \in Times
  BY TimeAssumption DEF Init, Times
<1>4. seen \in [Crc -> Times \cup {Never}] /\ copies \in [Ids -> Nat]
  BY DEF Init
<1>5. late \in [Demods -> 0..Len(air)] /\ broken \in [Demods -> BOOLEAN]
  BY <1>1 DEF Init, None
<1>6. /\ last_modem \in Demods \cup {-1} /\ last_crc \in Crc
      /\ last_time \in Times \cup {0} /\ played \in 0..Len(sent)
  BY <1>2, CrcAssumption DEF Init
<1>7. Len(air) <= MaxAir /\ Len(sent) <= MaxSent
  BY <1>1, <1>2, BoundAssumption
<1>8. /\ interrupted = {} /\ overdue = {} /\ swallowed = {} /\ garbage = {}
      /\ ticked \in BOOLEAN
  BY DEF Init
<1>9. TypeOK
  BY <1>8, <1>1, <1>2, <1>3, <1>4, <1>5, <1>6, <1>7 DEF TypeOK
<1> QED
  BY <1>2, <1>9
     DEF Init, Inv, SentBefore, Remembered, NothingVanishes, SwallowedWasJustSeen

--------------------------------------------------------------------------------
(* One buffer *)

(* A deframer completes only transmissions that have ended on the air.     *)
LEMMA CompletedType ==
  ASSUME TypeOK, NEW d \in Demods, NEW how, NEW n \in Nat,
         NEW id \in 0..n, Len(air) <= n
  PROVE  /\ Completed(d, id, how) \in Seq(1..n)
         /\ Completed(d, id, how) # <<>> => Returned(d, id, how) \in 1..n
<1> DEFINE first == IF late[d] # None THEN <<late[d]>> ELSE <<>>
           second == IF id # None /\ how[d] = "now" /\ ~broken[d]
                     THEN <<id>> ELSE <<>>
<1>1. late[d] \in 0..n /\ (late[d] # None => late[d] \in 1..n)
  BY DEF TypeOK, None
<1>2. first \in Seq(1..n)
  <2>1. CASE late[d] # None
    BY <1>1, <2>1, ShortSequences
  <2>2. CASE late[d] = None
    BY <2>2
  <2> QED
    BY <2>1, <2>2
<1>3. second \in Seq(1..n)
  <2>1. CASE id # None /\ how[d] = "now" /\ ~broken[d]
    <3>1. id \in 1..n
      BY <2>1 DEF None
    <3> QED
      BY <2>1, <3>1, ShortSequences
  <2>2. CASE ~(id # None /\ how[d] = "now" /\ ~broken[d])
    <3>1. second = <<>>
      BY <2>2, Zenon
    <3>2. <<>> \in Seq(1..n)
      OBVIOUS
    <3> QED
      BY <3>1, <3>2, Zenon
  <2> QED
    BY <2>1, <2>2
<1> HIDE DEF first, second
<1>4. first \o second \in Seq(1..n)
  BY <1>2, <1>3
<1>5. Completed(d, id, how) = first \o second
  BY DEF Completed, first, second
<1>6. ASSUME NEW s \in Seq(1..n), s # <<>>
      PROVE  s[Len(s)] \in 1..n
  BY <1>6
<1> QED
  BY <1>4, <1>5, <1>6 DEF Returned

(* The frames heard are the old ones, and perhaps one more.                *)
Extends(heard) ==
  /\ heard \in Seq(Transmission)
  /\ Len(air) <= Len(heard) /\ Len(heard) <= MaxAir
  /\ \A i \in 1..Len(air) : heard[i] = air[i]

LEMMA AppendExtends ==
  ASSUME TypeOK, Len(air) < MaxAir, NEW t \in Transmission
  PROVE  Extends(Append(air, t)) /\ Len(Append(air, t)) = Len(air) + 1
  BY BoundAssumption DEF TypeOK, Extends

(* What the deframers have of the air afterwards has its type.             *)
LEMMA FeedType ==
  ASSUME NEW fed, NEW how, NEW next \in BOOLEAN, NEW heard,
         Len(heard) \in Nat, NEW id \in 0..Len(heard),
         Feed(fed, id, how, next)
  PROVE  /\ late' \in [Demods -> 0..Len(heard)]
         /\ broken' \in [Demods -> BOOLEAN]
<1>1. None \in 0..Len(heard)
  BY DEF None
<1>2. late' \in [Demods -> 0..Len(heard)]
  BY <1>1 DEF Feed
<1>3. broken' \in [Demods -> BOOLEAN]
  BY Zenon DEF Feed
<1> QED
  BY <1>2, <1>3

(* A delivered frame stays delivered, a sent one stays sent.               *)
LEMMA DeliveredGrows ==
  ASSUME TypeOK, Extends(air'), copies' \in [Ids -> Nat],
         \A i \in Ids : copies'[i] >= copies[i]
  PROVE  Delivered \subseteq Delivered'
<1> SUFFICES ASSUME NEW i \in 1..Len(air), copies[i] > 0
             PROVE  air[i].crc \in Delivered'
  BY DEF Delivered
<1>1. i \in 1..Len(air') /\ air'[i] = air[i] /\ i \in Ids
  BY BoundAssumption DEF Extends, TypeOK, Ids
<1>2. copies'[i] > 0
  BY <1>1 DEF TypeOK
<1> QED
  BY <1>1, <1>2 DEF Delivered

(* What Report needs, and what it keeps.                                   *)
LEMMA ReportInv ==
  ASSUME Inv, Extends(air'), NEW m \in Demods, NEW i \in 1..Len(air'),
         Report(m, air'[i].crc, i), UNCHANGED <<now, sent, garbage>>
  PROVE  /\ last_modem' \in Demods \cup {-1} /\ last_crc' \in Crc
         /\ last_time' \in Times \cup {0}
         /\ copies' \in [Ids -> Nat]
         /\ seen' \in [Crc -> Times \cup {Never}]
         /\ swallowed' \subseteq [crc : Crc, at : Times,
                                  since : Times \cup {Never}]
         /\ Remembered' /\ NothingVanishes' /\ SwallowedWasJustSeen'
<1> DEFINE crc == air'[i].crc
<1>1. /\ crc \in Crc /\ now \in Times /\ i \in Ids
      /\ Sent' = Sent /\ garbage' = garbage
      /\ copies \in [Ids -> Nat] /\ seen \in [Crc -> Times \cup {Never}]
  <2>1. i \in Ids
    BY BoundAssumption DEF Extends, Ids
  <2>2. air'[i] \in Transmission
    BY DEF Extends
  <2>3. crc \in Crc
    BY <2>2 DEF Transmission
  <2> QED
    BY <2>1, <2>3 DEF Inv, TypeOK, Sent
<1>2. /\ last_modem' = m /\ last_crc' = crc /\ last_time' = now
      /\ seen' = [seen EXCEPT ![crc] = now]
  BY DEF Report
<1>3. /\ seen'[crc] = now
      /\ seen' \in [Crc -> Times \cup {Never}]
  BY <1>1, <1>2
<1>4. /\ copies' \in [Ids -> Nat]
      /\ \A j \in Ids : copies'[j] >= copies[j]
  BY <1>1 DEF Report
<1>5. Delivered \subseteq Delivered'
  BY <1>4, DeliveredGrows DEF Inv
<1>6. CASE Duplicate(crc, m, now)
  <2>1. swallowed' = {[crc |-> crc, at |-> now, since |-> seen[crc]]}
    BY <1>6 DEF Report
  <2>2. swallowed' \subseteq [crc : Crc, at : Times, since : Times \cup {Never}]
    BY <1>1, <2>1
  <2>3. crc = last_crc /\ now - last_time <= 1 /\ last_time # 0
    BY <1>1, <1>6, TimeAssumption DEF Duplicate, Times
  <2>4. \/ crc \in garbage
        \/ crc \in Delivered \cup Sent /\ seen[crc] = last_time
    BY <2>3 DEF Inv, Remembered
  <2>5. crc \in garbage' \/ crc \in Delivered' \cup Sent'
    BY <2>4, <1>1, <1>5
  <2>6. seen[crc] = last_time => seen[crc] # Never /\ now - seen[crc] <= 1
    BY <2>3, TimeAssumption DEF Inv, TypeOK, Times, Never
  <2>7. NothingVanishes'
    BY <2>1, <2>5 DEF NothingVanishes
  <2>8. SwallowedWasJustSeen'
    BY <1>1, <2>1, <2>4, <2>6 DEF SwallowedWasJustSeen
  <2>9. Remembered'
    BY <1>2, <1>3, <2>5 DEF Remembered
  <2> QED
    BY <1>1, <1>2, <1>3, <1>4, <2>2, <2>7, <2>8, <2>9
<1>7. CASE ~Duplicate(crc, m, now)
  <2>1. swallowed' = swallowed /\ copies' = [copies EXCEPT ![i] = @ + 1]
    BY <1>7 DEF Report
  <2>2. copies'[i] > 0
    BY <1>1, <2>1
  <2>3. crc \in Delivered'
    BY <2>2 DEF Delivered
  <2>4. NothingVanishes'
    BY <1>1, <1>5, <2>1 DEF Inv, NothingVanishes
  <2>5. SwallowedWasJustSeen'
    BY <1>1, <2>1 DEF Inv, SwallowedWasJustSeen
  <2>6. Remembered'
    BY <1>2, <1>3, <2>3 DEF Remembered
  <2>7. swallowed' \subseteq [crc : Crc, at : Times, since : Times \cup {Never}]
    BY <2>1 DEF Inv, TypeOK
  <2> QED
    BY <1>1, <1>2, <1>3, <1>4, <2>4, <2>5, <2>6, <2>7
<1> QED
  BY <1>6, <1>7

(* A buffer preserves the invariant, whichever demodulator wins it.        *)
LEMMA ProcessInv ==
  ASSUME Inv, NEW heard, Extends(heard), NEW id \in 0..Len(heard), NEW how,
         NEW next \in BOOLEAN, Process(heard, id, how, next),
         played' \in 0..Len(sent)
  PROVE  Inv'
<1>1. /\ Len(heard) \in Nat /\ Len(air) <= Len(heard) /\ TypeOK
      /\ air' = heard /\ air' \in Seq(Transmission) /\ Len(air') <= MaxAir
  BY DEF Extends, Process, Inv
<1>2. /\ UNCHANGED <<now, sent, interrupted, overdue, garbage>> /\ ticked' = FALSE
      /\ Sent' = Sent
  BY DEF Process, Sent
<1>3. SentBefore'
  BY <1>2 DEF Inv, SentBefore
<1>4. interrupted' \subseteq 1..Len(air') /\ overdue' \subseteq 1..Len(air')
  BY <1>1, <1>2 DEF TypeOK
<1>5. CASE /\ Feed(Demods, id, how, next)
           /\ UNCHANGED <<dedup, copies, seen, swallowed>>
  <2>1. late' \in [Demods -> 0..Len(air')] /\ broken' \in [Demods -> BOOLEAN]
    <3>1. late' \in [Demods -> 0..Len(heard)] /\ broken' \in [Demods -> BOOLEAN]
      BY <1>1, <1>5, FeedType, Zenon
    <3> QED
      BY <1>1, <3>1
  <2>2. TypeOK'
    BY <1>1, <1>2, <1>4, <1>5, <2>1 DEF TypeOK, dedup
  <2>3. Delivered \subseteq Delivered'
    BY <1>1, <1>5, DeliveredGrows DEF TypeOK
  <2>4. Remembered' /\ NothingVanishes' /\ SwallowedWasJustSeen'
    BY <1>2, <1>5, <2>3
       DEF Inv, Remembered, NothingVanishes, SwallowedWasJustSeen, dedup
  <2> QED
    BY <1>3, <2>2, <2>4 DEF Inv
<1>6. ASSUME NEW m \in Winners(id, how), Feed(0..m, id, how, next),
             Report(m, heard[Returned(m, id, how)].crc, Returned(m, id, how))
      PROVE  Inv'
  <2> DEFINE i == Returned(m, id, how)
  <2>1. m \in Demods /\ Completed(m, id, how) # <<>>
    BY DEF Winners
  <2>2. i \in 1..Len(heard)
    BY <1>1, <2>1, CompletedType
  <2> HIDE DEF i
  <2>3. Report(m, air'[i].crc, i)
    BY <1>1, <1>6 DEF i
  <2>4. /\ last_modem' \in Demods \cup {-1} /\ last_crc' \in Crc
        /\ last_time' \in Times \cup {0}
        /\ copies' \in [Ids -> Nat]
        /\ seen' \in [Crc -> Times \cup {Never}]
        /\ swallowed' \subseteq [crc : Crc, at : Times,
                                 since : Times \cup {Never}]
        /\ Remembered' /\ NothingVanishes' /\ SwallowedWasJustSeen'
    BY <1>1, <1>2, <2>1, <2>2, <2>3, ReportInv
  <2>5. late' \in [Demods -> 0..Len(air')] /\ broken' \in [Demods -> BOOLEAN]
    <3>1. late' \in [Demods -> 0..Len(heard)] /\ broken' \in [Demods -> BOOLEAN]
      BY <1>1, <1>6, FeedType, Zenon
    <3> QED
      BY <1>1, <3>1
  <2>6. TypeOK'
    BY <1>1, <1>2, <1>4, <2>4, <2>5 DEF TypeOK
  <2> QED
    BY <1>3, <2>4, <2>6 DEF Inv
<1> QED
  BY <1>5, <1>6 DEF Process

LEMMA ProcessQuietInv ==
  ASSUME Inv, NEW next \in BOOLEAN, ProcessQuiet(next)
  PROVE  Inv'
<1>1. Extends(air) /\ None \in 0..Len(air) /\ played' \in 0..Len(sent)
  BY DEF Inv, TypeOK, Extends, None, ProcessQuiet
<1> QED
  BY <1>1, ProcessInv DEF ProcessQuiet

LEMMA ProcessRemoteInv ==
  ASSUME Inv, NEW c \in Crc, NEW how, NEW next \in BOOLEAN,
         ProcessRemote(c, how, next)
  PROVE  Inv'
<1> DEFINE t == [crc |-> c, own |-> FALSE, delay |-> 0]
           heard == Append(air, t)
<1>1. t \in Transmission
  BY TimeAssumption DEF Transmission
<1> HIDE DEF t
<1>2. Extends(heard) /\ Len(heard) = Len(air) + 1
  BY <1>1, AppendExtends DEF Inv, ProcessRemote
<1>3. Len(air) + 1 \in 0..Len(heard) /\ played' \in 0..Len(sent)
  BY <1>2 DEF Inv, TypeOK, ProcessRemote
<1>4. Process(heard, Len(air) + 1, how, next)
  BY DEF ProcessRemote, t
<1> HIDE DEF heard
<1> QED
  BY <1>2, <1>3, <1>4, ProcessInv

LEMMA ProcessOwnInv ==
  ASSUME Inv, NEW how, NEW next \in BOOLEAN, ProcessOwn(how, next)
  PROVE  Inv'
<1> DEFINE frame == sent[played']
           t == [crc |-> frame.crc, own |-> TRUE, delay |-> now - frame.at]
           heard == Append(air, t)
<1>1. played' \in 1..Len(sent) /\ played' \in 0..Len(sent)
  BY DEF Inv, TypeOK, ProcessOwn
<1>2. frame \in SentFrame /\ frame.at <= now
  <2>1. sent \in Seq(SentFrame)
    BY DEF Inv, TypeOK
  <2>2. sent[played'] \in SentFrame
    BY <1>1, <2>1, ElementType
  <2> QED
    BY <1>1, <2>2 DEF Inv, SentBefore
<1> HIDE DEF frame
<1>3. now - frame.at \in 0..(MaxTime - StartTime)
  BY <1>2, TimeAssumption DEF Inv, TypeOK, Times, SentFrame
<1>4. t \in Transmission
  BY <1>2, <1>3 DEF Transmission, SentFrame
<1>5. Process(heard, Len(air) + 1, how, next)
  BY DEF ProcessOwn, frame
<1> HIDE DEF t
<1>6. Extends(heard) /\ Len(heard) = Len(air) + 1
  BY <1>4, AppendExtends DEF Inv, ProcessOwn
<1>7. Len(air) + 1 \in 0..Len(heard)
  BY <1>6 DEF Inv, TypeOK
<1> HIDE DEF heard
<1> QED
  BY <1>1, <1>5, <1>6, <1>7, ProcessInv

--------------------------------------------------------------------------------
(* Modulation, the clock, and frames the receiver does not hear *)

(* What a demodulator is late with has ended on the air.                   *)
LEMMA PendingType == TypeOK => Pending \subseteq 1..Len(air)
  BY DEF TypeOK, Pending, None

LEMMA ModulateInv ==
  ASSUME Inv, NEW c \in Crc, Modulate(c)
  PROVE  Inv'
<1> DEFINE frame == [crc |-> c, at |-> now]
<1>1. frame \in SentFrame /\ frame.at = now /\ frame.crc = c
  BY DEF Inv, TypeOK, SentFrame
<1>2. sent' = Append(sent, frame)
  BY DEF Modulate
<1> HIDE DEF frame
<1>3. /\ sent' \in Seq(SentFrame)
      /\ Len(sent') = Len(sent) + 1
      /\ \A k \in 1..Len(sent) : sent'[k] = sent[k]
      /\ sent'[Len(sent) + 1] = frame
  BY <1>1, <1>2 DEF Inv, TypeOK
<1>4. Sent \subseteq Sent' /\ c \in Sent'
  <2>1. \A k \in 1..Len(sent) : k \in 1..Len(sent') /\ sent'[k] = sent[k]
    BY <1>3
  <2>2. Len(sent) + 1 \in 1..Len(sent')
    BY <1>3
  <2> QED
    BY <1>1, <1>3, <2>1, <2>2 DEF Sent
<1>5. SentBefore'
  <2>1. ASSUME NEW k \in 1..Len(sent') PROVE sent'[k].at <= now
    <3>1. k \in 1..Len(sent) \/ k = Len(sent) + 1
      BY <1>3
    <3>2. now \in Int
      BY TimeAssumption DEF Inv, TypeOK, Times
    <3>3. CASE k \in 1..Len(sent)
      BY <1>3, <3>3 DEF Inv, SentBefore
    <3>4. CASE k = Len(sent) + 1
      <4>1. sent'[k].at = now
        BY <1>1, <1>3, <3>4
      <4> QED
        BY <3>2, <4>1
    <3> QED
      BY <3>1, <3>3, <3>4
  <2> QED
    BY <2>1 DEF Modulate, SentBefore
<1>6. interrupted' \subseteq 1..Len(air') /\ overdue' \subseteq 1..Len(air')
  BY PendingType DEF Modulate, Inv, TypeOK
<1>7. played' \in 0..Len(sent') /\ Len(sent') <= MaxSent
  BY <1>3, BoundAssumption DEF Modulate, Inv, TypeOK
<1>8. /\ last_crc' = c /\ last_time' = now /\ now \in Times
      /\ seen' \in [Crc -> Times \cup {Never}] /\ seen'[c] = now
      /\ UNCHANGED <<now, ticked, last_modem, air, late, broken, copies,
                     swallowed, garbage>>
      /\ Delivered' = Delivered
  BY DEF Modulate, Inv, TypeOK, demodulators, Delivered
<1>9. TypeOK'
  BY <1>3, <1>6, <1>7, <1>8 DEF Inv, TypeOK
<1>10. Remembered'
  BY <1>4, <1>8 DEF Remembered
<1>11. NothingVanishes' /\ SwallowedWasJustSeen'
  BY <1>4, <1>8 DEF Inv, NothingVanishes, SwallowedWasJustSeen
<1> QED
  BY <1>5, <1>9, <1>10, <1>11 DEF Inv

LEMMA ModulateFailsInv ==
  ASSUME Inv, NEW any \in Crc, ModulateFails(any)
  PROVE  Inv'
<1>1. interrupted' \subseteq 1..Len(air') /\ overdue' \subseteq 1..Len(air')
  BY PendingType DEF ModulateFails, Inv, TypeOK
<1>2. /\ last_crc' = any /\ last_time' = now /\ now \in Times
      /\ garbage' = garbage \cup {any}
      /\ UNCHANGED <<now, ticked, last_modem, air, late, broken, sent, played,
                     copies, seen, swallowed>>
      /\ Delivered' = Delivered /\ Sent' = Sent
  BY DEF ModulateFails, Inv, TypeOK, demodulators, outgoing, Delivered, Sent
<1>3. TypeOK'
  BY <1>1, <1>2 DEF Inv, TypeOK
<1>4. /\ SentBefore' /\ Remembered'
      /\ NothingVanishes' /\ SwallowedWasJustSeen'
  BY <1>2 DEF Inv, SentBefore, Remembered, NothingVanishes,
              SwallowedWasJustSeen
<1> QED
  BY <1>3, <1>4 DEF Inv

LEMMA OwnUnheardInv ==
  ASSUME Inv, OwnUnheard
  PROVE  Inv'
<1>1. played' \in 0..Len(sent')
  BY DEF OwnUnheard, Inv, TypeOK
<1>2. /\ UNCHANGED <<now, ticked, last_modem, last_crc, last_time, air, late,
                     broken, sent, copies, interrupted, overdue, seen,
                     swallowed, garbage>>
      /\ Delivered' = Delivered /\ Sent' = Sent
  BY DEF OwnUnheard, dedup, demodulators, Delivered, Sent
<1> QED
  BY <1>1, <1>2 DEF Inv, TypeOK, SentBefore, Remembered, NothingVanishes,
                    SwallowedWasJustSeen

LEMMA TickInv ==
  ASSUME Inv, Tick
  PROVE  Inv'
<1>1. now' = now + 1 /\ now' \in Times /\ ticked' \in BOOLEAN
  BY TimeAssumption DEF Tick, Inv, TypeOK, Times
<1>2. /\ UNCHANGED <<last_modem, last_crc, last_time, air, late, broken, sent,
                     played, copies, interrupted, seen, swallowed, garbage>>
      /\ Delivered' = Delivered /\ Sent' = Sent
  BY DEF Tick, dedup, demodulators, outgoing, Delivered, Sent
<1>3. SentBefore'
  <2> SUFFICES ASSUME NEW k \in 1..Len(sent) PROVE sent[k].at <= now + 1
    BY <1>1, <1>2 DEF SentBefore
  <2>1. sent \in Seq(SentFrame) /\ now \in Times
    BY DEF Inv, TypeOK
  <2>2. sent[k] \in SentFrame
    BY <2>1, ElementType
  <2>3. sent[k].at \in Int /\ now \in Int
    BY <2>1, <2>2, TimeAssumption DEF Times, SentFrame
  <2>4. sent[k].at <= now
    BY DEF Inv, SentBefore
  <2> QED
    BY <2>3, <2>4
<1>4. overdue' \subseteq 1..Len(air)
  BY PendingType DEF Tick, Inv, TypeOK
<1> QED
  BY <1>1, <1>2, <1>3, <1>4 DEF Inv, TypeOK, Remembered, NothingVanishes,
                                SwallowedWasJustSeen

LEMMA StutterInv ==
  ASSUME Inv, UNCHANGED vars
  PROVE  Inv'
<1>1. /\ UNCHANGED <<now, ticked, last_modem, last_crc, last_time, air, late,
                     broken, sent, played, copies, interrupted, overdue, seen,
                     swallowed, garbage>>
      /\ Delivered' = Delivered /\ Sent' = Sent
  BY DEF vars, dedup, demodulators, outgoing, Delivered, Sent
<1> QED
  BY <1>1 DEF Inv, TypeOK, SentBefore, Remembered, NothingVanishes,
              SwallowedWasJustSeen

LEMMA NextInv == Inv /\ [Next]_vars => Inv'
  BY ProcessQuietInv, ProcessRemoteInv, ProcessOwnInv, ModulateInv,
     ModulateFailsInv, OwnUnheardInv, TickInv, StutterInv DEF Next

(* The invariant of the deduplication state.                               *)
THEOREM ModemInvariant == Spec => []Inv
  BY InitInv, NextInv, PTL DEF Spec

(* Every reachable state of the modem is well typed.                       *)
THEOREM ModemTypeCorrect == Spec => []TypeOK
<1>1. Inv => TypeOK
  BY DEF Inv
<1> QED
  BY <1>1, ModemInvariant, PTL

(* For any number of demodulators, any delays between them and any chain   *)
(* of repetitions, deduplication never makes a frame vanish: what it drops *)
(* was delivered or sent at some time, failed modulations apart.           *)
THEOREM NothingEverVanishes == Spec => []NothingVanishes
<1>1. Inv => NothingVanishes
  BY DEF Inv
<1> QED
  BY <1>1, ModemInvariant, PTL

(* What deduplication drops was decoded or modulated at most one second    *)
(* before, failed modulations apart.                                       *)
THEOREM WindowIsOneSecond == Spec => []SwallowedWasJustSeen
<1>1. Inv => SwallowedWasJustSeen
  BY DEF Inv
<1> QED
  BY <1>1, ModemInvariant, PTL

--------------------------------------------------------------------------------
(* One transmission, one report *)

(* The only transmission a demodulator can still be late with is the last   *)
(* one.  When that was delivered already, and neither a modulation nor two  *)
(* ticks of the clock came between, then what the deduplication remembers   *)
(* is this very frame, from another demodulator and from a second ago at    *)
(* most.                                                                    *)
LatestOnly == \A d \in Demods : late[d] \in {None, Len(air)}
NotYetHeard == \A i \in Ids : i > Len(air) => copies[i] = 0
LateIsKnown ==
  \A d \in Demods :
    late[d] # None /\ late[d] \notin interrupted \cup overdue /\ copies[late[d]] > 0 =>
      /\ last_crc = air[late[d]].crc /\ last_modem # d
      /\ now - last_time <= (IF ticked THEN 1 ELSE 0)

Once == LatestOnly /\ NotYetHeard /\ LateIsKnown /\ DeliveredOnce

(* A demodulator returns the frame that ends in this buffer, if it completes *)
(* it now, or the one it was late with.                                     *)
LEMMA ReturnedIs ==
  ASSUME NEW m, NEW id, NEW how, Completed(m, id, how) # <<>>
  PROVE  \/ id # None /\ how[m] = "now" /\ Returned(m, id, how) = id
         \/ late[m] # None /\ Returned(m, id, how) = late[m]
<1>1. CASE id # None /\ how[m] = "now" /\ ~broken[m]
  BY <1>1 DEF Returned, Completed
<1>2. CASE ~(id # None /\ how[m] = "now" /\ ~broken[m])
  BY <1>2 DEF Returned, Completed
<1> QED
  BY <1>1, <1>2

LEMMA InitOnce == Init => Once
  BY DEF Init, Once, LatestOnly, NotYetHeard, LateIsKnown, DeliveredOnce, None

(* Transmission i is reported by demodulator m: counted once more if it is  *)
(* no duplicate.                                                            *)
LEMMA Counted ==
  ASSUME TypeOK, NEW m, NEW i \in Ids, NEW crc, Report(m, crc, i)
  PROVE  /\ last_modem' = m /\ last_crc' = crc /\ last_time' = now
         /\ \A j \in Ids : j # i => copies'[j] = copies[j]
         /\ copies'[i] \in {copies[i], copies[i] + 1}
         /\ Duplicate(crc, m, now) => copies' = copies
  BY DEF Report, TypeOK

(* The frame that a demodulator is late with is a duplicate when it was     *)
(* delivered already, unless it is overdue.                                 *)
LEMMA LateIsDuplicate ==
  ASSUME Inv, Once, NEW m \in Demods, late[m] # None,
         late[m] \notin interrupted \cup overdue, copies[late[m]] > 0
  PROVE  Duplicate(air[late[m]].crc, m, now)
<1>1. now \in Int /\ last_time \in Int
  BY TimeAssumption DEF Inv, TypeOK, Times
<1>2. /\ last_crc = air[late[m]].crc /\ last_modem # m
      /\ now - last_time <= (IF ticked THEN 1 ELSE 0)
  BY DEF Once, LateIsKnown
<1> QED
  BY <1>1, <1>2 DEF Duplicate

(* A buffer, in which either nothing ends or one transmission more.         *)
LEMMA ProcessOnce ==
  ASSUME Inv, Once, NEW heard, Extends(heard), NEW id, NEW how, NEW next,
         \/ id = None /\ Len(heard) = Len(air)
         \/ id = Len(air) + 1 /\ Len(heard) = Len(air) + 1,
         Process(heard, id, how, next)
  PROVE  Once'
<1>1. /\ TypeOK /\ air' = heard /\ UNCHANGED <<now, interrupted, overdue>> /\ ticked' = FALSE
      /\ Len(air) \in Nat /\ now \in Nat
  BY TimeAssumption DEF Inv, TypeOK, Process, Times
<1>2. /\ Len(heard) \in Nat /\ Len(air) <= Len(heard) /\ Len(heard) <= MaxAir /\ MaxAir \in Nat
      /\ (id # None => id \in Ids /\ id > Len(air) /\ copies[id] = 0)
  BY <1>1, BoundAssumption DEF Extends, Ids, Once, NotYetHeard, None
<1>3. ASSUME NEW fed, Feed(fed, id, how, next)
      PROVE  /\ LatestOnly'
             /\ \A d \in Demods : late'[d] # None => late'[d] = id /\ how[d] = "late" /\ id # None
  BY <1>1, <1>3 DEF Feed, LatestOnly, None
<1>4. CASE Feed(Demods, id, how, next) /\ UNCHANGED <<dedup, copies, seen, swallowed>>
  <2>1. NotYetHeard'
    <3> SUFFICES ASSUME NEW i \in Ids, i > Len(heard) PROVE copies[i] = 0
      BY <1>1, <1>4 DEF NotYetHeard
    <3>1. i > Len(air)
      BY <1>1, <1>2 DEF Ids
    <3> QED
      BY <3>1 DEF Once, NotYetHeard
  <2>2. LateIsKnown'
    BY <1>1, <1>2, <1>3, <1>4 DEF LateIsKnown
  <2>3. DeliveredOnce'
    <3> SUFFICES ASSUME NEW i \in 1..Len(heard), i \notin interrupted \cup overdue PROVE copies[i] <= 1
      BY <1>1, <1>4 DEF DeliveredOnce
    <3>1. CASE i \in 1..Len(air)
      BY <3>1 DEF Once, DeliveredOnce
    <3>2. CASE i > Len(air)
      BY <1>2, <3>2 DEF Once, NotYetHeard, Ids
    <3> QED
      BY <1>1, <1>2, <3>1, <3>2
  <2> QED
    BY <1>3, <1>4, <2>1, <2>2, <2>3 DEF Once
<1>5. ASSUME NEW m \in Winners(id, how), Feed(0..m, id, how, next),
             Report(m, heard[Returned(m, id, how)].crc, Returned(m, id, how))
      PROVE  Once'
  <2> DEFINE i == Returned(m, id, how)
  <2>1. m \in Demods /\ Completed(m, id, how) # <<>>
    BY DEF Winners
  <2>2. \/ id # None /\ how[m] = "now" /\ i = id
        \/ late[m] # None /\ i = late[m]
    BY <2>1, ReturnedIs
  <2>3. late[m] # None => late[m] = Len(air) /\ late[m] \in 1..Len(air)
    BY <1>1, <2>1 DEF Once, LatestOnly, TypeOK, None
  <2> HIDE DEF i
  <2>4. i \in Ids /\ i \in 1..Len(heard)
    <3>1. CASE i = id /\ id # None
      BY <1>1, <1>2, <3>1
    <3>2. CASE late[m] # None /\ i = late[m]
      BY <1>1, <1>2, <2>3, <3>2 DEF Ids
    <3> QED
      BY <2>2, <3>1, <3>2
  <2>5. Report(m, heard[i].crc, i)
    BY <1>5 DEF i
  <2>6. /\ last_modem' = m /\ last_crc' = heard[i].crc /\ last_time' = now
        /\ \A j \in Ids : j # i => copies'[j] = copies[j]
        /\ copies'[i] \in {copies[i], copies[i] + 1}
        /\ Duplicate(heard[i].crc, m, now) => copies' = copies
    BY <1>1, <2>4, <2>5, Counted
  <2>7. NotYetHeard'
    BY <1>1, <1>2, <2>4, <2>6 DEF Once, NotYetHeard, Ids
  <2>8. LateIsKnown'
    <3> SUFFICES ASSUME NEW d \in Demods, late'[d] # None, copies'[late'[d]] > 0
                 PROVE  last_crc' = heard[late'[d]].crc /\ last_modem' # d /\ now - last_time' <= 0
      BY <1>1 DEF LateIsKnown
    <3>1. late'[d] = id /\ how[d] = "late" /\ id # None
      BY <1>3, <1>5
    <3>2. i = id
      BY <1>2, <2>6, <3>1
    <3>3. how[m] = "now"
      BY <1>1, <1>2, <2>2, <2>3, <3>2
    <3> QED
      BY <1>1, <2>6, <3>1, <3>2, <3>3
  <2>9. copies \in [Ids -> Nat]
    BY <1>1 DEF TypeOK
  <2>10. i \in interrupted \cup overdue \/ copies'[i] <= 1
    <3>1. CASE i = id /\ id # None
      BY <1>2, <2>6, <3>1
    <3>2. CASE late[m] # None /\ i = late[m] /\ copies[i] = 0
      BY <2>6, <3>2
    <3>3. CASE late[m] # None /\ i = late[m] /\ copies[i] # 0 /\ i \notin interrupted \cup overdue
      <4>1. copies[i] > 0 /\ heard[i] = air[i]
        BY <2>3, <2>4, <2>9, <3>3 DEF Extends
      <4>2. Duplicate(heard[i].crc, m, now)
        BY <2>1, <3>3, <4>1, LateIsDuplicate
      <4>3. copies[i] <= 1
        BY <2>3, <3>3 DEF Once, DeliveredOnce
      <4> QED
        BY <2>6, <4>2, <4>3
    <3> QED
      BY <2>2, <3>1, <3>2, <3>3
  <2>11. DeliveredOnce'
    <3> SUFFICES ASSUME NEW j \in 1..Len(heard), j \notin interrupted \cup overdue PROVE copies'[j] <= 1
      BY <1>1 DEF DeliveredOnce
    <3>1. CASE j = i
      BY <2>10, <3>1
    <3>2. CASE j # i /\ j \in 1..Len(air)
      <4>1. j \in Ids /\ copies[j] <= 1
        BY <1>1, <1>2, <3>2 DEF Once, DeliveredOnce, Ids
      <4> QED
        BY <2>6, <3>2, <4>1
    <3>3. CASE j # i /\ j > Len(air)
      BY <1>2, <2>6, <3>3 DEF Once, NotYetHeard, Ids
    <3> QED
      BY <1>1, <1>2, <3>1, <3>2, <3>3
  <2> QED
    BY <1>3, <1>5, <2>7, <2>8, <2>11 DEF Once
<1> QED
  BY <1>4, <1>5 DEF Process

LEMMA BufferOnce ==
  ASSUME Inv, Once,
         NEW next \in BOOLEAN, NEW how \in Outcomes,
         \/ ProcessQuiet(next)
         \/ \E c \in Crc : ProcessRemote(c, how, next)
         \/ ProcessOwn(how, next)
  PROVE  Once'
<1>1. ASSUME ProcessQuiet(next) PROVE Once'
  <2>1. Extends(air)
    BY DEF Inv, TypeOK, Extends
  <2> QED
    BY <1>1, <2>1, ProcessOnce DEF ProcessQuiet
<1>2. ASSUME NEW c \in Crc, ProcessRemote(c, how, next) PROVE Once'
  <2> DEFINE t == [crc |-> c, own |-> FALSE, delay |-> 0]
             heard == Append(air, t)
  <2>1. t \in Transmission
    BY TimeAssumption DEF Transmission
  <2>2. Len(air) < MaxAir /\ Process(heard, Len(air) + 1, how, next)
    BY <1>2 DEF ProcessRemote
  <2> HIDE DEF t
  <2>3. Extends(heard) /\ Len(heard) = Len(air) + 1
    BY <2>1, <2>2, AppendExtends DEF Inv
  <2> HIDE DEF heard
  <2> QED
    BY <2>2, <2>3, ProcessOnce
<1>3. ASSUME ProcessOwn(how, next) PROVE Once'
  <2> DEFINE frame == sent[played']
             t == [crc |-> frame.crc, own |-> TRUE, delay |-> now - frame.at]
             heard == Append(air, t)
  <2>1. frame \in SentFrame /\ frame.at <= now
    <3>1. sent \in Seq(SentFrame) /\ played' \in 1..Len(sent)
      BY <1>3 DEF Inv, TypeOK, ProcessOwn
    <3>2. sent[played'] \in SentFrame
      BY <3>1, ElementType
    <3> QED
      BY <3>1, <3>2 DEF Inv, SentBefore
  <2>2. Len(air) < MaxAir /\ Process(heard, Len(air) + 1, how, next)
    BY <1>3 DEF ProcessOwn
  <2> HIDE DEF frame
  <2>3. now - frame.at \in 0..(MaxTime - StartTime)
    BY <2>1, TimeAssumption DEF Inv, TypeOK, Times, SentFrame
  <2>4. t \in Transmission
    BY <2>1, <2>3 DEF Transmission, SentFrame
  <2> HIDE DEF t
  <2>5. Extends(heard) /\ Len(heard) = Len(air) + 1
    BY <2>2, <2>4, AppendExtends DEF Inv
  <2> HIDE DEF heard
  <2> QED
    BY <2>2, <2>5, ProcessOnce
<1> QED
  BY <1>1, <1>2, <1>3

(* After a modulation every transmission that some demodulator is late with *)
(* counts as interrupted.                                                   *)
LEMMA ModulationOnce ==
  ASSUME Inv, Once, interrupted' = interrupted \cup Pending,
         UNCHANGED <<air, demodulators, copies, overdue>>
  PROVE  Once'
<1>1. UNCHANGED <<late, broken>> /\ \A d \in Demods : late[d] # None => late[d] \in interrupted'
  BY DEF demodulators, Pending
<1> QED
  BY <1>1 DEF Once, LatestOnly, NotYetHeard, LateIsKnown, DeliveredOnce

(* What a demodulator is still late with at the second tick is overdue.     *)
LEMMA TickOnce == Inv /\ Once /\ Tick => Once'
<1> SUFFICES ASSUME Inv, Once, Tick PROVE Once'
  OBVIOUS
<1>1. /\ now' = now + 1 /\ ticked' = (Pending # {})
      /\ overdue' = overdue \cup (IF ticked THEN Pending ELSE {})
      /\ UNCHANGED <<last_modem, last_crc, last_time, air, late, copies, interrupted>>
  BY DEF Tick, dedup, demodulators
<1>2. now \in Int /\ last_time \in Int
  BY TimeAssumption DEF Inv, TypeOK, Times
<1>3. LateIsKnown'
  <2>1. ASSUME NEW d \in Demods, late'[d] # None, late'[d] \notin interrupted' \cup overdue',
                copies'[late'[d]] > 0
         PROVE  /\ last_crc' = air'[late'[d]].crc /\ last_modem' # d
                /\ now' - last_time' <= (IF ticked' THEN 1 ELSE 0)
    <3>1. ticked' /\ ~ticked
      BY <1>1, <2>1 DEF Pending
    <3>2. /\ last_crc = air[late[d]].crc /\ last_modem # d
          /\ now - last_time <= (IF ticked THEN 1 ELSE 0)
      BY <1>1, <2>1 DEF Once, LateIsKnown
    <3> QED
      BY <1>1, <1>2, <3>1, <3>2
  <2> QED
    BY <2>1 DEF LateIsKnown
<1> QED
  BY <1>1, <1>3 DEF Once, LatestOnly, NotYetHeard, DeliveredOnce

LEMMA StandsOnce ==
  ASSUME Once, UNCHANGED <<now, ticked, dedup, air, demodulators, copies, interrupted, overdue>>
  PROVE  Once'
  BY DEF Once, LatestOnly, NotYetHeard, LateIsKnown, DeliveredOnce, dedup, demodulators

LEMMA NextOnce == Inv /\ Once /\ [Next]_vars => Once'
<1> SUFFICES ASSUME Inv, Once, [Next]_vars PROVE Once'
  OBVIOUS
<1>1. CASE \E next \in BOOLEAN : \/ ProcessQuiet(next)
                                 \/ \E how \in Outcomes : \/ \E c \in Crc : ProcessRemote(c, how, next)
                                                          \/ ProcessOwn(how, next)
  <2>1. Outcomes # {}
    <3>1. [d \in Demods |-> "never"] \in Outcomes
      BY DEF Outcomes
    <3> QED
      BY <3>1
  <2> QED
    BY <1>1, <2>1, BufferOnce
<1>2. CASE \E c \in Crc : Modulate(c) \/ ModulateFails(c)
  BY <1>2, ModulationOnce DEF Modulate, ModulateFails
<1>3. CASE OwnUnheard
  BY <1>3, StandsOnce DEF OwnUnheard
<1>4. CASE Tick
  BY <1>4, TickOnce
<1>5. CASE UNCHANGED vars
  BY <1>5, StandsOnce DEF vars
<1> QED
  BY <1>1, <1>2, <1>3, <1>4, <1>5 DEF Next

(* One transmission is returned to the caller once, for any number of       *)
(* demodulators, unless the station modulates between two of its decodes or *)
(* the clock ticks twice between the two buffers that they fall into.       *)
THEOREM FramesAreDeliveredOnce == Spec => []DeliveredOnce
<1>1. Once => DeliveredOnce
  BY DEF Once
<1> QED
  BY <1>1, InitOnce, NextOnce, ModemInvariant, PTL DEF Spec
================================================================================
