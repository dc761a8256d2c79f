------------------------------- MODULE LoopProofs ------------------------------
(***************************************************************************)
(* Proofs about the event loop, for any clients, frames and options.       *)
(***************************************************************************)
EXTENDS Loop, SequenceTheorems, TLAPS

(* The bytes of the clients that share a decoder.                           *)
Bytes(d) == {Data(c, i) : c \in {e \in Clients : Decoder(e) = d}, i \in Nat}

Placed == /\ Clients \subseteq DOMAIN Frames
          /\ \A c \in Clients : source[c] \in {"stdin"} \cup Range(Servers)

(* A datagram carries a whole frame.                                        *)
Counts(c) == /\ got[c] <= sent[c] /\ sent[c] <= Pieces(c)
             /\ conn[c] = "closed" => got[c] = sent[c]
             /\ Transport(source[c]) = "udp" => got[c] % 2 = 0 /\ sent[c] % 2 = 0

Peers == /\ conn \in [Clients -> {"away", "waiting", "open", "left", "closed"}]
         /\ sent \in [Clients -> Nat] /\ got \in [Clients -> Nat]
         /\ \A c \in Clients : Counts(c)

Turns == /\ step \in {"poll", "serve", "exited"} /\ todo \subseteq Range(Order)
         /\ "audio" \in todo => air > 0
         /\ air \in Nat /\ idle \in 0..(MaxIdle + 1)

(* A decoder in which nothing got mixed holds the beginning of a frame if   *)
(* and only if the program is amid a frame of one of its clients, and then  *)
(* it is amid a frame of one only.                                          *)
Amid(c) == got[c] % 2 = 1
Clean(d) ==
  /\ \A c \in Clients : Decoder(c) = d /\ Amid(c) => decoder[d] = <<Data(c, got[c])>>
  /\ decoder[d] # <<>> => \E c \in Clients : /\ Decoder(c) = d /\ Amid(c)
                                             /\ decoder[d] = <<Data(c, got[c])>>

Held(d) == decoder[d] \in Seq(Bytes(d)) /\ (d \notin mixed => Clean(d))

Decoders == {"kiss", "stdin", "tcp", "udp", "uds"}
DecodersHold == /\ decoder = [d \in Decoders |-> decoder[d]] /\ mixed \subseteq Decoders
                /\ \A d \in Decoders : Held(d)

Inv == /\ Placed /\ Peers /\ Turns
       /\ DecodersHold /\ OnlyMixingBreaksFrames
       /\ OutputsGetTheirFrames

--------------------------------------------------------------------------------
(* Names, and the bytes of a decoder *)

LEMMA ServerNames ==
  Range(Servers) = {"tcp_kiss", "tcp_tnc2", "udp_kiss_listen", "udp_tnc2_listen",
                    "uds_kiss", "uds_tnc2"}
  BY DEF Range, Servers

LEMMA OrderNames == Range(Order) = {"audio", "stdin"} \cup Range(Servers)
<1> DEFINE first == <<"audio", "stdin">>
           names == {"audio", "stdin", "tcp_kiss", "tcp_tnc2", "udp_kiss_listen",
                     "udp_tnc2_listen", "uds_kiss", "uds_tnc2"}
<1>1. Servers \in Seq(names) /\ first \in Seq(names)
  BY DEF Servers
<1>2. Range(first) = {"audio", "stdin"}
  BY DEF Range
<1>3. Order = first \o Servers
  BY DEF Order
<1> HIDE DEF first, names
<1>4. Range(first \o Servers) = Range(first) \cup Range(Servers)
  BY <1>1, RangeConcatenation
<1> QED
  BY <1>2, <1>3, <1>4

LEMMA DecoderExists == \A c : Decoder(c) \in Decoders
  BY DEF Decoder, Decoders, Transport

LEMMA DataOf == \A c, i : Data(c, i).from = c /\ Data(c, i).n = i
  BY DEF Data

LEMMA ByteOf ==
  /\ \A c \in Clients : \A i \in Nat : Data(c, i) \in Bytes(Decoder(c))
  /\ \A d : \A b \in Bytes(d) : b.from \in Clients /\ Decoder(b.from) = d
<1>1. \A c \in Clients : \A i \in Nat : Data(c, i) \in Bytes(Decoder(c))
  BY DEF Bytes
<1>2. ASSUME NEW d, NEW b \in Bytes(d) PROVE b.from \in Clients /\ Decoder(b.from) = d
  <2>1. PICK c \in {e \in Clients : Decoder(e) = d}, i \in Nat : b = Data(c, i)
    BY DEF Bytes
  <2> QED
    BY <2>1, DataOf
<1> QED
  BY <1>1, <1>2

(* Sequences of one or two elements, and what follows a sequence.           *)
LEMMA ShortSequences ==
  ASSUME NEW S, NEW a \in S, NEW b \in S, NEW s \in Seq(S)
  PROVE  /\ <<a>> \in Seq(S) \ {<<>>} /\ <<a, b>> \in Seq(S) \ {<<>>}
         /\ s \o <<a>> \in Seq(S) \ {<<>>} /\ s \o <<a, b>> \in Seq(S) \ {<<>>}
         /\ <<>> \o <<a>> = <<a>> /\ <<>> \o <<a, b>> = <<a, b>>
         /\ <<a>> \o <<b>> = <<a, b>>
<1>1. <<a>> \in Seq(S) /\ Len(<<a>>) = 1 /\ <<a, b>> \in Seq(S) /\ Len(<<a, b>>) = 2
  OBVIOUS
<1>2. s \o <<a>> \in Seq(S) /\ Len(s \o <<a>>) = Len(s) + 1
  BY <1>1
<1>3. s \o <<a, b>> \in Seq(S) /\ Len(s \o <<a, b>>) = Len(s) + 2
  BY <1>1
<1>4. Len(s) \in Nat /\ \A t : Len(t) # 0 => t # <<>>
  OBVIOUS
<1>5. <<>> \o <<a>> = <<a>> /\ <<>> \o <<a, b>> = <<a, b>>
  BY <1>1, ConcatEmptySeq
<1>6. <<a>> \o <<b>> = <<a, b>>
  <2>1. <<a>> \in Seq(S) /\ Append(<<a>>, b) = <<a>> \o <<b>>
    BY <1>1, AppendIsConcat
  <2>2. Append(<<a>>, b) = <<a, b>>
    <3> DEFINE t == Append(<<a>>, b)
               u == <<a, b>>
    <3>1. t \in Seq(S) /\ Len(t) = 2 /\ t[1] = a /\ t[2] = b
      OBVIOUS
    <3>2. u \in Seq(S) /\ Len(u) = 2 /\ u[1] = a /\ u[2] = b
      OBVIOUS
    <3> HIDE DEF t, u
    <3>3. \A i \in 1..Len(t) : t[i] = u[i]
      BY <3>1, <3>2
    <3>4. t = u
      BY <3>1, <3>2, <3>3, SeqEqual
    <3> QED
      BY <3>4 DEF t, u
  <2> QED
    BY <2>1, <2>2
<1> QED
  BY <1>1, <1>2, <1>3, <1>4, <1>5, <1>6

LEMMA Halves ==
  ASSUME NEW n \in Nat
  PROVE  /\ n \div 2 \in Nat /\ n % 2 \in {0, 1}
         /\ n % 2 = 0 => n = 2 * (n \div 2)
         /\ n % 2 = 1 => n = 2 * (n \div 2) + 1
  OBVIOUS

--------------------------------------------------------------------------------
(* One read through a decoder *)

LEMMA PartsOfDecoder ==
  ASSUME NEW c \in Clients, NEW k \in Nat \ {0}, NEW held \in Seq(Bytes(Decoder(c)))
  PROVE  /\ Part(c, k) \in Seq(Bytes(Decoder(c))) \ {<<>>}
         /\ Line(held, c, k) \in Seq(Bytes(Decoder(c))) \ {<<>>}
<1>1. 2 * k \in Nat /\ 2 * k - 1 \in Nat
  OBVIOUS
<1>2. /\ Data(c, 2 * k) \in Bytes(Decoder(c)) /\ Data(c, 2 * k - 1) \in Bytes(Decoder(c))
  BY <1>1, ByteOf
<1>3. \/ Part(c, k) = <<Data(c, 2 * k)>> \/ Part(c, k) = <<Data(c, 2 * k - 1)>>
      \/ Part(c, k) = <<Data(c, 2 * k - 1), Data(c, 2 * k)>>
  BY DEF Part, Frame
<1>4. Line(held, c, k) = Part(c, k) \/ Line(held, c, k) = held \o Part(c, k)
  BY DEF Line
<1>5. /\ Part(c, k) \in Seq(Bytes(Decoder(c))) \ {<<>>}
      /\ held \o Part(c, k) \in Seq(Bytes(Decoder(c))) \ {<<>>}
  <2> DEFINE a == Data(c, 2 * k)
             b == Data(c, 2 * k - 1)
             S == Bytes(Decoder(c))
  <2>1. a \in S /\ b \in S /\ held \in Seq(S)
    BY <1>2
  <2>2. Part(c, k) \in {<<a>>, <<b>>, <<b, a>>}
    BY <1>3
  <2> HIDE DEF a, b, S
  <2>3. /\ <<a>> \in Seq(S) \ {<<>>} /\ held \o <<a>> \in Seq(S) \ {<<>>}
        /\ <<b, a>> \in Seq(S) \ {<<>>} /\ held \o <<b, a>> \in Seq(S) \ {<<>>}
    BY <2>1, ShortSequences
  <2>4. <<b>> \in Seq(S) \ {<<>>} /\ held \o <<b>> \in Seq(S) \ {<<>>}
    BY <2>1, ShortSequences
  <2>5. Part(c, k) \in Seq(S) \ {<<>>} /\ held \o Part(c, k) \in Seq(S) \ {<<>>}
    BY <2>2, <2>3, <2>4
  <2> QED
    BY <2>5 DEF S
<1> QED
  BY <1>4, <1>5

(* Whatever a decoder held, what comes out of it are bytes of its clients.  *)
LEMMA ReadKeepsBytes ==
  ASSUME NEW c \in Clients, got[c] \in Nat, sent[c] \in Nat,
         NEW held \in Seq(Bytes(Decoder(c)))
  PROVE  /\ \A f \in Decoded(held, c) : f \in Seq(Bytes(Decoder(c))) \ {<<>>}
         /\ Unfinished(held, c) \in Seq(Bytes(Decoder(c)))
<1>1. got[c] \div 2 \in Nat /\ sent[c] \div 2 \in Nat
  OBVIOUS
<1>2. ASSUME NEW f \in Decoded(held, c) PROVE f \in Seq(Bytes(Decoder(c))) \ {<<>>}
  <2>1. CASE f \in {held} \ {<<>>}
    BY <2>1
  <2>2. CASE \E k \in (got[c] \div 2 + 1)..(sent[c] \div 2) : f = Line(held, c, k)
    <3>1. PICK k \in (got[c] \div 2 + 1)..(sent[c] \div 2) : f = Line(held, c, k)
      BY <2>2
    <3>2. k \in Nat \ {0}
      BY <1>1
    <3> QED
      BY <3>1, <3>2, PartsOfDecoder
  <2> QED
    BY <2>1, <2>2 DEF Decoded
<1>3. Unfinished(held, c) \in Seq(Bytes(Decoder(c)))
  <2>1. sent[c] \div 2 + 1 \in Nat \ {0}
    BY <1>1
  <2>2. Line(held, c, sent[c] \div 2 + 1) \in Seq(Bytes(Decoder(c)))
    BY <2>1, PartsOfDecoder
  <2>3. <<>> \in Seq(Bytes(Decoder(c)))
    OBVIOUS
  <2> QED
    BY <2>2, <2>3 DEF Unfinished
<1> QED
  BY <1>2, <1>3

(* A decoder that is where its client is makes whole frames of what comes.  *)
LEMMA ReadKeepsFrames ==
  ASSUME NEW c \in Clients, got[c] \in Nat, sent[c] \in Nat, got[c] < sent[c],
         NEW held, Amid(c) => held = <<Data(c, got[c])>>, ~Amid(c) => held = <<>>
  PROVE  /\ \A f \in Decoded(held, c) : \E k \in 1..(sent[c] \div 2) : f = Frame(c, k)
         /\ Unfinished(held, c) = IF sent[c] % 2 = 1 THEN <<Data(c, sent[c])>> ELSE <<>>
<1> DEFINE first == got[c] \div 2 + 1
<1>1. /\ first \in Nat \ {0} /\ sent[c] \div 2 \in Nat
      /\ Amid(c) => got[c] = 2 * first - 1
      /\ ~Amid(c) => got[c] = 2 * first - 2
      /\ got[c] % 2 = 0 <=> ~Amid(c)
  BY DEF Amid
<1>2. ASSUME NEW k \in Nat \ {0} PROVE <<>> \o Part(c, k) = Part(c, k)
  <2>1. <<>> \in Seq(Bytes(Decoder(c)))
    OBVIOUS
  <2>2. Part(c, k) \in Seq(Bytes(Decoder(c)))
    BY <2>1, PartsOfDecoder
  <2> QED
    BY <2>2, ConcatEmptySeq
<1>3. ASSUME NEW k \in first..(sent[c] \div 2) PROVE Line(held, c, k) = Frame(c, k)
  <2>1. k \in Nat \ {0} /\ 2 * k <= sent[c] /\ ~(sent[c] < 2 * k) /\ first <= k
    <3>1. k \in Int /\ first <= k /\ k <= sent[c] \div 2 /\ first \in Nat \ {0}
      BY <1>1
    <3> HIDE DEF first
    <3> QED
      BY <3>1
  <2>2. CASE k = first /\ Amid(c)
    <3>1. Part(c, k) = <<Data(c, 2 * k)>> /\ ~EndsLast(c)
      BY <1>1, <2>1, <2>2 DEF Part, EndsLast
    <3>2. Line(held, c, k) = held \o Part(c, k)
      BY <2>2, <3>1 DEF Line
    <3>3. held = <<Data(c, 2 * k - 1)>>
      BY <1>1, <2>2
    <3>4. 2 * k \in Nat /\ 2 * k - 1 \in Nat
      BY <2>1
    <3>5. <<Data(c, 2 * k - 1)>> \o <<Data(c, 2 * k)>> = <<Data(c, 2 * k - 1), Data(c, 2 * k)>>
      <4>1. ASSUME NEW a, NEW b PROVE <<a>> \o <<b>> = <<a, b>>
        <5>1. a \in {a, b} /\ b \in {a, b} /\ <<a>> \in Seq({a, b})
          OBVIOUS
        <5> QED
          BY <5>1, ShortSequences
      <4> QED
        BY <4>1
    <3> QED
      BY <3>1, <3>2, <3>3, <3>5 DEF Frame
  <2>3. CASE ~(k = first /\ Amid(c))
    <3>1. ~(2 * k - 1 <= got[c])
      BY <1>1, <2>1, <2>3
    <3>2. Part(c, k) = Frame(c, k)
      BY <2>1, <3>1 DEF Part
    <3>3. k = first => held = <<>>
      BY <2>3
    <3>4. Line(held, c, k) = Part(c, k)
      BY <1>2, <2>1, <3>3 DEF Line
    <3> QED
      BY <3>2, <3>4
  <2> QED
    BY <2>2, <2>3
<1>4. ASSUME NEW f \in Decoded(held, c) PROVE \E k \in 1..(sent[c] \div 2) : f = Frame(c, k)
  <2>1. EndsLast(c) => held = <<>>
    BY <1>1 DEF EndsLast
  <2>2. PICK k \in first..(sent[c] \div 2) : f = Line(held, c, k)
    BY <2>1 DEF Decoded
  <2>3. k \in 1..(sent[c] \div 2)
    BY <1>1
  <2> QED
    BY <1>3, <2>2, <2>3
<1>5. Unfinished(held, c) = IF sent[c] % 2 = 1 THEN <<Data(c, sent[c])>> ELSE <<>>
  <2>1. CASE sent[c] % 2 = 0
    BY <2>1 DEF Unfinished
  <2>2. CASE sent[c] % 2 = 1
    <3> DEFINE k == sent[c] \div 2 + 1
    <3>1. k \in Nat \ {0} /\ 2 * k - 1 = sent[c] /\ sent[c] < 2 * k /\ ~(2 * k - 1 <= got[c])
      <4>1. PICK h \in Nat : h = sent[c] \div 2
        BY Halves
      <4>2. k = h + 1 /\ sent[c] = 2 * h + 1
        BY <2>2, <4>1, Halves
      <4>3. ~(sent[c] <= got[c])
        OBVIOUS
      <4> HIDE DEF k, first
      <4>4. k \in Nat \ {0}
        BY <4>2
      <4>5. 2 * k - 1 = sent[c] /\ sent[c] < 2 * k
        BY <4>2
      <4> QED
        BY <4>3, <4>4, <4>5
    <3>2. Part(c, k) = <<Data(c, sent[c])>>
      BY <3>1 DEF Part
    <3>3. k = first => held = <<>>
      BY <1>1, <3>1
    <3>4. Line(held, c, k) = <<Data(c, sent[c])>>
      BY <1>2, <3>1, <3>2, <3>3 DEF Line
    <3> QED
      BY <2>2, <3>4 DEF Unfinished
  <2> QED
    BY <2>1, <2>2
<1> QED
  BY <1>4, <1>5

--------------------------------------------------------------------------------
(* What a step leaves alone *)

LEMMA NamesStay ==
  ASSUME UNCHANGED config
  PROVE  /\ on' = on /\ source' = source /\ Clients' = Clients
         /\ \A c : Decoder(c)' = Decoder(c)
         /\ \A d : Bytes(d)' = Bytes(d)
<1>1. on' = on /\ source' = source /\ Clients' = Clients
  BY DEF config, Clients
<1>2. \A c : Decoder(c)' = Decoder(c)
  BY <1>1 DEF Decoder
<1>3. \A d : Bytes(d)' = Bytes(d)
  BY <1>1, <1>2 DEF Bytes
<1> QED
  BY <1>1, <1>2, <1>3

LEMMA PeersStay ==
  ASSUME Peers, UNCHANGED <<config, peers, got>>
  PROVE  Peers'
  BY NamesStay DEF Peers, Counts, peers

(* A step of one client changes its own counts only.                        *)
LEMMA OnePeer ==
  ASSUME Peers, UNCHANGED config, NEW c \in Clients,
         conn' \in [Clients -> {"away", "waiting", "open", "left", "closed"}],
         sent' \in [Clients -> Nat], got' \in [Clients -> Nat],
         \A e \in Clients \ {c} : conn'[e] = conn[e] /\ sent'[e] = sent[e] /\ got'[e] = got[e],
         Counts(c)'
  PROVE  Peers'
<1>1. ASSUME NEW e \in Clients \ {c} PROVE Counts(e)'
  BY NamesStay DEF Peers, Counts
<1> QED
  BY <1>1, NamesStay DEF Peers

LEMMA HeldStays ==
  ASSUME DecodersHold, UNCHANGED <<config, decoder, mixed>>,
         \A c \in Clients : got'[c] = got[c] \/ (~Amid(c) /\ ~Amid(c)')
  PROVE  DecodersHold'
<1>1. ASSUME NEW d \in Decoders PROVE Held(d)'
  <2>1. decoder[d] \in Seq(Bytes(d)) /\ (d \notin mixed => Clean(d))
    BY DEF DecodersHold, Held
  <2>2. ASSUME d \notin mixed PROVE Clean(d)'
    <3>1. \A c \in Clients : /\ Amid(c)' <=> Amid(c)
                             /\ Amid(c) => got'[c] = got[c]
      BY DEF Amid
    <3>2. \A c \in Clients : Decoder(c) = d /\ Amid(c) => decoder[d] = <<Data(c, got[c])>>
      BY <2>1, <2>2 DEF Clean
    <3>3. decoder[d] # <<>> => \E c \in Clients : /\ Decoder(c) = d /\ Amid(c)
                                                  /\ decoder[d] = <<Data(c, got[c])>>
      BY <2>1, <2>2 DEF Clean
    <3> QED
      BY <3>1, <3>2, <3>3, NamesStay DEF Clean
  <2> QED
    BY <2>1, <2>2, NamesStay DEF Held
<1> QED
  BY <1>1 DEF DecodersHold

LEMMA WholeStays == ASSUME UNCHANGED config PROVE \A f : Whole(f)' <=> Whole(f)
  BY NamesStay DEF Whole

LEMMA QueueStays ==
  ASSUME OnlyMixingBreaksFrames, UNCHANGED <<config, queued, mixed>>
  PROVE  OnlyMixingBreaksFrames'
  BY NamesStay, WholeStays DEF OnlyMixingBreaksFrames

LEMMA OutputsStay ==
  ASSUME OutputsGetTheirFrames, UNCHANGED <<config, routed>>
  PROVE  OutputsGetTheirFrames'
  BY NamesStay DEF OutputsGetTheirFrames

LEMMA PiecesAreEven ==
  ASSUME Placed, NEW c \in Clients
  PROVE  Len(Frames[c]) \in Nat /\ Pieces(c) = 2 * Len(Frames[c])
<1>1. Frames[c] \in Seq({"packet", "foreign"})
  BY ScenariosAssumption DEF Placed
<1> QED
  BY <1>1 DEF Pieces

--------------------------------------------------------------------------------
(* The read *)

LEMMA FeedInv ==
  ASSUME Inv, NEW c \in Clients, got[c] < sent[c], Feed(c), UNCHANGED <<config, sent>>
  PROVE  DecodersHold' /\ OnlyMixingBreaksFrames'
<1>0. PICK d : d = Decoder(c)
  OBVIOUS
<1> DEFINE held == decoder[d]
<1>1. /\ d \in Decoders /\ got \in [Clients -> Nat] /\ got[c] \in Nat /\ sent[c] \in Nat
      /\ sent[c] <= Pieces(c)
  BY <1>0, DecoderExists DEF Inv, Peers, Counts
<1>2. /\ held \in Seq(Bytes(d)) /\ (d \notin mixed => Clean(d))
      /\ DOMAIN decoder = Decoders /\ mixed \subseteq Decoders
      /\ decoder = [e \in Decoders |-> decoder[e]]
  BY <1>1 DEF Inv, DecodersHold, Held
<1>3. /\ queued' \subseteq queued \cup Decoded(held, c)
      /\ decoder' = [decoder EXCEPT ![d] = Unfinished(held, c)]
      /\ mixed' = mixed \cup (IF Mixes(c) THEN {d} ELSE {})
      /\ got' = [got EXCEPT ![c] = sent[c]]
  BY <1>0 DEF Feed
<1>4. /\ Clients' = Clients /\ \A e : Decoder(e)' = Decoder(e)
      /\ \A e : Bytes(e)' = Bytes(e) /\ \A f : Whole(f)' <=> Whole(f)
  BY NamesStay, WholeStays
<1>5. /\ \A f \in Decoded(held, c) : f \in Seq(Bytes(d)) \ {<<>>}
      /\ Unfinished(held, c) \in Seq(Bytes(d))
  BY <1>0, <1>1, <1>2, ReadKeepsBytes
<1>6. /\ got'[c] = sent[c] /\ \A e \in Clients \ {c} : got'[e] = got[e]
      /\ decoder'[d] = Unfinished(held, c) /\ \A e \in Decoders \ {d} : decoder'[e] = decoder[e]
      /\ decoder' = [e \in Decoders |-> decoder'[e]]
      /\ mixed' \subseteq Decoders /\ \A e \in Decoders \ {d} : e \in mixed' <=> e \in mixed
      /\ mixed \subseteq mixed'
  BY <1>1, <1>2, <1>3
<1> HIDE DEF held
(* Where nothing got mixed, the decoder is where the client is, and amid no *)
(* frame of another client.                                                 *)
<1>7. ASSUME d \notin mixed'
      PROVE  /\ Amid(c) => held = <<Data(c, got[c])>>
             /\ ~Amid(c) => held = <<>>
             /\ \A e \in Clients \ {c} : Decoder(e) = d => ~Amid(e)
  <2>1. d \notin mixed /\ Clean(d) /\ ~Mixes(c)
    BY <1>2, <1>3, <1>6, <1>7
  <2>2. \A e \in Clients : Decoder(e) = d /\ Amid(e) => held = <<Data(e, got[e])>>
    BY <2>1 DEF Clean, held
  <2>3. \A i \in DOMAIN held : held[i].from = c
    BY <1>0, <2>1 DEF Mixes, held
  <2>4. ASSUME NEW e \in Clients, held = <<Data(e, got[e])>> PROVE e = c
    <3>1. 1 \in DOMAIN held /\ held[1] = Data(e, got[e])
      BY <2>4
    <3> QED
      BY <2>3, <3>1, DataOf
  <2>5. held # <<>> => \E e \in Clients : Decoder(e) = d /\ Amid(e) /\ held = <<Data(e, got[e])>>
    BY <2>1 DEF Clean, held
  <2> QED
    BY <1>0, <2>2, <2>4, <2>5
<1>8. Held(d)'
  <2>1. decoder'[d] \in Seq(Bytes(d)')
    BY <1>4, <1>5, <1>6
  <2>2. ASSUME d \notin mixed' PROVE Clean(d)'
    <3>1. decoder'[d] = IF sent[c] % 2 = 1 THEN <<Data(c, sent[c])>> ELSE <<>>
      BY <1>1, <1>6, <1>7, <2>2, ReadKeepsFrames
    <3>2. \A e \in Clients : Decoder(e) = d /\ Amid(e)' => e = c
      BY <1>6, <1>7, <2>2 DEF Amid
    <3>3. Amid(c)' <=> sent[c] % 2 = 1
      BY <1>6 DEF Amid
    <3>5. \A e \in Clients : Decoder(e) = d /\ Amid(e)' => decoder'[d] = <<Data(e, got'[e])>>
      BY <1>6, <3>1, <3>2, <3>3
    <3>6. decoder'[d] # <<>> => Amid(c)' /\ decoder'[d] = <<Data(c, got'[c])>>
      BY <1>6, <3>1, <3>3
    <3> QED
      BY <1>0, <1>4, <3>5, <3>6 DEF Clean
  <2> QED
    BY <2>1, <2>2 DEF Held
<1>9. ASSUME NEW e \in Decoders \ {d} PROVE Held(e)'
  <2>1. decoder[e] \in Seq(Bytes(e)) /\ (e \notin mixed => Clean(e))
    BY <1>9 DEF Inv, DecodersHold, Held
  <2>2. decoder'[e] = decoder[e] /\ (e \in mixed' <=> e \in mixed)
    BY <1>6, <1>9
  <2>3. \A b \in Clients : Decoder(b) = e => got'[b] = got[b]
    BY <1>0, <1>6, <1>9
  <2>4. ASSUME Clean(e) PROVE Clean(e)'
    <3>1. \A b \in Clients : Decoder(b) = e => (Amid(b)' <=> Amid(b))
      BY <2>3 DEF Amid
    <3> QED
      BY <1>4, <2>2, <2>3, <2>4, <3>1 DEF Clean
  <2> QED
    BY <1>4, <2>1, <2>2, <2>4 DEF Held
<1>10. DecodersHold'
  BY <1>6, <1>8, <1>9 DEF DecodersHold
<1>11. OnlyMixingBreaksFrames'
  <2>1. ASSUME NEW f \in queued
        PROVE  Whole(f) \/ \E i \in DOMAIN f : Decoder(f[i].from) \in mixed'
    BY <1>6 DEF Inv, OnlyMixingBreaksFrames
  <2>2. ASSUME NEW f \in Decoded(held, c), d \in mixed'
        PROVE  \E i \in DOMAIN f : Decoder(f[i].from) \in mixed'
    <3>1. f \in Seq(Bytes(d)) /\ f # <<>>
      BY <1>5, <2>2
    <3>2. 1 \in DOMAIN f /\ f[1] \in Bytes(d)
      BY <3>1
    <3> QED
      BY <2>2, <3>2, ByteOf
  <2>3. ASSUME NEW f \in Decoded(held, c), d \notin mixed' PROVE Whole(f)
    <3>1. PICK k \in 1..(sent[c] \div 2) : f = Frame(c, k)
      BY <1>1, <1>7, <2>3, ReadKeepsFrames
    <3>2. k \in 1..Len(Frames[c])
      <4>1. Len(Frames[c]) \in Nat /\ sent[c] <= 2 * Len(Frames[c])
        <5>1. c \in Clients /\ Placed /\ Peers
          BY <1>1 DEF Inv
        <5> QED
          BY <1>1, <5>1, PiecesAreEven
      <4>2. PICK h \in Nat : h = sent[c] \div 2 /\ (sent[c] = 2 * h \/ sent[c] = 2 * h + 1)
        BY <1>1, Halves
      <4>3. ASSUME NEW n \in Nat, NEW m \in Nat, 2 * n <= 2 * m \/ 2 * n + 1 <= 2 * m
            PROVE  n <= m
        BY <4>3
      <4>4. h <= Len(Frames[c])
        BY <4>1, <4>2, <4>3
      <4>5. k \in 1..h
        BY <3>1, <4>2
      <4> QED
        BY <4>1, <4>2, <4>4, <4>5
    <3>3. DOMAIN Frames[c] = 1..Len(Frames[c])
      BY ScenariosAssumption DEF Inv, Placed
    <3> QED
      BY <3>1, <3>2, <3>3 DEF Whole
  <2> QED
    BY <1>3, <1>4, <2>1, <2>2, <2>3 DEF OnlyMixingBreaksFrames
<1> QED
  BY <1>10, <1>11

--------------------------------------------------------------------------------
(* The steps *)

LEMMA InitInv == Init => Inv
<1> SUFFICES ASSUME Init PROVE Inv
  OBVIOUS
<1>1. PICK s \in Scenarios : on = s.on /\ source = s.source /\ air = s.air
  BY DEF Init
<1>2. Placed /\ air \in Nat /\ MaxIdle \in Nat
  BY <1>1, ScenariosAssumption DEF Placed, Clients
<1>3. Peers
  <2>1. /\ conn \in [Clients -> {"away", "waiting", "open", "left", "closed"}]
        /\ sent = [c \in Clients |-> 0] /\ got = [c \in Clients |-> 0]
        /\ \A c \in Clients : conn[c] # "closed"
    BY DEF Init
  <2>2. ASSUME NEW c \in Clients PROVE Counts(c)
    <3>1. 0 <= Pieces(c)
      BY <1>2, PiecesAreEven
    <3> QED
      BY <2>1, <3>1 DEF Counts
  <2> QED
    BY <2>1, <2>2 DEF Peers
<1>4. Turns
  BY <1>2 DEF Init, Turns
<1>5. DecodersHold
  <2>1. decoder = [d \in Decoders |-> <<>>] /\ mixed = {} /\ got = [c \in Clients |-> 0]
    BY DEF Init, Decoders
  <2>2. ASSUME NEW d \in Decoders PROVE Held(d)
    <3>1. decoder[d] = <<>> /\ \A c \in Clients : ~Amid(c)
      BY <2>1 DEF Amid
    <3> QED
      BY <3>1 DEF Held, Clean
  <2> QED
    BY <2>1, <2>2 DEF DecodersHold
<1>6. OnlyMixingBreaksFrames /\ OutputsGetTheirFrames
  BY DEF Init, OnlyMixingBreaksFrames, OutputsGetTheirFrames, Nothing
<1> QED
  BY <1>2, <1>3, <1>4, <1>5, <1>6 DEF Inv

(* Whatever a turn looks at has its place in the order of the code.         *)
LEMMA LookedAtInOrder == \A s \in Range(Servers) : s \in Range(Order) /\ s # "audio"
  BY OrderNames, ServerNames

LEMMA DoneShrinks == ASSUME NEW s, Done(s) PROVE todo' \subseteq todo /\ s \notin todo' /\ step' = step
  BY DEF Done

(* Steps that touch neither clients nor decoders.                           *)
LEMMA TurnsOnly ==
  ASSUME Inv, UNCHANGED <<config, peers, input>>, Turns', OutputsGetTheirFrames'
  PROVE  Inv'
<1> USE DEF Inv, input
<1>1. Placed'
  BY NamesStay DEF Placed
<1>2. Peers'
  BY PeersStay
<1>3. DecodersHold' /\ OnlyMixingBreaksFrames'
  BY HeldStays, QueueStays
<1> QED
  BY <1>1, <1>2, <1>3

LEMMA PollInv == Inv /\ Poll => Inv'
<1> SUFFICES ASSUME Inv, Poll PROVE Inv'
  OBVIOUS
<1>1. /\ UNCHANGED <<config, peers, input, air, idle>>
      /\ step' = "serve" /\ routed' = Nothing
  BY DEF Poll
<1>2. PICK audio \in SUBSET (IF air > 0 THEN {"audio"} ELSE {}) :
        todo' = audio \cup (IF ReadyAt("stdin") THEN {"stdin"} ELSE {})
                      \cup {s \in Range(Servers) : LookedAt(s)}
  BY DEF Poll
<1>3. todo' \subseteq Range(Order) /\ ("audio" \in todo' => air > 0)
  BY <1>2, OrderNames, LookedAtInOrder
<1>4. Turns'
  BY <1>1, <1>3 DEF Inv, Turns
<1>5. OutputsGetTheirFrames'
  BY <1>1 DEF OutputsGetTheirFrames, Nothing
<1> QED
  BY <1>1, <1>4, <1>5, TurnsOnly

LEMMA PollFailsInv == Inv /\ PollFails => Inv'
<1> SUFFICES ASSUME Inv, PollFails PROVE Inv'
  OBVIOUS
<1>1. Turns' /\ OutputsGetTheirFrames'
  BY OutputsStay DEF Inv, PollFails, Turns, radio
<1> QED
  BY <1>1, TurnsOnly DEF PollFails

LEMMA IdleCheckInv == Inv /\ IdleCheck => Inv'
<1> SUFFICES ASSUME Inv, IdleCheck PROVE Inv'
  OBVIOUS
<1>1. Turns' /\ OutputsGetTheirFrames'
  BY OutputsStay DEF Inv, IdleCheck, Turns, radio
<1> QED
  BY <1>1, TurnsOnly DEF IdleCheck

LEMMA TickInv == Inv /\ Tick => Inv'
<1> SUFFICES ASSUME Inv, Tick PROVE Inv'
  OBVIOUS
<1>1. idle' \in 0..(MaxIdle + 1)
  <2>1. MaxIdle \in Nat /\ idle \in 0..(MaxIdle + 1) /\ idle <= MaxIdle /\ idle' = idle + 1
    BY ScenariosAssumption DEF Inv, Turns, Tick
  <2> QED
    BY <2>1
<1>2. Turns' /\ OutputsGetTheirFrames'
  BY <1>1, OutputsStay DEF Inv, Tick, Turns, radio
<1> QED
  BY <1>2, TurnsOnly DEF Tick

LEMMA HearNothingInv == Inv /\ HearNothing => Inv'
<1> SUFFICES ASSUME Inv, HearNothing PROVE Inv'
  OBVIOUS
<1>1. Turns' /\ OutputsGetTheirFrames'
  BY OutputsStay, DoneShrinks DEF Inv, HearNothing, Turns, radio
<1> QED
  BY <1>1, TurnsOnly DEF HearNothing

LEMMA ReadsNothingInv == ASSUME Inv, NEW s, ReadsNothing(s) PROVE Inv'
<1>1. Turns' /\ OutputsGetTheirFrames'
  BY OutputsStay, DoneShrinks DEF Inv, ReadsNothing, Turns, radio
<1> QED
  BY <1>1, TurnsOnly DEF ReadsNothing

(* The outputs a frame goes to are those that are on and speak its format.  *)
LEMMA HearInv == ASSUME Inv, NEW kind \in Kinds, Hear(kind) PROVE Inv'
<1>1. /\ UNCHANGED <<config, peers, input>> /\ idle' = 0 /\ air' = air - 1
      /\ routed' = [kind |-> kind, to |-> KissOutputs(kind) \cup Tnc2Outputs(kind)]
      /\ "audio" \in todo /\ Done("audio")
  BY DEF Hear, Now
<1>2. Turns'
  <2>1. air \in Nat /\ air > 0 /\ MaxIdle \in Nat
    BY <1>1, ScenariosAssumption DEF Inv, Turns
  <2> QED
    BY <1>1, <2>1, DoneShrinks DEF Inv, Turns
<1>3. OutputsGetTheirFrames'
  <2>1. routed'.kind = kind /\ routed'.to = KissOutputs(kind) \cup Tnc2Outputs(kind) /\ on' = on
    BY <1>1, NamesStay
  <2>2. routed'.to \subseteq on \cup {"stdout"}
    BY <2>1 DEF KissOutputs, Tnc2Outputs
  <2>3. kind = "packet" => {"stdout"} \cup (on \cap {"tcp_kiss", "tcp_tnc2"}) \subseteq routed'.to
    BY <2>1 DEF KissOutputs, Tnc2Outputs, KissWanted, Tnc2Wanted
  <2>4. kind = "no packet" =>
          (IF "kiss" \in on THEN {"stdout"} ELSE {}) \cup (on \cap {"tcp_kiss"}) \subseteq routed'.to
    BY <2>1 DEF KissOutputs, Tnc2Outputs, KissWanted, Tnc2Wanted
  <2> QED
    BY <2>1, <2>2, <2>3, <2>4 DEF OutputsGetTheirFrames
<1> QED
  BY <1>1, <1>2, <1>3, TurnsOnly

--------------------------------------------------------------------------------
(* The steps of clients, and those that serve one *)

(* What is left when neither bytes nor frames move.                         *)
LEMMA PeersOnly ==
  ASSUME Inv, UNCHANGED <<config, input, radio, idle>>, Peers',
         todo' \subseteq todo, step' = step
  PROVE  Inv'
<1> USE DEF Inv, input, radio
<1>1. Placed'
  BY NamesStay DEF Placed
<1>2. Turns'
  BY DEF Turns
<1>3. DecodersHold' /\ OnlyMixingBreaksFrames' /\ OutputsGetTheirFrames'
  BY HeldStays, QueueStays, OutputsStay
<1> QED
  BY <1>1, <1>2, <1>3

LEMMA ConnectInv == ASSUME Inv, NEW c \in Clients, Connect(c) PROVE Inv'
<1>1. Peers'
  <2>1. /\ conn' = [conn EXCEPT ![c] = "waiting"] /\ sent' = sent /\ got' = got
        /\ UNCHANGED config
    BY DEF Connect, input
  <2>2. Counts(c)'
    BY <2>1, NamesStay DEF Inv, Peers, Counts
  <2> QED
    BY <2>1, <2>2, OnePeer DEF Inv, Peers
<1> QED
  BY <1>1, PeersOnly DEF Connect

LEMMA LeaveInv == ASSUME Inv, NEW c \in Clients, Leave(c) PROVE Inv'
<1>1. Peers'
  <2>1. /\ conn' = [conn EXCEPT ![c] = "left"] /\ sent' = sent /\ got' = got
        /\ UNCHANGED config
    BY DEF Leave, input
  <2>2. Counts(c)'
    BY <2>1, NamesStay DEF Inv, Peers, Counts
  <2> QED
    BY <2>1, <2>2, OnePeer DEF Inv, Peers
<1> QED
  BY <1>1, PeersOnly DEF Leave

(* Two even numbers are two apart, or the same.                             *)
LEMMA Evens ==
  ASSUME NEW n \in Nat, NEW m \in Nat, n % 2 = 0, n < 2 * m
  PROVE  n + 2 <= 2 * m /\ (n + 2) % 2 = 0
<1>1. PICK h \in Nat : n = 2 * h
  BY Halves
<1> QED
  BY <1>1

LEMMA SendInv == ASSUME Inv, NEW c \in Clients, Send(c) PROVE Inv'
<1>1. Peers'
  <2>1. /\ sent[c] < Pieces(c) /\ conn[c] # "closed"
        /\ sent' = [sent EXCEPT ![c] = sent[c] + (IF Transport(source[c]) = "udp" THEN 2 ELSE 1)]
        /\ conn' = conn /\ got' = got /\ UNCHANGED config
    BY DEF Send, input
  <2>2. /\ got[c] \in Nat /\ sent[c] \in Nat /\ Len(Frames[c]) \in Nat
        /\ Pieces(c) = 2 * Len(Frames[c]) /\ Counts(c)
    BY PiecesAreEven DEF Inv, Peers
  <2>3. Counts(c)'
    <3>1. sent'[c] = sent[c] + (IF Transport(source[c]) = "udp" THEN 2 ELSE 1)
      BY <2>1 DEF Inv, Peers
    <3>2. CASE Transport(source[c]) = "udp"
      <4>1. sent[c] + 2 <= Pieces(c) /\ (sent[c] + 2) % 2 = 0 /\ got[c] <= sent[c] + 2
        BY <2>1, <2>2, <3>2, Evens DEF Counts
      <4> QED
        BY <2>1, <2>2, <3>1, <3>2, <4>1, NamesStay DEF Counts
    <3>3. CASE Transport(source[c]) # "udp"
      <4>1. sent[c] + 1 <= Pieces(c) /\ got[c] <= sent[c] + 1
        BY <2>1, <2>2 DEF Counts
      <4> QED
        BY <2>1, <2>2, <3>1, <3>3, <4>1, NamesStay DEF Counts
    <3> QED
      BY <3>2, <3>3
  <2> QED
    BY <2>1, <2>2, <2>3, OnePeer DEF Inv, Peers
<1> QED
  BY <1>1, PeersOnly DEF Send

(* A datagram holds a whole frame, so that no decoder is amid one of it.    *)
LEMMA LoseInv == ASSUME Inv, NEW c \in Clients, Lose(c) PROVE Inv'
<1>1. /\ Transport(source[c]) = "udp" /\ sent[c] < Pieces(c) /\ sent[c] = got[c]
      /\ sent' = [sent EXCEPT ![c] = sent[c] + 2] /\ got' = [got EXCEPT ![c] = got[c] + 2]
      /\ UNCHANGED <<config, conn, step, todo, decoder, mixed, queued, radio, idle>>
  BY DEF Lose
<1>2. /\ got[c] \in Nat /\ sent[c] \in Nat /\ Len(Frames[c]) \in Nat
      /\ Pieces(c) = 2 * Len(Frames[c]) /\ Counts(c)
  BY PiecesAreEven DEF Inv, Peers
<1>3. sent[c] + 2 <= Pieces(c) /\ (sent[c] + 2) % 2 = 0 /\ got[c] % 2 = 0
  BY <1>1, <1>2, Evens DEF Counts
<1>4. sent'[c] = sent[c] + 2 /\ got'[c] = sent[c] + 2
  BY <1>1 DEF Inv, Peers
<1>5. Peers'
  <2>1. Counts(c)'
    BY <1>1, <1>2, <1>3, <1>4, NamesStay DEF Counts
  <2> QED
    BY <1>1, <1>2, <2>1, OnePeer DEF Inv, Peers
<1>6. DecodersHold'
  <2>1. ~Amid(c) /\ ~Amid(c)'
    BY <1>1, <1>3, <1>4 DEF Amid
  <2>2. \A e \in Clients \ {c} : got'[e] = got[e]
    BY <1>1 DEF Inv, Peers
  <2> QED
    BY <1>1, <2>1, <2>2, HeldStays DEF Inv
<1>7. Placed' /\ Turns' /\ OnlyMixingBreaksFrames' /\ OutputsGetTheirFrames'
  BY <1>1, NamesStay, QueueStays, OutputsStay DEF Inv, Placed, Turns, radio
<1> QED
  BY <1>5, <1>6, <1>7 DEF Inv

LEMMA AcceptInv == ASSUME Inv, NEW c \in Clients, Accept(c) PROVE Inv'
<1>1. Peers'
  <2>1. /\ conn' = [conn EXCEPT ![c] = "open"] /\ sent' = sent /\ got' = got
        /\ UNCHANGED config
    BY DEF Accept, input
  <2>2. Counts(c)'
    BY <2>1, NamesStay DEF Inv, Peers, Counts
  <2> QED
    BY <2>1, <2>2, OnePeer DEF Inv, Peers
<1>2. todo' \subseteq todo /\ step' = step
  BY DEF Accept, Done
<1> QED
  BY <1>1, <1>2, PeersOnly DEF Accept

LEMMA CloseInv == ASSUME Inv, NEW c \in Clients, Close(c) PROVE Inv'
<1>1. Peers'
  <2>1. /\ conn' = [conn EXCEPT ![c] = "closed"] /\ sent' = sent /\ got' = got
        /\ sent[c] = got[c] /\ UNCHANGED config
    BY DEF Close, input
  <2>2. Counts(c)'
    BY <2>1, NamesStay DEF Inv, Peers, Counts
  <2> QED
    BY <2>1, <2>2, OnePeer DEF Inv, Peers
<1>2. todo' \subseteq todo /\ step' = step
  BY DEF Close, Done
<1> QED
  BY <1>1, <1>2, PeersOnly DEF Close

LEMMA ReadInv == ASSUME Inv, NEW c \in Clients, Read(c) PROVE Inv'
<1>1. /\ got[c] < sent[c] /\ Feed(c) /\ Done(source[c])
      /\ UNCHANGED <<config, conn, sent, radio, idle>>
  <2>1. sent[c] > got[c] /\ Feed(c) /\ Done(source[c]) /\ UNCHANGED <<config, peers, radio, idle>>
    BY DEF Read
  <2>2. got[c] \in Nat /\ sent[c] \in Nat
    BY DEF Inv, Peers
  <2> QED
    BY <2>1, <2>2 DEF peers
<1>2. DecodersHold' /\ OnlyMixingBreaksFrames'
  BY <1>1, FeedInv
<1>3. Peers'
  <2>1. got' = [got EXCEPT ![c] = sent[c]]
    BY <1>1 DEF Feed
  <2>2. Counts(c)'
    BY <1>1, <2>1, NamesStay DEF Inv, Peers, Counts
  <2> QED
    BY <1>1, <2>1, <2>2, OnePeer DEF Inv, Peers
<1>4. todo' \subseteq todo /\ step' = step
  BY <1>1, DoneShrinks
<1>5. Placed' /\ Turns' /\ OutputsGetTheirFrames'
  BY <1>1, <1>4, NamesStay, OutputsStay DEF Inv, Placed, Turns, radio
<1> QED
  BY <1>2, <1>3, <1>5 DEF Inv

LEMMA StutterInv == Inv /\ UNCHANGED vars => Inv'
<1> SUFFICES ASSUME Inv, UNCHANGED vars PROVE Inv'
  OBVIOUS
<1>1. Turns' /\ OutputsGetTheirFrames'
  BY OutputsStay DEF Inv, vars, Turns, radio
<1> QED
  BY <1>1, TurnsOnly DEF vars

LEMMA NextInv == Inv /\ [Next]_vars => Inv'
<1> SUFFICES ASSUME Inv, [Next]_vars PROVE Inv'
  OBVIOUS
<1>1. CASE Turn
  <2>1. CASE \E c \in Clients : Serve(c)
    BY <2>1, ReadInv, AcceptInv, CloseInv DEF Serve
  <2>2. CASE \E k \in Kinds : Hear(k)
    BY <2>2, HearInv
  <2>3. CASE \E s \in Range(Order) : ReadsNothing(s)
    BY <2>3, ReadsNothingInv
  <2> QED
    BY <1>1, <2>1, <2>2, <2>3, PollInv, IdleCheckInv, HearNothingInv DEF Turn
<1>2. CASE Tick \/ PollFails
  BY <1>2, TickInv, PollFailsInv
<1>3. CASE \E c \in Clients : Connect(c) \/ Send(c) \/ Lose(c) \/ Leave(c)
  BY <1>3, ConnectInv, SendInv, LoseInv, LeaveInv
<1>4. CASE UNCHANGED vars
  BY <1>4, StutterInv
<1> QED
  BY <1>1, <1>2, <1>3, <1>4 DEF Next

(* With any clients, frames and options: a decoder in which nothing got     *)
(* mixed is where its client is, and the counts of clients agree with what  *)
(* they sent.                                                               *)
THEOREM LoopInvariant == Spec => []Inv
  BY InitInv, NextInv, PTL DEF Spec

--------------------------------------------------------------------------------
(* What follows *)

(* Types and counts of loop_run, for any number of clients and frames.      *)
THEOREM LoopTypeCorrect == Spec => []TypeOK
<1>1. ASSUME Inv PROVE TypeOK
  <2>1. DOMAIN decoder = Decoders
    BY <1>1 DEF Inv, DecodersHold
  <2>2. ASSUME NEW d \in Decoders, d \notin mixed PROVE Len(decoder[d]) <= 2
    <3>1. Clean(d)
      BY <1>1, <2>2 DEF Inv, DecodersHold, Held
    <3>2. CASE decoder[d] = <<>>
      BY <3>2
    <3>3. CASE decoder[d] # <<>>
      <4>1. PICK c \in Clients : decoder[d] = <<Data(c, got[c])>>
        BY <3>1, <3>3 DEF Clean
      <4> QED
        BY <4>1
    <3> QED
      BY <3>2, <3>3
  <2>3. ASSUME NEW c \in Clients
        PROVE  /\ conn[c] \in {"away", "waiting", "open", "left", "closed"}
               /\ 0 <= got[c] /\ got[c] <= sent[c] /\ sent[c] <= Pieces(c)
               /\ conn[c] = "closed" => got[c] = sent[c]
    BY <1>1 DEF Inv, Peers, Counts
  <2> QED
    BY <1>1, <2>1, <2>2, <2>3 DEF Inv, Turns, DecodersHold, TypeOK
<1> QED
  BY <1>1, LoopInvariant, PTL

(* kiss_decoder_process and line_reader_process over what process_*_input   *)
(* read, turn by turn: what goes on the air is a frame of one client, whole *)
(* and unaltered, unless two clients shared a decoder amid a frame.         *)
THEOREM FramesOfClientsStayWhole == Spec => []OnlyMixingBreaksFrames
<1>1. Inv => OnlyMixingBreaksFrames
  BY DEF Inv
<1> QED
  BY <1>1, LoopInvariant, PTL

(* audio_input_callback, for every combination of options.                  *)
THEOREM OutputsAreServed == Spec => []OutputsGetTheirFrames
<1>1. Inv => OutputsGetTheirFrames
  BY DEF Inv
<1> QED
  BY <1>1, LoopInvariant, PTL
================================================================================
