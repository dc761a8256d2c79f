---------------------------------- MODULE Loop ---------------------------------
(***************************************************************************)
(* The event loop of src/src/loop.c: what poll reports, the servers that   *)
(* are listened to in turn, the frames that clients send and the decoders  *)
(* they share, the way of a received frame to the outputs, and the exit    *)
(* after a time without reception.  The way of a frame from here to the    *)
(* air is module Transmit.                                                 *)
(*                                                                         *)
(* A frame is sent in two pieces (a KISS frame begins and ends with FEND,  *)
(* a line ends with LF), and pieces come to the program one by one or      *)
(* together.  libcomm's servers do not block; one call accepts a waiting   *)
(* client, reads from one client, or notices that one has left.            *)
(***************************************************************************)
EXTENDS Integers, Sequences, Functions

CONSTANTS
  Scenarios,  \* what is enabled, where each client sends, and how many
              \* frames come from the air
  Frames,     \* client -> the kinds of its frames: "packet" or "foreign"
  MaxIdle     \* seconds without reception before the program ends

Servers == <<"tcp_kiss", "tcp_tnc2", "udp_kiss_listen", "udp_tnc2_listen",
             "uds_kiss", "uds_tnc2">>
KissServers == {"tcp_kiss", "udp_kiss_listen", "uds_kiss"}

Transport(s) == IF s \in {"tcp_kiss", "tcp_tnc2"} THEN "tcp"
                ELSE IF s \in {"udp_kiss_listen", "udp_tnc2_listen"} THEN "udp"
                ELSE IF s \in {"uds_kiss", "uds_tnc2"} THEN "uds"
                ELSE "stdin"

ASSUME ScenariosAssumption ==
  /\ \A s \in Scenarios : /\ DOMAIN s.source \subseteq DOMAIN Frames /\ s.air \in Nat
                         /\ \A c \in DOMAIN s.source : s.source[c] \in {"stdin"} \cup Range(Servers)
  /\ \A c \in DOMAIN Frames : Frames[c] \in Seq({"packet", "foreign"})
  /\ MaxIdle \in Nat

VARIABLES
  on,       \* the options that are on; does not change
  source,   \* client -> where it sends; does not change
  step,     \* where loop_run is
  todo,     \* what this turn still has to look at
  conn,     \* client -> state of its connection
  sent,     \* client -> pieces sent
  got,      \* client -> pieces read by the program
  decoder,  \* decoder -> the bytes of its unfinished frame
  mixed,    \* decoders that got bytes of one client amid a frame of another
  queued,   \* the frames handed to modulate_and_transmit
  air,      \* frames still to come from the air
  routed,   \* the last of them, and the outputs that got it
  idle      \* seconds since the last one

config == <<on, source>>
peers == <<conn, sent>>
input == <<got, decoder, mixed, queued>>
radio == <<air, routed>>
vars == <<config, step, todo, peers, input, radio, idle>>

Clients == DOMAIN source
Nothing == [kind |-> "none", to |-> {}]
Pieces(c) == 2 * Len(Frames[c])

Init ==
  /\ \E s \in Scenarios : on = s.on /\ source = s.source /\ air = s.air
  /\ step = "poll" /\ todo = {}
  /\ conn = [c \in Clients |-> IF Transport(source[c]) \in {"stdin", "udp"}
                               THEN "open" ELSE "away"]
  /\ sent = [c \in Clients |-> 0] /\ got = [c \in Clients |-> 0]
  /\ decoder = [d \in {"kiss", "stdin", "tcp", "udp", "uds"} |-> <<>>]
  /\ mixed = {} /\ queued = {}
  /\ routed = Nothing /\ idle = 0

--------------------------------------------------------------------------------
(* Clients *)

Connect(c) == /\ conn[c] = "away"
              /\ conn' = [conn EXCEPT ![c] = "waiting"]
              /\ UNCHANGED <<config, step, todo, sent, input, radio, idle>>

(* A stream carries one piece or more at a time, also before the connection *)
(* is accepted; a datagram carries a whole frame.                           *)
Send(c) ==
  /\ conn[c] \in {"waiting", "open"} /\ sent[c] < Pieces(c)
  /\ sent' = [sent EXCEPT ![c] = @ + (IF Transport(source[c]) = "udp" THEN 2 ELSE 1)]
  /\ UNCHANGED <<config, step, todo, conn, input, radio, idle>>

(* A datagram is lost. *)
Lose(c) ==
  /\ Transport(source[c]) = "udp" /\ sent[c] < Pieces(c) /\ sent[c] = got[c]
  /\ sent' = [sent EXCEPT ![c] = @ + 2] /\ got' = [got EXCEPT ![c] = @ + 2]
  /\ UNCHANGED <<config, step, todo, conn, decoder, mixed, queued, radio, idle>>

(* A client leaves at any time, a frame of its perhaps unfinished; on       *)
(* standard input that is the end of the file.                              *)
Leave(c) == /\ conn[c] = "open" /\ Transport(source[c]) # "udp"
            /\ conn' = [conn EXCEPT ![c] = "left"]
            /\ UNCHANGED <<config, step, todo, sent, input, radio, idle>>

--------------------------------------------------------------------------------
(* Decoders *)

(* One KISS decoder for everything; one line reader for each transport.     *)
Decoder(c) == LET s == source[c] IN
  IF s \in KissServers \/ (s = "stdin" /\ "kiss" \in on) THEN "kiss" ELSE Transport(s)

Data(c, i) == [from |-> c, n |-> i]
Frame(c, k) == <<Data(c, 2 * k - 1), Data(c, 2 * k)>>

(* What of its frame k client c has sent and the program has not read.      *)
Part(c, k) == IF 2 * k - 1 <= got[c] THEN <<Data(c, 2 * k)>>
              ELSE IF sent[c] < 2 * k THEN <<Data(c, 2 * k - 1)>>
              ELSE Frame(c, k)

(* The first of these bytes is a FEND, which ends whatever came before it;  *)
(* a line has no delimiter at its beginning, and becomes part of the last.  *)
EndsLast(c) == Decoder(c) = "kiss" /\ got[c] % 2 = 0

Line(held, c, k) ==
  IF k = got[c] \div 2 + 1 /\ ~EndsLast(c) THEN held \o Part(c, k) ELSE Part(c, k)

(* kiss_decoder_process and line_reader_process of libtnc over all of it,   *)
(* with an unfinished frame held from before: the frames that are done, and *)
(* the unfinished one.                                                      *)
Decoded(held, c) ==
  (IF EndsLast(c) THEN {held} \ {<<>>} ELSE {}) \cup
  {Line(held, c, k) : k \in (got[c] \div 2 + 1)..(sent[c] \div 2)}

Unfinished(held, c) ==
  IF sent[c] % 2 = 0 THEN <<>> ELSE Line(held, c, sent[c] \div 2 + 1)

(* kiss_input_callback and tnc2_input_callback drop KISS commands, other    *)
(* ports and lines that are no packets.                                     *)
Dropped(f) == \E c \in Clients : \E k \in DOMAIN Frames[c] :
                Frames[c][k] = "foreign" /\ f = Frame(c, k)

(* The decoder is amid a frame of another client.                           *)
Mixes(c) == LET held == decoder[Decoder(c)] IN \E i \in DOMAIN held : held[i].from # c

(* Fault: the decoder is initialised before each read. *)
FeedAfresh(c) ==
  LET d == Decoder(c) IN
  /\ queued' = queued \cup {f \in Decoded(<<>>, c) : ~Dropped(f)}
  /\ decoder' = [decoder EXCEPT ![d] = Unfinished(<<>>, c)]
  /\ mixed' = mixed \cup (IF Mixes(c) THEN {d} ELSE {})
  /\ got' = [got EXCEPT ![c] = sent[c]]

(* What client c has sent is read and goes through the decoder.             *)
Feed(c) ==
  LET d == Decoder(c) IN
  /\ queued' = queued \cup {f \in Decoded(decoder[d], c) : ~Dropped(f)}
  /\ decoder' = [decoder EXCEPT ![d] = Unfinished(@, c)]
  /\ mixed' = mixed \cup (IF Mixes(c) THEN {d} ELSE {})
  /\ got' = [got EXCEPT ![c] = sent[c]]

--------------------------------------------------------------------------------
(* A turn of the loop *)

Ready(c) == \/ conn[c] = "waiting" \/ conn[c] = "left"
            \/ conn[c] = "open" /\ sent[c] > got[c]
ReadyAt(t) == \E c \in Clients : Transport(source[c]) = t /\ Ready(c)

(* Fault: the second server of a transport is asked only without the first. *)
LookedAtInstead(s) ==
  /\ s \in on
  /\ ReadyAt(Transport(s))
  /\ s \in KissServers \/ ~\E s2 \in on \cap KissServers : Transport(s2) = Transport(s)

(* The descriptor of a server that is not enabled is 0, so that input on    *)
(* stdin counts for the other server of its transport too.                  *)
LookedAt(s) ==
  /\ s \in on
  /\ \/ ReadyAt(Transport(s))
     \/ /\ ReadyAt("stdin")
        /\ \E s2 \in Range(Servers) : Transport(s2) = Transport(s) /\ s2 \notin on

(* The poller returns what is ready, or its timeout is over.  After EINTR   *)
(* the loop is back here with nothing changed.  Samples are left out once   *)
(* no more frames are to come.                                              *)
Poll ==
  /\ step = "poll"
  /\ \E audio \in SUBSET (IF air > 0 THEN {"audio"} ELSE {}) :
       todo' = audio \cup (IF ReadyAt("stdin") THEN {"stdin"} ELSE {})
                     \cup {s \in Range(Servers) : LookedAt(s)}
  /\ step' = "serve" /\ routed' = Nothing
  /\ UNCHANGED <<config, peers, input, air, idle>>

(* Any error of the poller but EINTR ends the program.                      *)
PollFails ==
  /\ step = "poll"
  /\ step' = "exited"
  /\ UNCHANGED <<config, todo, peers, input, radio, idle>>

Order == <<"audio", "stdin">> \o Servers
Now(s) == /\ step = "serve" /\ s \in todo
          /\ \A i \in DOMAIN Order : Order[i] \in todo =>
               \E j \in DOMAIN Order : Order[j] = s /\ j <= i
Done(s) == todo' = todo \ {s} /\ UNCHANGED step

(* read(0) or a call of tcp_, udp_ or uds_server_listen reads from one      *)
(* client.                                                                  *)
Read(c) ==
  /\ Now(source[c])
  /\ conn[c] \in {"open", "left"} /\ sent[c] > got[c]
  /\ Feed(c)
  /\ Done(source[c])
  /\ UNCHANGED <<config, peers, radio, idle>>

(* The call accepts a client (tcp_client_connect_cb, uds_client_connect_cb) *)
(* or closes the connection of one that has left; the poller follows.       *)
Accept(c) ==
  /\ Now(source[c]) /\ conn[c] = "waiting"
  /\ conn' = [conn EXCEPT ![c] = "open"]
  /\ Done(source[c])
  /\ UNCHANGED <<config, sent, input, radio, idle>>

(* Fault: the connection is closed with bytes of the client still unread.   *)
CloseUnread(c) ==
  /\ Now(source[c]) /\ source[c] # "stdin"
  /\ conn[c] = "left"
  /\ conn' = [conn EXCEPT ![c] = "closed"]
  /\ Done(source[c])
  /\ UNCHANGED <<config, sent, input, radio, idle>>

Close(c) ==
  /\ Now(source[c]) /\ source[c] # "stdin"
  /\ conn[c] = "left" /\ sent[c] = got[c]
  /\ conn' = [conn EXCEPT ![c] = "closed"]
  /\ Done(source[c])
  /\ UNCHANGED <<config, sent, input, radio, idle>>

(* Nothing there for this server, or standard input is at its end.          *)
ReadsNothing(s) ==
  /\ Now(s) /\ s # "audio"
  /\ ~\E c \in Clients : /\ source[c] = s /\ Ready(c)
                         /\ s = "stdin" => sent[c] > got[c]
  /\ Done(s)
  /\ UNCHANGED <<config, peers, input, radio, idle>>

--------------------------------------------------------------------------------
(* Received frames: audio_input_callback *)

(* Kinds of frames: an AX.25 packet; a frame that does not unpack, or whose *)
(* text does not fit; one whose KISS encoding does not fit.                 *)
Kinds == {"packet", "no packet", "too long"}

KissWanted == on \cap {"kiss", "tcp_kiss"} # {}
Tnc2Wanted == "kiss" \notin on \/ "tcp_tnc2" \in on

(* Fault: text is made first, and a frame that has none ends the callback. *)
KissOutputsAfterText(kind) ==
  IF KissWanted /\ kind = "packet"
  THEN (IF "kiss" \in on THEN {"stdout"} ELSE {})
       \cup (on \cap {"tcp_kiss", "udp_kiss", "uds_kiss"})
  ELSE {}

(* The outputs in KISS format, and those in TNC2 format, which come second: *)
(* any failure on the way returns.                                          *)
KissOutputs(kind) ==
  IF KissWanted /\ kind # "too long"
  THEN (IF "kiss" \in on THEN {"stdout"} ELSE {})
       \cup (on \cap {"tcp_kiss", "udp_kiss", "uds_kiss"})
  ELSE {}

Tnc2Outputs(kind) ==
  IF Tnc2Wanted /\ kind # "no packet" /\ ~(KissWanted /\ kind = "too long")
  THEN (IF "kiss" \in on THEN {} ELSE {"stdout"})
       \cup (on \cap {"tcp_tnc2", "udp_tnc2", "uds_tnc2"})
  ELSE {}

Hear(kind) ==
  /\ Now("audio")
  /\ air' = air - 1
  /\ routed' = [kind |-> kind, to |-> KissOutputs(kind) \cup Tnc2Outputs(kind)]
  /\ idle' = 0
  /\ Done("audio")
  /\ UNCHANGED <<config, peers, input>>

(* No frame in these samples, or squelch let none of them through.          *)
HearNothing ==
  /\ Now("audio")
  /\ Done("audio")
  /\ UNCHANGED <<config, peers, input, radio, idle>>

--------------------------------------------------------------------------------
(* The end of a turn *)

(* Fault: the time is looked at only in turns in which nothing was ready.   *)
IdleCheckWhenQuiet ==
  /\ step = "serve" /\ todo = {}
  /\ step' = IF idle > MaxIdle /\ ~\E t \in {"stdin", "tcp", "udp", "uds"} : ReadyAt(t)
             THEN "exited" ELSE "poll"
  /\ UNCHANGED <<config, todo, peers, input, radio, idle>>

(* EXITIF: without the option the limit is LONG_MAX, here idle stays 0.     *)
IdleCheck ==
  /\ step = "serve" /\ todo = {}
  /\ step' = IF idle > MaxIdle THEN "exited" ELSE "poll"
  /\ UNCHANGED <<config, todo, peers, input, radio, idle>>

Tick ==
  /\ "exit_idle" \in on /\ idle <= MaxIdle /\ step # "exited"
  /\ idle' = idle + 1
  /\ UNCHANGED <<config, step, todo, peers, input, radio>>

Serve(c) == Read(c) \/ Accept(c) \/ Close(c)

Turn == \/ Poll \/ IdleCheck \/ HearNothing
        \/ \E k \in Kinds : Hear(k)
        \/ \E s \in Range(Order) : ReadsNothing(s)
        \/ \E c \in Clients : Serve(c)

Next == \/ Turn \/ Tick \/ PollFails
        \/ \E c \in Clients : Connect(c) \/ Send(c) \/ Lose(c) \/ Leave(c)

(* The loop goes on, time passes, and libcomm serves every client of a      *)
(* server that is called again and again.                                   *)
Fairness == /\ WF_vars(Turn) /\ WF_vars(Tick)
            /\ \A c \in DOMAIN Frames : SF_vars(c \in Clients /\ Serve(c))

Spec == Init /\ [][Next]_vars /\ Fairness

--------------------------------------------------------------------------------
(* Properties *)

(* Every variable keeps its type; a client gets no further than it sent,    *)
(* and a decoder never holds more than what clients have begun.             *)
TypeOK ==
  /\ step \in {"poll", "serve", "exited"} /\ todo \subseteq Range(Order)
  /\ \A c \in Clients :
       /\ conn[c] \in {"away", "waiting", "open", "left", "closed"}
       /\ 0 <= got[c] /\ got[c] <= sent[c] /\ sent[c] <= Pieces(c)
       /\ conn[c] = "closed" => got[c] = sent[c]
  /\ \A d \in DOMAIN decoder : Len(decoder[d]) <= 2 \/ d \in mixed
  /\ mixed \subseteq DOMAIN decoder
  /\ air \in Nat /\ idle \in 0..(MaxIdle + 1)

Whole(f) == \E c \in Clients : \E k \in DOMAIN Frames[c] : f = Frame(c, k)

(* A frame that goes on the air is one that a client sent, from its first   *)
(* byte to its last, however the pieces of several clients arrive in        *)
(* several turns.  The exception is the sharing: bytes of a second client   *)
(* on the same decoder while a frame of the first is unfinished, also when  *)
(* the first has left.                                                      *)
OnlyMixingBreaksFrames ==
  \A f \in queued : Whole(f) \/ \E i \in DOMAIN f : Decoder(f[i].from) \in mixed

(* Every frame sent in full is queued for transmission in the end, after    *)
(* its client has left, with standard input at its end or interrupted, and  *)
(* with any other server enabled or not.  Lost are datagrams, frames that   *)
(* are no packets, those on a decoder where frames got mixed, and those     *)
(* that come after the exit.                                                *)
FramesAreQueued ==
  \A c \in DOMAIN Frames : \A k \in DOMAIN Frames[c] :
    (c \in Clients /\ Transport(source[c]) # "udp" /\ Frames[c][k] = "packet"
       /\ sent[c] >= 2 * k)
    ~> (Frame(c, k) \in queued \/ (c \in Clients /\ Decoder(c) \in mixed)
        \/ step = "exited")

(* With exit-idle the program does end when the channel has fallen silent,  *)
(* whatever clients do and although standard input is always ready after    *)
(* its end.                                                                 *)
IdleProgramExits == "exit_idle" \in on => <>(step = "exited")

(* A packet reaches standard output and every TCP server that is enabled,   *)
(* in any combination of options; nothing that is not enabled gets it; and  *)
(* KISS outputs, which need not understand a frame, get those too that are  *)
(* no packets.                                                              *)
OutputsGetTheirFrames ==
  /\ routed.to \subseteq on \cup {"stdout"}
  /\ routed.kind = "packet" =>
       {"stdout"} \cup (on \cap {"tcp_kiss", "tcp_tnc2"}) \subseteq routed.to
  /\ routed.kind = "no packet" =>
       (IF "kiss" \in on THEN {"stdout"} ELSE {}) \cup (on \cap {"tcp_kiss"})
         \subseteq routed.to

(* README.md:91 says of --udp-kiss-addr: "Send received packets via UDP     *)
(* (KISS)".                                                                 *)
UdpKissIsSent ==
  routed.kind = "packet" /\ "udp_kiss" \in on => "udp_kiss" \in routed.to
================================================================================
