--------------------------------- MODULE MCLoop --------------------------------
(***************************************************************************)
(* Scenarios: every combination of output options without clients; three   *)
(* groups of clients that share decoders; and the exit after idling with   *)
(* standard input at its end.  Client b sends a frame that is no packet    *)
(* before its packet.                                                      *)
(***************************************************************************)
EXTENDS Loop, TLC

Outputs == {"kiss", "tcp_kiss", "tcp_tnc2", "udp_kiss", "udp_tnc2", "uds_kiss", "uds_tnc2"}

MCFrames == "a" :> <<"packet">> @@ "b" :> <<"foreign", "packet">> @@ "c" :> <<"packet">>

With(options, sources, n) == [on |-> options, source |-> sources, air |-> n]

MCScenarios ==
  {With(o, <<>>, 1) : o \in SUBSET Outputs} \cup {
   With({"kiss", "tcp_kiss"}, "a" :> "stdin" @@ "c" :> "tcp_kiss", 0),
   With({"tcp_kiss", "udp_kiss_listen", "uds_kiss"},
        "a" :> "tcp_kiss" @@ "b" :> "udp_kiss_listen" @@ "c" :> "uds_kiss", 0),
   With({"tcp_tnc2", "uds_tnc2"}, "a" :> "tcp_tnc2" @@ "b" :> "tcp_tnc2", 0),
   With({"uds_kiss", "uds_tnc2"}, "a" :> "uds_kiss" @@ "c" :> "uds_tnc2", 0),
   With({"exit_idle", "udp_tnc2_listen"}, "a" :> "stdin" @@ "c" :> "udp_tnc2_listen", 1)}
================================================================================
