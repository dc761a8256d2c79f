-------------------------------- MODULE MCStartup ------------------------------
(***************************************************************************)
(* All combinations of the arguments that steer main, with one server of   *)
(* each kind; and a file that sets, and unsets, options of every kind      *)
(* which the arguments set or leave.                                       *)
(***************************************************************************)
EXTENDS Startup, TLC

Steering == SUBSET {"list", "noop", "dev_name", "dev_input", "dev_output"}
Network == {{}, {"tcp_kiss_port", "udp_kiss_addr", "udp_kiss_port", "gain_2200"},
            {"tcp_tnc2_port", "udp_kiss_listen_port", "uds_kiss_socket_path", "exit_idle_s"},
            {"udp_tnc2_addr", "udp_tnc2_port", "udp_tnc2_listen_port", "uds_tnc2_socket_path"}}

Files == {"dev_input" :> i @@ "kiss" :> i @@ "rate" :> r @@ "tcp_kiss_port" :> 2
            @@ "dev_name" :> 2 @@ "uds_kiss_socket_path" :> 2 @@ "exit_idle_s" :> 2 :
          i \in {0, 2}, r \in {0, 2}}

MCSettings ==
  [args : {a \cup n : a \in Steering, n \in Network}, file : {<<>>}] \cup
  [args : SUBSET {"dev_input", "kiss", "rate", "dev_name", "tcp_kiss_port", "tx_tail"},
   file : Files]
================================================================================
