--------------------------------- MODULE Startup -------------------------------
(***************************************************************************)
(* From the command line to the event loop and out again: the options and  *)
(* where their values come from (src/src/options*.c), main, miniwolf_init  *)
(* and miniwolf_free, the opening and starting of the sound device, what   *)
(* fails on the way, and the service manager that starts the program again *)
(* after a failure (src/systemd/miniwolf.service).                         *)
(*                                                                         *)
(* The value of an option is the place it comes from: 0 unset or off, 1    *)
(* from an argument, 2 from the file, 3 the default.                       *)
(***************************************************************************)
EXTENDS Integers, Sequences, FiniteSets

CONSTANTS
  Settings,   \* arguments and files: [args : set of options,
              \*                       file : option -> 0 or 2]
  MaxFaults   \* bound: calls that fail

Flags == {"list", "noop", "kiss", "dev_input", "dev_output"}
Strings == {"dev_name", "udp_kiss_addr", "udp_tnc2_addr",
            "uds_kiss_socket_path", "uds_tnc2_socket_path"}
Numbers == {"rate", "tcp_kiss_port", "tcp_tnc2_port", "udp_kiss_port", "udp_tnc2_port",
            "udp_kiss_listen_port", "udp_tnc2_listen_port",
            "squelch", "gain_2200", "tx_delay", "tx_tail"}
ArgumentsOnly == {"log_level", "exit_idle_s"}
Options == Flags \cup Strings \cup Numbers \cup ArgumentsOnly

ASSUME SettingsAssumption ==
  /\ MaxFaults \in Nat
  /\ \A s \in Settings : /\ s.args \subseteq Options /\ DOMAIN s.file \subseteq Options
                          /\ \A o \in DOMAIN s.file : s.file[o] \in {0, 2}

VARIABLES
  setting,   \* the arguments and the file; the same at every start
  step,      \* what main does next
  opts,      \* the options
  todo,      \* servers not yet looked at
  held,      \* what has been made: devices, ring, poller, modem, servers
  enabled,   \* the servers and senders whose flag is set
  watched,   \* what the poller watches
  unwatched, \* what it refused to watch, which nobody noticed
  refused,   \* servers whose initialisation failed
  misfreed,  \* what was freed without having been made
  status,    \* of the process
  faults     \* how many calls failed

process == <<opts, todo, held, enabled, watched, unwatched, refused, misfreed>>
vars == <<setting, step, process, status, faults>>

(* The servers in the order of miniwolf_init, and the options each needs.   *)
Servers == <<"tcp_kiss", "tcp_tnc2", "udp_kiss", "udp_tnc2",
             "udp_kiss_listen", "udp_tnc2_listen", "uds_kiss", "uds_tnc2">>
Needs(s) == CASE s = "tcp_kiss" -> {"tcp_kiss_port"}
              [] s = "tcp_tnc2" -> {"tcp_tnc2_port"}
              [] s = "udp_kiss" -> {"udp_kiss_addr", "udp_kiss_port"}
              [] s = "udp_tnc2" -> {"udp_tnc2_addr", "udp_tnc2_port"}
              [] s = "udp_kiss_listen" -> {"udp_kiss_listen_port"}
              [] s = "udp_tnc2_listen" -> {"udp_tnc2_listen_port"}
              [] s = "uds_kiss" -> {"uds_kiss_socket_path"}
              [] s = "uds_tnc2" -> {"uds_tnc2_socket_path"}
Senders == {"udp_kiss", "udp_tnc2"}
AllServers == {Servers[i] : i \in 1..Len(Servers)}

Set(o) == opts[o] # 0

(* A new process: opts_init and the zeroed g_miniwolf.                      *)
Fresh == /\ opts = [o \in Options |-> 0]
         /\ todo = Servers /\ held = {} /\ enabled = {}
         /\ watched = {} /\ unwatched = {} /\ refused = {} /\ misfreed = {}

Init == /\ setting \in Settings /\ step = "args" /\ Fresh
        /\ status = "running" /\ faults = 0

--------------------------------------------------------------------------------
Go(next) == step' = next /\ UNCHANGED <<setting, status, faults>>

(* EXIT: the process ends with a failure, nothing is freed.                 *)
Quit == /\ step' = "exited" /\ status' = "failure"
        /\ UNCHANGED <<setting, process>>

Fail(at) == /\ step \in at /\ faults < MaxFaults
            /\ faults' = faults + 1
            /\ Quit

(* Options *)

ParseArgs ==
  /\ step = "args"
  /\ opts' = [o \in Options |-> IF o \in setting.args THEN 1 ELSE 0]
  /\ Go("file")
  /\ UNCHANGED <<todo, held, enabled, watched, unwatched, refused, misfreed>>

(* Fault: what the file does not name falls back to nothing, not to the     *)
(* value so far.                                                            *)
FromFileOrZero(o) ==
  IF o \in ArgumentsOnly \/ (o \in Strings /\ Set(o)) THEN opts[o]
  ELSE IF o \in DOMAIN setting.file THEN setting.file[o] ELSE 0

(* What the file names replaces flags and numbers; strings only if empty.   *)
FromFile(o) ==
  IF o \notin DOMAIN setting.file \/ o \in ArgumentsOnly \/ (o \in Strings /\ Set(o))
  THEN opts[o] ELSE setting.file[o]

(* Without a file (here: one that names nothing) this does nothing.         *)
ParseFile ==
  /\ step = "file"
  /\ opts' = [o \in Options |-> FromFile(o)]
  /\ Go("defaults")
  /\ UNCHANGED <<todo, held, enabled, watched, unwatched, refused, misfreed>>

Defaulted == {"rate", "tx_delay", "tx_tail", "exit_idle_s"}

Defaults ==
  /\ step = "defaults"
  /\ opts' = [o \in Options |-> IF o \in Defaulted /\ ~Set(o) THEN 3 ELSE opts[o]]
  /\ Go("ring")
  /\ UNCHANGED <<todo, held, enabled, watched, unwatched, refused, misfreed>>

--------------------------------------------------------------------------------
(* The sound device *)

Make(thing) == /\ held' = held \cup {thing}
               /\ UNCHANGED <<opts, todo, enabled, watched, unwatched, refused, misfreed>>

(* aud_initialize; then --list leaves, and no device name is the end.       *)
MakeRing ==
  /\ step = "ring"
  /\ Make("ring")
  /\ Go(IF Set("list") THEN "nice exit"
        ELSE IF Set("dev_name") THEN "capture" ELSE "no device")

NoDevice == /\ step = "no device"
            /\ Quit /\ UNCHANGED faults

(* aud_pcm_open and aud_hw_params_apply for each direction that is asked    *)
(* for.  The first four settings of the device may fail unnoticed, which is *)
(* no different from success here.                                          *)
OpenCapture ==
  /\ step = "capture"
  /\ IF Set("dev_input") THEN Make("capture") ELSE UNCHANGED process
  /\ Go("playback")

OpenPlayback ==
  /\ step = "playback"
  /\ IF Set("dev_output") THEN Make("playback") ELSE UNCHANGED process
  /\ Go("poller")

(* aud_configure closes what it opened before main gives up.                *)
OpenFails ==
  /\ \/ step = "capture" /\ Set("dev_input")
     \/ step = "playback" /\ Set("dev_output")
  /\ faults < MaxFaults /\ faults' = faults + 1
  /\ step' = "exited" /\ status' = "failure"
  /\ held' = held \ {"capture", "playback"}
  /\ UNCHANGED <<setting, opts, todo, enabled, watched, unwatched, refused, misfreed>>

--------------------------------------------------------------------------------
(* miniwolf_init *)

(* Without capture the descriptor is -1: it passes the test for zero, and   *)
(* the poller refuses it.                                                   *)
MakePoller ==
  /\ step = "poller" /\ "capture" \in held
  /\ held' = held \cup {"poller"} /\ watched' = {"capture"}
  /\ UNCHANGED <<opts, todo, enabled, unwatched, refused, misfreed>>
  /\ Go("servers")

PollerRefuses == /\ step = "poller" /\ "capture" \notin held
                 /\ Quit /\ UNCHANGED faults

(* socket_poller_add for what is not the capture stream: nobody looks at    *)
(* what it answers.                                                         *)
Watch(source) ==
  \/ /\ watched' = watched \cup {source}
     /\ UNCHANGED <<unwatched, faults>>
  \/ /\ faults < MaxFaults /\ faults' = faults + 1
     /\ unwatched' = unwatched \cup {source}
     /\ UNCHANGED watched

Wanted(s) == \A o \in Needs(s) : Set(o)
NextServer == /\ step = "servers" /\ todo # <<>>
              /\ todo' = Tail(todo)
              /\ UNCHANGED <<setting, step, opts, misfreed, status>>

SkipServer == /\ NextServer /\ ~Wanted(Head(todo))
              /\ UNCHANGED <<held, enabled, watched, unwatched, refused, faults>>

MakeServer ==
  /\ NextServer
  /\ LET s == Head(todo) IN
     /\ Wanted(s)
     /\ held' = held \cup {s}
     /\ enabled' = enabled \cup {s}
     /\ IF s \in Senders THEN UNCHANGED <<watched, unwatched, faults>> ELSE Watch(s)
  /\ UNCHANGED refused

(* Fault: the flag is set although the initialisation failed. *)
ServerFailsEnabled ==
  /\ NextServer /\ Wanted(Head(todo))
  /\ faults < MaxFaults /\ faults' = faults + 1
  /\ refused' = refused \cup {Head(todo)}
  /\ enabled' = enabled \cup {Head(todo)}
  /\ UNCHANGED <<held, watched, unwatched>>

(* A server that cannot be set up stays disabled, and the program goes on.  *)
ServerFails ==
  /\ NextServer /\ Wanted(Head(todo))
  /\ faults < MaxFaults /\ faults' = faults + 1
  /\ refused' = refused \cup {Head(todo)}
  /\ UNCHANGED <<held, enabled, watched, unwatched>>

(* Fault: stdin is watched only when no server is enabled. *)
FinishInitAlone ==
  /\ step = "servers" /\ todo = <<>>
  /\ IF enabled = {} THEN Watch("stdin") ELSE UNCHANGED <<watched, unwatched, faults>>
  /\ held' = held \cup {"modem"} \cup (IF Set("gain_2200") THEN {"hbf"} ELSE {})
  /\ step' = IF Set("noop") THEN "nice exit" ELSE "start"
  /\ UNCHANGED <<setting, opts, todo, enabled, refused, misfreed, status>>

(* stdin, filter, modem; main goes no further with --noop.                  *)
FinishInit ==
  /\ step = "servers" /\ todo = <<>>
  /\ Watch("stdin")
  /\ held' = held \cup {"modem"} \cup (IF Set("gain_2200") THEN {"hbf"} ELSE {})
  /\ step' = IF Set("noop") THEN "nice exit" ELSE "start"
  /\ UNCHANGED <<setting, opts, todo, enabled, refused, misfreed, status>>

--------------------------------------------------------------------------------
(* The loop and the end *)

(* aud_start *)
StartAudio == step = "start" /\ Go("loop") /\ UNCHANGED process

(* Fault: idling counts as success. *)
LoopEndsWell == /\ step = "loop"
                /\ step' = "exited" /\ status' = "success"
                /\ UNCHANGED <<setting, process, faults>>

(* loop_run never returns: it is left by EXITIF with EXIT_FAILURE.          *)
LoopEnds == /\ step = "loop"
            /\ Quit /\ UNCHANGED faults

(* Fault: devices are left open. *)
NiceExitWithoutAudio ==
  /\ step = "nice exit"
  /\ LET freed == enabled \cup {"modem", "hbf", "poller"} IN
     /\ held' = held \ freed
     /\ misfreed' = freed \ held
  /\ step' = "exited" /\ status' = "success"
  /\ UNCHANGED <<setting, opts, todo, enabled, watched, unwatched, refused, faults>>

(* miniwolf_free and aud_terminate.                                         *)
NiceExit ==
  /\ step = "nice exit"
  /\ LET freed == enabled \cup {"modem", "hbf", "poller"} IN
     /\ held' = held \ (freed \cup {"capture", "playback", "ring"})
     /\ misfreed' = freed \ held
  /\ step' = "exited" /\ status' = "success"
  /\ UNCHANGED <<setting, opts, todo, enabled, watched, unwatched, refused, faults>>

(* Restart=on-failure: five seconds later, a new process.                   *)
Restart ==
  /\ step = "exited" /\ status = "failure"
  /\ step' = "args" /\ status' = "running"
  /\ opts' = [o \in Options |-> 0]
  /\ todo' = Servers /\ held' = {} /\ enabled' = {}
  /\ watched' = {} /\ unwatched' = {} /\ refused' = {} /\ misfreed' = {}
  /\ UNCHANGED <<setting, faults>>

Advance == \/ ParseArgs \/ ParseFile \/ Defaults
           \/ MakeRing \/ NoDevice \/ OpenCapture \/ OpenPlayback
           \/ MakePoller \/ PollerRefuses \/ SkipServer \/ MakeServer \/ FinishInit
           \/ StartAudio \/ NiceExit \/ Restart

(* conf_load, ring_init, the poller and the starting of a stream may fail   *)
(* as well.                                                                 *)
Failure == \/ Fail({"file", "ring", "poller", "start"})
           \/ OpenFails \/ ServerFails

Next == Advance \/ Failure \/ LoopEnds

Spec == Init /\ [][Next]_vars /\ WF_vars(Advance)

--------------------------------------------------------------------------------
(* Properties *)

(* Every variable keeps its type, a flag is set only for a server that      *)
(* exists, and only one that was refused or not wanted has none.            *)
TypeOK ==
  /\ setting \in Settings
  /\ step \in {"args", "file", "defaults", "ring", "no device", "capture", "playback",
               "poller", "servers", "start", "loop", "nice exit", "exited"}
  /\ opts \in [Options -> 0..3]
  /\ held \subseteq AllServers \cup {"ring", "capture", "playback", "poller", "modem", "hbf"}
  /\ refused \cap enabled = {}
  /\ watched \cup unwatched \subseteq AllServers \cup {"stdin", "capture"}
  /\ status \in {"running", "success", "failure"} /\ faults \in 0..MaxFaults

(* A program that leaves by NICE_EXIT has given back everything it made, on *)
(* each of the ways there, and frees no server it never made; what it frees *)
(* unmade is the idle filter, and, with --list, poller and modem, which are *)
(* still zero then.                                                         *)
FreesWhatItMade ==
  step = "exited" /\ status = "success" =>
    /\ held = {}
    /\ misfreed \subseteq {"hbf"} \/ (Set("list") /\ misfreed \cap AllServers = {})

(* When the loop starts, the poller watches the capture stream, and of      *)
(* stdin and the enabled listening servers all that it did not refuse:      *)
(* miniwolf_init ignores a refusal, and such a server stays enabled without *)
(* ever being looked at.  Every server asked for is enabled, or its set-up  *)
(* failed; and playback is open if asked for, so that the loop's handlers   *)
(* only ever touch what exists.                                             *)
LoopIsReady ==
  step = "loop" =>
    /\ watched = ({"stdin", "capture"} \cup (enabled \ Senders)) \ unwatched
    /\ unwatched \subseteq {"stdin"} \cup (enabled \ Senders)
    /\ enabled \cup {"ring", "capture", "poller", "modem"} \subseteq held
    /\ ("playback" \in held) = Set("dev_output")
    /\ \A s \in AllServers : Wanted(s) <=> s \in enabled \cup refused

(* The file counts for what it names, but strings the arguments give and    *)
(* what no file can set; what it unsets is unset.                           *)
FileCounts(o) == /\ o \in DOMAIN setting.file /\ o \notin ArgumentsOnly
                 /\ o \in Strings => o \notin setting.args
Given(o) == IF FileCounts(o) THEN setting.file[o]
            ELSE IF o \in setting.args THEN 1 ELSE 0

(* Once the options are complete each has exactly the value that arguments  *)
(* and file give it together, and the default where that comes to nothing;  *)
(* and so it stays: opts_parse_args, opts_parse_conf_file and opts_defaults *)
(* one after the other.                                                     *)
StrongestSourceCounts ==
  step \notin {"args", "file", "defaults", "exited"} =>
    \A o \in Options :
      opts[o] = IF Given(o) = 0 /\ o \in Defaulted THEN 3 ELSE Given(o)

(* A service with a device to listen to comes back to its loop after every  *)
(* idle exit and every failure to start, as Restart=on-failure together     *)
(* with the exit status of EXITIF means it to.                              *)
Service == /\ {"dev_name", "dev_input"} \subseteq setting.args
           /\ {"list", "noop"} \cap setting.args = {}
           /\ DOMAIN setting.file = {}
ServiceComesBack == Service => []<>(step = "loop")

(* README.md:121 has it that "Arguments override entries in the             *)
(* configuration file".                                                     *)
ArgumentsOverrideFile ==
  step = "ring" => \A o \in setting.args : opts[o] = 1
================================================================================
