------------------------------ MODULE StartupProofs -----------------------------
(***************************************************************************)
(* Proofs about the way from the command line to the loop and out again,   *)
(* for any arguments, any file, and any number of calls that fail.         *)
(***************************************************************************)
EXTENDS Startup, TLAPS

Early == {"args", "file", "defaults", "ring", "no device", "capture", "playback", "poller"}

(* What the options are while they are read, and when they are complete.    *)
Sources ==
  /\ step = "file" => \A o \in Options : opts[o] = IF o \in setting.args THEN 1 ELSE 0
  /\ step = "defaults" => \A o \in Options : opts[o] = Given(o)
  /\ StrongestSourceCounts

(* What there is at each step.                                              *)
Input == IF Set("dev_input") THEN {"capture"} ELSE {}
Output == IF Set("dev_output") THEN {"playback"} ELSE {}
Filter == IF Set("gain_2200") THEN {"hbf"} ELSE {}
Complete == enabled \cup {"ring", "capture", "poller", "modem"} \cup Output \cup Filter

HeldSoFar ==
  /\ step \in {"args", "file", "defaults", "ring"} => held = {}
  /\ step \in {"no device", "capture"} => held = {"ring"}
  /\ step = "playback" => held = {"ring"} \cup Input
  /\ step = "poller" => held = {"ring"} \cup Input \cup Output
  /\ step = "servers" => held = enabled \cup {"ring", "capture", "poller"} \cup Output
  /\ step \in {"start", "loop"} => held = Complete
  /\ step = "nice exit" => held = Complete \/ (Set("list") /\ enabled = {} /\ held = {"ring"})

WatchedSoFar ==
  /\ step = "servers" => /\ watched = ({"capture"} \cup (enabled \ Senders)) \ unwatched
                         /\ unwatched \subseteq enabled \ Senders
  /\ step \in {"start", "loop"} =>
       /\ watched = ({"stdin", "capture"} \cup (enabled \ Senders)) \ unwatched
       /\ unwatched \subseteq {"stdin"} \cup (enabled \ Senders)

(* Each server is looked at once: those that were are enabled or refused if *)
(* they are wanted, and none of those still to come is.                     *)
Left == {todo[k] : k \in 1..Len(todo)}
Looked ==
  /\ todo \in Seq(AllServers)
  /\ \A i, j \in 1..Len(todo) : todo[i] = todo[j] => i = j
  /\ enabled \subseteq AllServers /\ refused \subseteq AllServers
  /\ Left \cap (enabled \cup refused) = {}
  /\ \A s \in AllServers : /\ s \in enabled \cup refused => Wanted(s)
                           /\ Wanted(s) => s \in Left \cup enabled \cup refused
  /\ step \in Early => /\ todo = Servers /\ enabled = {} /\ refused = {}
                        /\ watched = {} /\ unwatched = {}
  /\ step \in {"start", "loop"} => todo = <<>>

Inv == /\ TypeOK
       /\ Sources
       /\ Looked
       /\ HeldSoFar /\ WatchedSoFar
       /\ FreesWhatItMade

--------------------------------------------------------------------------------
(* The servers *)

LEMMA ServerNames ==
  AllServers = {"tcp_kiss", "tcp_tnc2", "udp_kiss", "udp_tnc2",
                "udp_kiss_listen", "udp_tnc2_listen", "uds_kiss", "uds_tnc2"}
<1>1. Len(Servers) = 8
  BY DEF Servers
<1> QED
  BY <1>1 DEF AllServers, Servers

LEMMA ServersDiffer ==
  /\ Servers \in Seq(AllServers)
  /\ \A i, j \in 1..Len(Servers) : Servers[i] = Servers[j] => i = j
  /\ AllServers = {Servers[k] : k \in 1..Len(Servers)}
<1>1. Len(Servers) = 8
  BY DEF Servers
<1>2. Servers \in Seq(AllServers)
  BY ServerNames DEF Servers
<1>3. ASSUME NEW i \in 1..8, NEW j \in 1..8, Servers[i] = Servers[j] PROVE i = j
  BY <1>3 DEF Servers
<1> QED
  BY <1>1, <1>2, <1>3 DEF AllServers

(* At the start all servers are left, and it does not matter which of them  *)
(* the options ask for.                                                     *)
LEMMA NoneLooked ==
  ASSUME todo = Servers, enabled = {}, refused = {}, watched = {}, unwatched = {},
         step \in Early
  PROVE  Looked
  BY ServersDiffer DEF Looked, Left, Early

LEMMA FirstServer ==
  ASSUME Looked, todo # <<>>, todo' = Tail(todo)
  PROVE  /\ Head(todo) \in AllServers /\ Head(todo) \in Left
         /\ todo' \in Seq(AllServers) /\ Left' = Left \ {Head(todo)}
         /\ \A i, j \in 1..Len(todo') : todo'[i] = todo'[j] => i = j
<1>1. todo \in Seq(AllServers) /\ \A i, j \in 1..Len(todo) : todo[i] = todo[j] => i = j
  BY DEF Looked
<1>2. /\ Head(todo) = todo[1] /\ 1 \in 1..Len(todo)
      /\ todo' \in Seq(AllServers) /\ Len(todo') = Len(todo) - 1
      /\ \A k \in 1..Len(todo') : todo'[k] = todo[k + 1] /\ k + 1 \in 1..Len(todo)
  BY <1>1
<1>3. Left' = Left \ {Head(todo)}
  <2>1. ASSUME NEW k \in 1..Len(todo') PROVE todo'[k] \in Left \ {todo[1]}
    BY <1>1, <1>2 DEF Left
  <2>2. ASSUME NEW k \in 1..Len(todo), todo[k] # todo[1] PROVE todo[k] \in Left'
    <3>1. k - 1 \in 1..Len(todo') /\ todo'[k - 1] = todo[k]
      BY <1>1, <1>2, <2>2
    <3> QED
      BY <3>1 DEF Left
  <2>3. Left' = {todo'[k] : k \in 1..Len(todo')} /\ Left = {todo[k] : k \in 1..Len(todo)}
    BY DEF Left
  <2>4. ASSUME NEW x \in Left' PROVE x \in Left \ {todo[1]}
    BY <2>1, <2>3
  <2>5. ASSUME NEW x \in Left \ {todo[1]} PROVE x \in Left'
    BY <2>2, <2>3
  <2>6. Left' = Left \ {todo[1]}
    BY <2>4, <2>5, Zenon
  <2> QED
    BY <1>2, <2>6
<1>4. ASSUME NEW i \in 1..Len(todo'), NEW j \in 1..Len(todo'), todo'[i] = todo'[j] PROVE i = j
  BY <1>1, <1>2, <1>4
<1> QED
  BY <1>1, <1>2, <1>3, <1>4 DEF Left

--------------------------------------------------------------------------------
(* The steps *)

LEMMA InitInv == Init => Inv
<1> SUFFICES ASSUME Init PROVE Inv
  OBVIOUS
<1> USE DEF Init, Fresh
<1>1. TypeOK
  BY SettingsAssumption DEF TypeOK
<1>2. Looked
  BY NoneLooked DEF Early
<1>3. Sources /\ HeldSoFar /\ WatchedSoFar /\ FreesWhatItMade
  BY DEF Sources, StrongestSourceCounts, HeldSoFar, WatchedSoFar, FreesWhatItMade
<1> QED
  BY <1>1, <1>2, <1>3 DEF Inv

LEMMA RestartInv == Inv /\ Restart => Inv'
<1> SUFFICES ASSUME Inv, Restart PROVE Inv'
  OBVIOUS
<1> USE DEF Restart
<1>1. TypeOK'
  BY DEF Inv, TypeOK
<1>2. Looked'
  <2>1. /\ todo' = Servers /\ enabled' = {} /\ refused' = {}
        /\ watched' = {} /\ unwatched' = {} /\ step' \in Early
    BY DEF Early
  <2>2. Left' = {Servers[k] : k \in 1..Len(Servers)}
    BY <2>1 DEF Left
  <2> QED
    BY <2>1, <2>2, ServersDiffer DEF Looked, Early
<1>3. Sources' /\ HeldSoFar' /\ WatchedSoFar' /\ FreesWhatItMade'
  BY DEF Sources, StrongestSourceCounts, HeldSoFar, WatchedSoFar, FreesWhatItMade
<1> QED
  BY <1>1, <1>2, <1>3 DEF Inv

(* What was looked at depends on the options and the servers only.          *)
LEMMA LookedStays ==
  ASSUME Looked, UNCHANGED <<opts, todo, enabled, refused>>,
         step' \in Early => step \in Early /\ UNCHANGED <<watched, unwatched>>,
         step' \in {"start", "loop"} => todo = <<>>
  PROVE  Looked'
<1>1. Left' = Left
  BY DEF Left
<1>2. \A s : Wanted(s)' <=> Wanted(s)
  BY DEF Wanted, Set
<1> QED
  BY <1>1, <1>2 DEF Looked

(* Before there are servers, only the options change.                       *)
LEMMA LookedEarly ==
  ASSUME Looked, step \in Early, step' \in Early,
         UNCHANGED <<todo, enabled, watched, unwatched, refused>>
  PROVE  Looked'
<1>1. todo' = Servers /\ enabled' = {} /\ refused' = {} /\ watched' = {} /\ unwatched' = {}
  BY DEF Looked
<1>2. Left' = {Servers[k] : k \in 1..Len(Servers)}
  BY <1>1 DEF Left
<1> QED
  BY <1>1, <1>2, ServersDiffer DEF Looked, Early

(* A process that ends with a failure promises nothing more.                *)
LEMMA ExitInv ==
  ASSUME Inv, step' = "exited", status' = "failure",
         UNCHANGED <<setting, opts, todo, enabled, watched, unwatched, refused>>,
         held' \subseteq held, faults' \in 0..MaxFaults
  PROVE  Inv'
<1>1. TypeOK'
  BY DEF Inv, TypeOK
<1>2. Looked'
  BY LookedStays DEF Inv, Early
<1>3. Sources' /\ HeldSoFar' /\ WatchedSoFar' /\ FreesWhatItMade'
  BY DEF Sources, StrongestSourceCounts, HeldSoFar, WatchedSoFar, FreesWhatItMade
<1> QED
  BY <1>1, <1>2, <1>3 DEF Inv

LEMMA ParseArgsInv == Inv /\ ParseArgs => Inv'
<1> SUFFICES ASSUME Inv, ParseArgs PROVE Inv'
  OBVIOUS
<1> USE DEF ParseArgs, Go
<1>1. TypeOK'
  BY DEF Inv, TypeOK
<1>2. Looked'
  BY LookedEarly DEF Inv, Early
<1>3. Sources'
  BY DEF Sources, StrongestSourceCounts
<1>4. HeldSoFar' /\ WatchedSoFar' /\ FreesWhatItMade'
  BY DEF Inv, HeldSoFar, WatchedSoFar, FreesWhatItMade
<1> QED
  BY <1>1, <1>2, <1>3, <1>4 DEF Inv

(* From the file, or as it was.                                             *)
LEMMA FromFileIsGiven ==
  ASSUME Inv, step = "file", NEW o \in Options
  PROVE  FromFile(o) = Given(o) /\ FromFile(o) \in 0..2
<1>1. opts[o] = IF o \in setting.args THEN 1 ELSE 0
  BY DEF Inv, Sources
<1>2. o \in DOMAIN setting.file => setting.file[o] \in {0, 2}
  BY SettingsAssumption DEF Inv, TypeOK
<1> QED
  BY <1>1, <1>2 DEF FromFile, Given, FileCounts, Set

LEMMA ParseFileInv == Inv /\ ParseFile => Inv'
<1> SUFFICES ASSUME Inv, ParseFile PROVE Inv'
  OBVIOUS
<1> USE DEF ParseFile, Go
<1>1. \A o \in Options : opts'[o] = Given(o) /\ opts'[o] \in 0..2
  BY FromFileIsGiven
<1>2. TypeOK'
  <2>1. opts' \in [Options -> 0..3]
    BY <1>1
  <2> QED
    BY <2>1 DEF Inv, TypeOK
<1>3. Looked'
  BY LookedEarly DEF Inv, Early
<1>4. Sources'
  <2>1. \A o : Given(o)' = Given(o)
    BY DEF Given, FileCounts
  <2> QED
    BY <1>1, <2>1 DEF Sources, StrongestSourceCounts
<1>5. HeldSoFar' /\ WatchedSoFar' /\ FreesWhatItMade'
  BY DEF Inv, HeldSoFar, WatchedSoFar, FreesWhatItMade
<1> QED
  BY <1>2, <1>3, <1>4, <1>5 DEF Inv

LEMMA DefaultsInv == Inv /\ Defaults => Inv'
<1> SUFFICES ASSUME Inv, Defaults PROVE Inv'
  OBVIOUS
<1> USE DEF Defaults, Go
<1>1. /\ opts \in [Options -> 0..3]
      /\ \A o \in Options : opts'[o] = IF o \in Defaulted /\ opts[o] = 0 THEN 3 ELSE opts[o]
  BY DEF Inv, TypeOK, Set
<1>2. TypeOK'
  <2>1. opts' \in [Options -> 0..3]
    BY DEF Inv, TypeOK
  <2> QED
    BY <2>1 DEF Inv, TypeOK
<1>3. Looked'
  BY LookedEarly DEF Inv, Early
<1>4. Sources'
  <2>1. \A o : Given(o)' = Given(o)
    BY DEF Given, FileCounts
  <2>2. \A o \in Options : opts[o] = Given(o)
    BY DEF Inv, Sources
  <2> QED
    BY <1>1, <2>1, <2>2 DEF Sources, StrongestSourceCounts
<1>5. HeldSoFar' /\ WatchedSoFar' /\ FreesWhatItMade'
  BY DEF Inv, HeldSoFar, WatchedSoFar, FreesWhatItMade
<1> QED
  BY <1>2, <1>3, <1>4, <1>5 DEF Inv

(* Once the options are complete they stay.                                 *)
LEMMA SourcesStay ==
  ASSUME Sources, UNCHANGED <<setting, opts>>,
         step \notin {"args", "file", "defaults", "exited"},
         step' \notin {"args", "file", "defaults"}
  PROVE  Sources'
<1>1. \A o : Given(o)' = Given(o)
  BY DEF Given, FileCounts
<1> QED
  BY <1>1 DEF Sources, StrongestSourceCounts

LEMMA MakeRingInv == Inv /\ MakeRing => Inv'
<1> SUFFICES ASSUME Inv, MakeRing PROVE Inv'
  OBVIOUS
<1> USE DEF MakeRing, Make, Go
<1>1. held' = {"ring"} /\ enabled = {}
  BY DEF Inv, HeldSoFar, Looked, Early
<1>2. TypeOK'
  BY DEF Inv, TypeOK
<1>3. Looked'
  <2>1. step' \notin {"start", "loop"}
    OBVIOUS
  <2>2. step' \in Early => step \in Early
    BY DEF Early
  <2> QED
    BY <2>1, <2>2, LookedStays DEF Inv
<1>4. Sources'
  BY SourcesStay DEF Inv
<1>5. HeldSoFar'
  BY <1>1 DEF HeldSoFar, Set
<1>6. WatchedSoFar' /\ FreesWhatItMade'
  BY DEF WatchedSoFar, FreesWhatItMade
<1> QED
  BY <1>2, <1>3, <1>4, <1>5, <1>6 DEF Inv

LEMMA NoDeviceInv == Inv /\ NoDevice => Inv'
  BY ExitInv DEF NoDevice, Quit, process, Inv, TypeOK

LEMMA OpenCaptureInv == Inv /\ OpenCapture => Inv'
<1> SUFFICES ASSUME Inv, OpenCapture PROVE Inv'
  OBVIOUS
<1> USE DEF OpenCapture, Make, Go, process
<1>1. UNCHANGED <<setting, opts, todo, enabled, watched, unwatched, refused, misfreed,
                  status, faults>>
  OBVIOUS
<1>2. held' = {"ring"} \cup Input'
  BY DEF Inv, HeldSoFar, Input, Set
<1>3. TypeOK'
  BY <1>1 DEF Inv, TypeOK
<1>4. Looked'
  BY <1>1, LookedStays DEF Inv, Early
<1>5. Sources'
  BY <1>1, SourcesStay DEF Inv
<1>6. HeldSoFar' /\ WatchedSoFar' /\ FreesWhatItMade'
  BY <1>2 DEF HeldSoFar, WatchedSoFar, FreesWhatItMade
<1> QED
  BY <1>3, <1>4, <1>5, <1>6 DEF Inv

LEMMA OpenPlaybackInv == Inv /\ OpenPlayback => Inv'
<1> SUFFICES ASSUME Inv, OpenPlayback PROVE Inv'
  OBVIOUS
<1> USE DEF OpenPlayback, Make, Go, process
<1>1. UNCHANGED <<setting, opts, todo, enabled, watched, unwatched, refused, misfreed,
                  status, faults>>
  OBVIOUS
<1>2. held' = {"ring"} \cup Input' \cup Output'
  BY DEF Inv, HeldSoFar, Input, Output, Set
<1>3. TypeOK'
  BY <1>1 DEF Inv, TypeOK
<1>4. Looked'
  BY <1>1, LookedStays DEF Inv, Early
<1>5. Sources'
  BY <1>1, SourcesStay DEF Inv
<1>6. HeldSoFar' /\ WatchedSoFar' /\ FreesWhatItMade'
  BY <1>2 DEF HeldSoFar, WatchedSoFar, FreesWhatItMade
<1> QED
  BY <1>3, <1>4, <1>5, <1>6 DEF Inv

LEMMA OneFaultMore ==
  ASSUME TypeOK, faults < MaxFaults, faults' = faults + 1
  PROVE  faults' \in 0..MaxFaults
<1>1. MaxFaults \in Nat
  BY SettingsAssumption
<1>2. faults \in 0..MaxFaults
  BY DEF TypeOK
<1> QED
  BY <1>1, <1>2

LEMMA OpenFailsInv == Inv /\ OpenFails => Inv'
<1> SUFFICES ASSUME Inv, OpenFails PROVE Inv'
  OBVIOUS
<1>1. faults' \in 0..MaxFaults
  BY OneFaultMore DEF Inv, OpenFails
<1>2. held' \subseteq held
  BY DEF OpenFails
<1> QED
  BY <1>1, <1>2, ExitInv DEF OpenFails

LEMMA FailInv == ASSUME Inv, NEW at, Fail(at) PROVE Inv'
<1>1. faults' \in 0..MaxFaults
  BY OneFaultMore DEF Inv, Fail
<1> QED
  BY <1>1, ExitInv DEF Fail, Quit, process

LEMMA LoopEndsInv == Inv /\ LoopEnds => Inv'
  BY ExitInv DEF LoopEnds, Quit, process, Inv, TypeOK

LEMMA MakePollerInv == Inv /\ MakePoller => Inv'
<1> SUFFICES ASSUME Inv, MakePoller PROVE Inv'
  OBVIOUS
<1> USE DEF MakePoller, Go
<1>1. /\ enabled = {} /\ unwatched = {}
      /\ held = {"ring"} \cup Input \cup Output /\ "capture" \in held
  BY DEF Inv, HeldSoFar, Looked, Early
<1>2. held' = enabled' \cup {"ring", "capture", "poller"} \cup Output'
  BY <1>1 DEF Input, Output, Set
<1>3. TypeOK'
  BY DEF Inv, TypeOK
<1>4. Looked'
  BY LookedStays DEF Inv, Early
<1>5. Sources'
  BY SourcesStay DEF Inv
<1>6. HeldSoFar' /\ WatchedSoFar' /\ FreesWhatItMade'
  BY <1>1, <1>2 DEF HeldSoFar, WatchedSoFar, FreesWhatItMade
<1> QED
  BY <1>3, <1>4, <1>5, <1>6 DEF Inv

LEMMA PollerRefusesInv == Inv /\ PollerRefuses => Inv'
  BY ExitInv DEF PollerRefuses, Quit, process, Inv, TypeOK

(* A source is watched, or refused at the price of a fault.                 *)
LEMMA WatchType ==
  ASSUME TypeOK, NEW source, Watch(source)
  PROVE  /\ faults' \in 0..MaxFaults
         /\ watched' \subseteq watched \cup {source}
         /\ unwatched' \subseteq unwatched \cup {source}
<1>1. faults' \in 0..MaxFaults
  <2>1. CASE faults' = faults
    BY <2>1 DEF TypeOK
  <2>2. CASE faults < MaxFaults /\ faults' = faults + 1
    BY <2>2, OneFaultMore
  <2> QED
    BY <2>1, <2>2 DEF Watch
<1> QED
  BY <1>1 DEF Watch

(* The next server is looked at: it is enabled or refused now if it is      *)
(* wanted, and the others are as they were.                                 *)
LEMMA NextServerLooked ==
  ASSUME Looked, NextServer,
         \/ Wanted(Head(todo)) /\ enabled' = enabled \cup {Head(todo)} /\ refused' = refused
         \/ Wanted(Head(todo)) /\ enabled' = enabled /\ refused' = refused \cup {Head(todo)}
         \/ ~Wanted(Head(todo)) /\ UNCHANGED <<enabled, refused>>
  PROVE  /\ Looked'
         /\ Head(todo) \in AllServers /\ Head(todo) \notin enabled \cup refused
<1> DEFINE s == Head(todo)
<1>1. /\ s \in AllServers /\ s \in Left
      /\ todo' \in Seq(AllServers) /\ Left' = Left \ {s}
      /\ \A i, j \in 1..Len(todo') : todo'[i] = todo'[j] => i = j
  BY FirstServer DEF NextServer
<1>2. \A t : Wanted(t)' <=> Wanted(t)
  BY DEF Wanted, Set, NextServer
<1>3. /\ Left \cap (enabled \cup refused) = {}
      /\ enabled \subseteq AllServers /\ refused \subseteq AllServers
      /\ \A t \in AllServers : /\ t \in enabled \cup refused => Wanted(t)
                               /\ Wanted(t) => t \in Left \cup enabled \cup refused
  BY DEF Looked
<1>4. step' = "servers"
  BY DEF NextServer
<1>5. /\ enabled' \subseteq AllServers /\ refused' \subseteq AllServers
      /\ Left' \cap (enabled' \cup refused') = {}
  BY <1>1, <1>3
<1>6. \A t \in AllServers : /\ t \in enabled' \cup refused' => Wanted(t)'
                            /\ Wanted(t)' => t \in Left' \cup enabled' \cup refused'
  <2> SUFFICES ASSUME NEW t \in AllServers
               PROVE  /\ t \in enabled' \cup refused' => Wanted(t)
                      /\ Wanted(t) => t \in Left' \cup enabled' \cup refused'
    BY <1>2
  <2>1. CASE t = s
    BY <1>1, <1>3, <2>1
  <2>2. CASE t # s
    BY <1>1, <1>3, <2>2
  <2> QED
    BY <2>1, <2>2
<1> QED
  BY <1>1, <1>3, <1>4, <1>5, <1>6 DEF Looked, Early

LEMMA SkipServerInv == Inv /\ SkipServer => Inv'
<1> SUFFICES ASSUME Inv, SkipServer PROVE Inv'
  OBVIOUS
<1>1. /\ step = "servers" /\ step' = "servers"
      /\ UNCHANGED <<setting, opts, held, enabled, watched, unwatched, refused, misfreed,
                     status, faults>>
  BY DEF SkipServer, NextServer
<1>2. TypeOK'
  BY <1>1 DEF Inv, TypeOK
<1>3. Looked'
  BY <1>1, NextServerLooked DEF Inv, SkipServer
<1>4. Sources'
  BY <1>1, SourcesStay DEF Inv
<1>5. HeldSoFar' /\ WatchedSoFar' /\ FreesWhatItMade'
  BY <1>1 DEF Inv, HeldSoFar, WatchedSoFar, FreesWhatItMade, Output, Set
<1> QED
  BY <1>2, <1>3, <1>4, <1>5 DEF Inv

LEMMA CaptureIsNoServer == "capture" \notin AllServers
  BY ServerNames

LEMMA MakeServerInv == Inv /\ MakeServer => Inv'
<1> SUFFICES ASSUME Inv, MakeServer PROVE Inv'
  OBVIOUS
<1> DEFINE s == Head(todo)
<1>1. /\ step = "servers" /\ step' = "servers"
      /\ UNCHANGED <<setting, opts, refused, misfreed, status>>
      /\ held' = held \cup {s} /\ enabled' = enabled \cup {s}
      /\ IF s \in Senders THEN UNCHANGED <<watched, unwatched, faults>> ELSE Watch(s)
  BY DEF MakeServer, NextServer
<1>2. Looked' /\ s \in AllServers /\ s \notin enabled \cup refused
  BY <1>1, NextServerLooked DEF Inv, MakeServer
<1>3. TypeOK'
  <2>1. /\ faults' \in 0..MaxFaults
        /\ watched' \subseteq watched \cup {s} /\ unwatched' \subseteq unwatched \cup {s}
    BY <1>1, WatchType DEF Inv, TypeOK
  <2> QED
    BY <1>1, <1>2, <2>1 DEF Inv, TypeOK
<1>4. Sources'
  BY <1>1, SourcesStay DEF Inv
<1>5. HeldSoFar' /\ WatchedSoFar' /\ FreesWhatItMade'
  <2>1. held = enabled \cup {"ring", "capture", "poller"} \cup Output
    BY <1>1 DEF Inv, HeldSoFar
  <2>2. /\ watched = ({"capture"} \cup (enabled \ Senders)) \ unwatched
        /\ unwatched \subseteq enabled \ Senders
    BY <1>1 DEF Inv, WatchedSoFar
  <2>3. Output' = Output
    BY <1>1 DEF Output, Set
  <2>4. held' = enabled' \cup {"ring", "capture", "poller"} \cup Output'
    BY <1>1, <2>1, <2>3
  <2>5. /\ watched' = ({"capture"} \cup (enabled' \ Senders)) \ unwatched'
        /\ unwatched' \subseteq enabled' \ Senders
    <3>1. s \notin unwatched
      BY <1>2, <2>2
    <3>2. CASE s \in Senders
      <4>1. enabled' \ Senders = enabled \ Senders
        BY <1>1, <3>2
      <4> QED
        BY <1>1, <2>2, <3>2, <4>1
    <3>3. CASE s \notin Senders
      <4>1. enabled' \ Senders = (enabled \ Senders) \cup {s} /\ Watch(s)
        BY <1>1, <3>3
      <4>2. CASE watched' = watched \cup {s} /\ unwatched' = unwatched
        BY <2>2, <3>1, <4>1, <4>2
      <4>3. CASE watched' = watched /\ unwatched' = unwatched \cup {s}
        <5>1. s \notin watched
          BY <1>2, <2>2, CaptureIsNoServer
        <5> QED
          BY <2>2, <4>1, <4>3, <5>1
      <4> QED
        BY <4>1, <4>2, <4>3 DEF Watch
    <3> QED
      BY <3>2, <3>3
  <2> QED
    BY <1>1, <2>4, <2>5 DEF HeldSoFar, WatchedSoFar, FreesWhatItMade
<1> QED
  BY <1>2, <1>3, <1>4, <1>5 DEF Inv

LEMMA ServerFailsInv == Inv /\ ServerFails => Inv'
<1> SUFFICES ASSUME Inv, ServerFails PROVE Inv'
  OBVIOUS
<1> DEFINE s == Head(todo)
<1>1. /\ step = "servers" /\ step' = "servers"
      /\ UNCHANGED <<setting, opts, held, enabled, watched, unwatched, misfreed, status>>
      /\ refused' = refused \cup {s} /\ faults < MaxFaults /\ faults' = faults + 1
  BY DEF ServerFails, NextServer
<1>2. Looked' /\ s \in AllServers /\ s \notin enabled \cup refused
  BY <1>1, NextServerLooked DEF Inv, ServerFails
<1>3. TypeOK'
  BY <1>1, <1>2, SettingsAssumption DEF Inv, TypeOK
<1>4. Sources'
  BY <1>1, SourcesStay DEF Inv
<1>5. HeldSoFar' /\ WatchedSoFar' /\ FreesWhatItMade'
  BY <1>1 DEF Inv, HeldSoFar, WatchedSoFar, FreesWhatItMade, Output, Set
<1> QED
  BY <1>2, <1>3, <1>4, <1>5 DEF Inv

LEMMA FinishInitInv == Inv /\ FinishInit => Inv'
<1> SUFFICES ASSUME Inv, FinishInit PROVE Inv'
  OBVIOUS
<1> USE DEF FinishInit
<1>1. /\ held = enabled \cup {"ring", "capture", "poller"} \cup Output
      /\ watched = ({"capture"} \cup (enabled \ Senders)) \ unwatched
      /\ unwatched \subseteq enabled \ Senders /\ "stdin" \notin AllServers
      /\ enabled \subseteq AllServers
  BY ServerNames DEF Inv, HeldSoFar, WatchedSoFar, Looked
<1>2. /\ held' = Complete'
      /\ watched' = ({"stdin", "capture"} \cup (enabled' \ Senders)) \ unwatched'
      /\ unwatched' \subseteq {"stdin"} \cup (enabled' \ Senders)
  <2>1. held' = Complete'
    BY <1>1 DEF Complete, Output, Filter, Set
  <2>2. /\ watched' = ({"stdin", "capture"} \cup (enabled' \ Senders)) \ unwatched'
        /\ unwatched' \subseteq {"stdin"} \cup (enabled' \ Senders)
    BY <1>1 DEF Watch
  <2> QED
    BY <2>1, <2>2
<1>3. TypeOK'
  <2>1. /\ faults' \in 0..MaxFaults
        /\ watched' \subseteq watched \cup {"stdin"}
        /\ unwatched' \subseteq unwatched \cup {"stdin"}
    BY WatchType DEF Inv
  <2> QED
    BY <2>1 DEF Inv, TypeOK
<1>4. Looked'
  BY LookedStays DEF Inv, Early
<1>5. Sources'
  BY SourcesStay DEF Inv
<1>6. HeldSoFar' /\ WatchedSoFar' /\ FreesWhatItMade'
  BY <1>2 DEF HeldSoFar, WatchedSoFar, FreesWhatItMade
<1> QED
  BY <1>3, <1>4, <1>5, <1>6 DEF Inv

LEMMA StartAudioInv == Inv /\ StartAudio => Inv'
<1> SUFFICES ASSUME Inv, StartAudio PROVE Inv'
  OBVIOUS
<1> USE DEF StartAudio, Go, process
<1>1. UNCHANGED <<setting, opts, todo, held, enabled, watched, unwatched, refused,
                  misfreed, status, faults>>
  OBVIOUS
<1>2. TypeOK'
  BY <1>1 DEF Inv, TypeOK
<1>3. Looked'
  BY <1>1, LookedStays DEF Inv, Looked, Early
<1>4. Sources'
  BY <1>1, SourcesStay DEF Inv
<1>5. Complete' = Complete
  BY <1>1 DEF Complete, Output, Filter, Set
<1>6. HeldSoFar' /\ WatchedSoFar' /\ FreesWhatItMade'
  BY <1>1, <1>5 DEF Inv, HeldSoFar, WatchedSoFar, FreesWhatItMade
<1> QED
  BY <1>2, <1>3, <1>4, <1>6 DEF Inv

(* The two ways to a nice exit: everything has been made, and the filter    *)
(* perhaps not; or nothing but the ring.                                    *)
LEMMA NiceExitInv == Inv /\ NiceExit => Inv'
<1> SUFFICES ASSUME Inv, NiceExit PROVE Inv'
  OBVIOUS
<1> DEFINE freed == enabled \cup {"modem", "hbf", "poller"}
<1>1. /\ step = "nice exit" /\ step' = "exited" /\ status' = "success"
      /\ UNCHANGED <<setting, opts, todo, enabled, watched, unwatched, refused, faults>>
      /\ held' = held \ (freed \cup {"capture", "playback", "ring"})
      /\ misfreed' = freed \ held
  BY DEF NiceExit
<1>2. \/ held = Complete
      \/ Set("list") /\ enabled = {} /\ held = {"ring"}
  BY <1>1 DEF Inv, HeldSoFar
<1>3. held' = {}
  <2>1. held \subseteq enabled \cup {"ring", "capture", "playback", "poller", "modem", "hbf"}
    BY <1>2 DEF Complete, Output, Filter
  <2> QED
    BY <1>1, <2>1
<1>4. \/ misfreed' \subseteq {"hbf"}
      \/ Set("list") /\ misfreed' \subseteq {"modem", "hbf", "poller"}
  BY <1>1, <1>2 DEF Complete
<1>5. FreesWhatItMade'
  BY <1>1, <1>3, <1>4, ServerNames DEF FreesWhatItMade, Set
<1>6. TypeOK'
  BY <1>1, <1>3 DEF Inv, TypeOK
<1>7. Looked'
  BY <1>1, LookedStays DEF Inv, Early
<1>8. Sources' /\ HeldSoFar' /\ WatchedSoFar'
  BY <1>1 DEF Sources, StrongestSourceCounts, HeldSoFar, WatchedSoFar
<1> QED
  BY <1>5, <1>6, <1>7, <1>8 DEF Inv

LEMMA StutterInv == Inv /\ UNCHANGED vars => Inv'
<1> SUFFICES ASSUME Inv, UNCHANGED vars PROVE Inv'
  OBVIOUS
<1>1. UNCHANGED <<setting, step, opts, todo, held, enabled, watched, unwatched, refused,
                  misfreed, status, faults>>
  BY DEF vars, process
<1>2. TypeOK' /\ Looked'
  BY <1>1, LookedStays DEF Inv, TypeOK, Looked
<1>3. Sources'
  <2>1. \A o : Given(o)' = Given(o)
    BY <1>1 DEF Given, FileCounts
  <2> QED
    BY <1>1, <2>1 DEF Inv, Sources, StrongestSourceCounts
<1>4. UNCHANGED <<Input, Output, Complete>>
  BY <1>1 DEF Input, Output, Complete, Filter, Set
<1>5. HeldSoFar' /\ WatchedSoFar' /\ FreesWhatItMade'
  BY <1>1, <1>4 DEF Inv, HeldSoFar, WatchedSoFar, FreesWhatItMade, Set
<1> QED
  BY <1>2, <1>3, <1>5 DEF Inv

LEMMA NextInv == Inv /\ [Next]_vars => Inv'
<1> SUFFICES ASSUME Inv, [Next]_vars PROVE Inv'
  OBVIOUS
<1>1. CASE Advance
  BY <1>1, ParseArgsInv, ParseFileInv, DefaultsInv, MakeRingInv, NoDeviceInv, OpenCaptureInv,
     OpenPlaybackInv, MakePollerInv, PollerRefusesInv, SkipServerInv, MakeServerInv,
     FinishInitInv, StartAudioInv, NiceExitInv, RestartInv DEF Advance
<1>2. CASE Failure
  BY <1>2, FailInv, OpenFailsInv, ServerFailsInv DEF Failure
<1>3. CASE LoopEnds
  BY <1>3, LoopEndsInv
<1>4. CASE UNCHANGED vars
  BY <1>4, StutterInv
<1> QED
  BY <1>1, <1>2, <1>3, <1>4 DEF Next

(* Whatever is asked for and whatever fails: each step finds what the steps *)
(* before it made and nothing else, and each option as arguments, file and  *)
(* defaults together make it.                                               *)
THEOREM StartupInvariant == Spec => []Inv
  BY InitInv, NextInv, PTL DEF Spec

--------------------------------------------------------------------------------
(* What follows *)

(* Types, for every command line and file; no server is both enabled and    *)
(* refused (miniwolf_init).                                                 *)
THEOREM StartupTypeCorrect == Spec => []TypeOK
<1>1. Inv => TypeOK
  BY DEF Inv
<1> QED
  BY <1>1, StartupInvariant, PTL

(* A nice exit (main.c) gives back all that was made, with any servers      *)
(* enabled, and after any failures on the way.                              *)
THEOREM EverythingIsFreed == Spec => []FreesWhatItMade
<1>1. Inv => FreesWhatItMade
  BY DEF Inv
<1> QED
  BY <1>1, StartupInvariant, PTL

(* loop_run begins with every server asked for either enabled or known to   *)
(* have failed, and with a poller that watches all but what it refused.     *)
THEOREM LoopStartsReady == Spec => []LoopIsReady
<1>1. ASSUME Inv, step = "loop" PROVE LoopIsReady
  <2>1. /\ watched = ({"stdin", "capture"} \cup (enabled \ Senders)) \ unwatched
        /\ unwatched \subseteq {"stdin"} \cup (enabled \ Senders)
        /\ held = Complete /\ todo = <<>> /\ enabled \subseteq AllServers
    BY <1>1 DEF Inv, HeldSoFar, WatchedSoFar, Looked
  <2>2. ("playback" \in held) = Set("dev_output")
    <3>1. "playback" \notin AllServers
      BY ServerNames
    <3>2. "playback" \in held <=> Set("dev_output")
      BY <2>1, <3>1 DEF Complete, Output, Filter
    <3> QED
      BY <3>2 DEF Set
  <2>3. Left = {}
    BY <2>1 DEF Left
  <2>4. \A s \in AllServers : Wanted(s) <=> s \in enabled \cup refused
    BY <1>1, <2>3 DEF Inv, Looked
  <2>5. enabled \cup {"ring", "capture", "poller", "modem"} \subseteq held
    BY <2>1 DEF Complete
  <2> QED
    BY <2>1, <2>2, <2>4, <2>5 DEF LoopIsReady
<1>2. Inv => LoopIsReady
  BY <1>1 DEF LoopIsReady
<1> QED
  BY <1>2, StartupInvariant, PTL

(* opts_parse_args, opts_parse_conf_file and opts_defaults: each option has *)
(* exactly the value the three give it together, for whatever is in both    *)
(* arguments and file, at every step that uses it.                          *)
THEOREM OptionsAreAsGiven == Spec => []StrongestSourceCounts
<1>1. Inv => StrongestSourceCounts
  BY DEF Inv, Sources
<1> QED
  BY <1>1, StartupInvariant, PTL
================================================================================
