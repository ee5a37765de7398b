---------------------------- MODULE Setup_proofs ----------------------------
(***************************************************************************)
(* Theorems about Setup for any peers, command lines, configuration files  *)
(* and bounds, on both systems: the types, that a finished setup is whole  *)
(* and never asked for again, and that what runs is what was installed.    *)
(***************************************************************************)
EXTENDS Setup, TLAPS

-----------------------------------------------------------------------------
(* The inductive invariant *)

Steps ==
  IF system = "darwin"
    THEN {<<"write", "unload", "load">>, <<"unload", "load">>, <<"load">>,
          <<"unload", "erase">>, <<"erase">>}
    ELSE {<<"unload", "write", "legacy", "load">>, <<"write", "legacy", "load">>,
          <<"legacy", "load">>, <<"load">>,
          <<"unload", "erase", "legacy">>, <<"erase", "legacy">>, <<"legacy">>}

Runs == [pc : {"idle", "ask", "save", "manage", "listen", "serve"}, flags : Flags,
         config : Configs \cup {None}, peers : SUBSET Peers, autostart : BOOLEAN,
         todo : Steps \cup {<< >>}, address : Hosts \cup {None}]

RunType ==
  /\ run \in Runs
  /\ run.pc \in {"ask", "save", "listen"} => run.config \in Configs
  /\ run.pc = "manage" => run.todo \in Steps
  /\ run.address # None => run.pc = "serve"

FilesType ==
  /\ system \in {"darwin", "windows"} /\ net \in Networks
  /\ config \in Configs \cup {None, Broken}
  /\ registered \in Flags \cup {None} /\ loaded \in Flags \cup {None}
  /\ legacy \in BOOLEAN /\ (system = "darwin" => ~ legacy)

Processes == [pc : {"off", "listen", "serve"}, flags : Flags, address : Hosts \cup {None}]

\* No two processes listen on one address, the one at the terminal included.
BackgroundInv ==
  /\ background \in [{"service", "legacy"} -> Processes]
  /\ \A i \in {"service", "legacy"} :
       /\ background[i].pc = "serve" <=> background[i].address # None
       /\ background[i].address # None => background[i].address # run.address
       /\ background[i] # Off => background[i].flags.host \in Hosts
  /\ system = "darwin" => background["legacy"] = Off

\* Setup is only asked for while the file does not say that it is complete.
SetupInv ==
  /\ LoadConfig.complete => LoadConfig.peers = accepted
  /\ setUp => LoadConfig.complete
  /\ run.pc \in {"ask", "save"} => ~ LoadConfig.complete
  /\ run.pc = "save" => accepted = run.peers

\* Nothing of this program runs in the background or is kept running.
Quiet == loaded = None /\ \A i \in {"service", "legacy"} : background[i] = Off

\* How far the steps of an installation or of its removal have brought it.
ManageInv ==
  run.pc = "manage" =>
    /\ installed = None
    /\ run.todo \in {<<"unload", "load">>, <<"legacy", "load">>, <<"load">>}
         => registered = run.flags
    /\ run.todo \in {<<"load">>, <<"write", "legacy", "load">>, <<"legacy", "load">>,
                     <<"erase">>, <<"erase", "legacy">>, <<"legacy">>} => Quiet
    /\ run.todo = <<"legacy">> => registered = None
    /\ run.todo = <<"load">> => ~ legacy

\* What runs with the registered flags.
Fits(i, flags) ==
  /\ background[i].flags.peers = flags.peers /\ background[i].flags.files = flags.files
  /\ flags.host \in {None, background[i].flags.host}

InstalledInv ==
  installed # None =>
    /\ run.pc # "manage" /\ ~ legacy /\ loaded = registered
    /\ installed = IF registered = None THEN {} ELSE {registered}
    /\ background["legacy"] = Off
    /\ background["service"] # Off => registered # None /\ Fits("service", registered)

Inv == RunType /\ FilesType /\ BackgroundInv /\ SetupInv /\ ManageInv /\ InstalledInv

-----------------------------------------------------------------------------
LEMMA ConstantFacts ==
  /\ None \notin Flags /\ None \notin Configs /\ None \notin Hosts /\ Broken \notin Configs
  /\ CommandLines \subseteq Flags /\ OldConfigs \subseteq Configs
  /\ NoFlags \in Flags /\ DefaultConfig \in Configs /\ ~ DefaultConfig.complete
  BY SetupAssumption DEF Flags, NoFlags, DefaultConfig, Configs, Hosts

LEMMA LoadedConfig ==
  ASSUME FilesType
  PROVE  LoadConfig \in Configs
  BY ConstantFacts DEF FilesType, LoadConfig

\* CLI flags and file together.
LEMMA Overridden ==
  ASSUME NEW flags \in Flags, NEW cfg \in Configs
  PROVE  HostOf(flags, cfg) \in Hosts /\ flags.host \in {None, HostOf(flags, cfg)}
  BY ConstantFacts DEF HostOf, Flags, Configs

\* Whatever is left of the file that SaveConfig writes, it is complete only if
\* all of it is there.
LEMMA SavedFile ==
  ASSUME RunType, run.pc = "save"
  PROVE  /\ Setting \in Configs /\ Setting.complete /\ Setting.peers = run.peers
         /\ \A c \in CutOff(Setting) : c = Broken \/ (c \in Configs /\ ~ c.complete)
<1>1. run.config \in Configs /\ run.peers \in SUBSET Peers
  BY DEF RunType, Runs
<1>2. Setting = [peers |-> run.peers, host |-> run.config.host, complete |-> TRUE]
  <2> DEFINE withPeers == [run.config EXCEPT !.peers = run.peers]
  <2>1. withPeers = [peers |-> run.peers, host |-> run.config.host, complete |-> run.config.complete]
    BY <1>1 DEF Configs
  <2>2. Setting = [withPeers EXCEPT !.complete = TRUE]
    BY DEF Setting
  <2> HIDE DEF withPeers
  <2> QED BY <2>1, <2>2
<1>3. Setting \in Configs
  BY <1>1, <1>2 DEF Configs
<1>4. ASSUME NEW c \in CutOff(Setting)
      PROVE  c = Broken \/ (c \in Configs /\ ~ c.complete)
  <2>1. CASE c \in {Broken, DefaultConfig}
    BY <2>1, ConstantFacts
  <2>2. CASE c = [Setting EXCEPT !.complete = FALSE]
    BY <1>3, <2>2 DEF Configs
  <2>3. ASSUME NEW P \in SUBSET (Setting.peers \cup {Garbled}), c = [DefaultConfig EXCEPT !.peers = P]
        PROVE  c \in Configs /\ ~ c.complete
    <3>1. P \in SUBSET (Peers \cup {Garbled})
      BY <1>1, <1>2
    <3> QED BY <2>3, <3>1 DEF DefaultConfig, Configs, Hosts
  <2> QED BY <2>1, <2>2, <2>3 DEF CutOff
<1> QED BY <1>2, <1>3, <1>4

\* A process that was just started.
LEMMA StartedProcess ==
  ASSUME FilesType, NEW flags \in Flags
  PROVE  /\ Started(flags) \in Processes /\ Started(flags).address = None
         /\ Started(flags).pc # "serve"
         /\ Started(flags) # Off => /\ Started(flags).flags.host \in Hosts
                                    /\ Started(flags).flags.peers = flags.peers
                                    /\ Started(flags).flags.files = flags.files
                                    /\ flags.host \in {None, Started(flags).flags.host}
<1> DEFINE host == HostOf(flags, LoadConfig)
           p == [pc |-> "listen", flags |-> [flags EXCEPT !.host = host], address |-> None]
<1>1. host \in Hosts /\ flags.host \in {None, host}
  BY LoadedConfig, Overridden
<1> HIDE DEF host
<1>2. p \in Processes /\ p.flags.peers = flags.peers /\ p.flags.files = flags.files
      /\ p.flags.host = host
  BY <1>1 DEF Processes, Flags
<1>3. Off \in Processes /\ Off.address = None /\ Off.pc = "off"
  BY ConstantFacts DEF Off, Processes
<1>4. Started(flags) \in {Off, p}
  BY DEF Started, host
<1>5. p.pc = "listen" /\ p.address = None
  OBVIOUS
<1> HIDE DEF p
<1> QED BY <1>1, <1>2, <1>3, <1>4, <1>5

\* An action leaves the parts alone whose variables it does not touch.
LEMMA Untouched ==
  /\ RunType /\ UNCHANGED <<system, run>> => RunType'
  /\ FilesType /\ UNCHANGED <<system, net, config, registered, loaded, legacy>> => FilesType'
  /\ BackgroundInv /\ UNCHANGED <<system, background, run>> => BackgroundInv'
  /\ SetupInv /\ UNCHANGED <<config, accepted, setUp, run>> => SetupInv'
  /\ ManageInv /\ UNCHANGED <<run, installed, registered, loaded, legacy, background>> => ManageInv'
  /\ InstalledInv /\ UNCHANGED <<run, installed, registered, loaded, legacy, background>>
       => InstalledInv'
  BY DEF RunType, Runs, Steps, FilesType, BackgroundInv, SetupInv, LoadConfig, ManageInv, Quiet,
         InstalledInv, Fits

LEMMA IdleRun == Idle \in Runs /\ Idle.pc = "idle" /\ Idle.address = None
  BY ConstantFacts DEF Runs, Idle

LEMMA InitInv == Init => Inv
<1> SUFFICES ASSUME Init PROVE Inv
  OBVIOUS
<1> USE ConstantFacts DEF Init
<1>1. RunType
  BY IdleRun DEF RunType
<1>2. FilesType
  <2>1. net \in Networks
    BY DEF Networks
  <2>2. legacy \in BOOLEAN /\ (system = "darwin" => ~ legacy)
    OBVIOUS
  <2> QED BY <2>1, <2>2 DEF FilesType
<1>3. BackgroundInv
  BY DEF BackgroundInv, Processes, Off, Idle
<1>4. SetupInv
  BY DEF SetupInv, Idle
<1>5. ManageInv /\ InstalledInv
  BY DEF ManageInv, InstalledInv, Idle
<1> QED BY <1>1, <1>2, <1>3, <1>4, <1>5 DEF Inv

-----------------------------------------------------------------------------
(* The steps at the terminal *)

\* The process at the terminal ends.
LEMMA EndKeeps ==
  ASSUME Inv, End, UNCHANGED <<system, registered, loaded, legacy, background, installed>>
  PROVE  RunType' /\ BackgroundInv' /\ ManageInv' /\ InstalledInv'
<1> USE IdleRun DEF Inv, End
<1>1. RunType'
  BY DEF RunType, Runs, Steps
<1>2. BackgroundInv'
  BY DEF BackgroundInv
<1>3. ManageInv' /\ InstalledInv'
  BY DEF ManageInv, InstalledInv, Fits
<1> QED BY <1>1, <1>2, <1>3

LEMMA RunClipallStep ==
  ASSUME Inv, NEW flags \in CommandLines, RunClipall(flags) PROVE Inv'
<1> USE Untouched DEF Inv
<1> DEFINE cfg == LoadConfig
           due == flags = NoFlags /\ ~ cfg.complete
           begun == [Idle EXCEPT !.pc = IF due THEN "ask" ELSE "listen", !.flags = flags,
                                 !.config = cfg]
<1>1. FilesType'
  BY DEF RunClipall
<1>2. CASE End
  <2>1. SetupInv'
    BY <1>2, IdleRun DEF RunClipall, End, SetupInv, LoadConfig
  <2> QED BY <1>1, <1>2, <2>1, EndKeeps DEF RunClipall
<1>3. CASE run' = begun
  <2>1. flags \in Flags /\ cfg \in Configs
    BY ConstantFacts, LoadedConfig
  <2>2. /\ begun \in Runs /\ begun.config = cfg /\ begun.address = None
        /\ begun.pc = IF due THEN "ask" ELSE "listen"
    <3> HIDE DEF cfg, due
    <3> QED BY <2>1, IdleRun DEF Runs, Idle
  <2> HIDE DEF begun
  <2>3. RunType'
    BY <1>3, <2>1, <2>2 DEF RunClipall, RunType, Runs, Steps
  <2>4. BackgroundInv'
    BY <1>3, <2>2 DEF RunClipall, BackgroundInv
  <2>5. SetupInv'
    BY <1>3, <2>2 DEF RunClipall, SetupInv, LoadConfig
  <2>6. ManageInv' /\ InstalledInv'
    BY <1>3, <2>2 DEF RunClipall, ManageInv, InstalledInv, Fits
  <2> QED BY <1>1, <2>3, <2>4, <2>5, <2>6
<1> QED BY <1>2, <1>3 DEF RunClipall

LEMMA RunManagementStep ==
  ASSUME Inv, NEW flags \in Flags, NEW steps \in {InstallSteps, UninstallSteps},
         RunManagement(flags, steps)
  PROVE  Inv'
<1> USE Untouched DEF Inv
<1> DEFINE begun == [Idle EXCEPT !.pc = "manage", !.flags = flags, !.todo = steps]
<1>1. FilesType'
  BY DEF RunManagement
<1>2. /\ steps \in Steps
      /\ steps \in {<<"write", "unload", "load">>, <<"unload", "write", "legacy", "load">>,
                    <<"unload", "erase">>, <<"unload", "erase", "legacy">>}
  BY DEF InstallSteps, UninstallSteps, Steps
<1>3. begun \in Runs /\ begun.pc = "manage" /\ begun.todo = steps /\ begun.address = None
  <2> HIDE DEF Steps
  <2> QED BY <1>2, IdleRun DEF Runs, Idle
<1>4. run' = begun /\ installed' = None
  BY DEF RunManagement
<1> HIDE DEF begun
<1>5. RunType'
  BY <1>2, <1>3, <1>4 DEF RunManagement, RunType, Runs, Steps
<1>6. BackgroundInv'
  BY <1>3, <1>4 DEF RunManagement, BackgroundInv
<1>7. SetupInv'
  BY <1>3, <1>4 DEF RunManagement, SetupInv, LoadConfig
<1>8. ManageInv' /\ InstalledInv'
  BY <1>2, <1>3, <1>4 DEF ManageInv, InstalledInv
<1> QED BY <1>1, <1>5, <1>6, <1>7, <1>8

LEMMA AskStep == ASSUME Inv, Ask PROVE Inv'
<1> USE Untouched DEF Inv
<1>1. FilesType'
  BY DEF Ask
<1>2. CASE End /\ UNCHANGED accepted
  <2>1. SetupInv'
    BY <1>2, IdleRun DEF Ask, End, SetupInv, LoadConfig
  <2> QED BY <1>1, <1>2, <2>1, EndKeeps DEF Ask
<1>3. ASSUME NEW found \in SUBSET Peers, NEW autostart \in BOOLEAN, accepted' = found,
             run' = [run EXCEPT !.pc = "save", !.peers = found, !.autostart = autostart]
      PROVE  Inv'
  <2>1. /\ run' \in Runs /\ run'.pc = "save" /\ run'.peers = found /\ run'.config = run.config
        /\ run'.address = run.address /\ run.pc = "ask"
    BY <1>3 DEF Ask, RunType, Runs
  <2>2. RunType'
    BY <2>1 DEF Ask, RunType, Runs, Steps
  <2>3. BackgroundInv'
    BY <2>1 DEF Ask, BackgroundInv
  <2>4. SetupInv'
    BY <1>3, <2>1 DEF Ask, SetupInv, LoadConfig
  <2>5. ManageInv' /\ InstalledInv'
    BY <2>1 DEF Ask, ManageInv, InstalledInv, Fits
  <2> QED BY <1>1, <2>2, <2>3, <2>4, <2>5
<1> QED BY <1>2, <1>3 DEF Ask

LEMMA SaveStep == ASSUME Inv, Save PROVE Inv'
<1> USE Untouched DEF Inv
<1>1. /\ Setting \in Configs /\ Setting.complete /\ Setting.peers = run.peers
      /\ run.pc = "save" /\ run.config \in Configs /\ run.peers \in SUBSET Peers
      /\ run.address = None /\ run \in Runs
  BY SavedFile DEF Save, RunType, Runs
<1>2. FilesType'
  BY <1>1 DEF Save, FilesType
<1>3. LoadConfig' = Setting
  BY <1>1, ConstantFacts DEF Save, LoadConfig
<1>4. /\ run' \in Runs /\ run'.pc = IF run.autostart THEN "manage" ELSE "listen"
      /\ run'.config = run.config /\ run'.address = None
      /\ run.autostart => run'.todo = InstallSteps
  <2> DEFINE flags == [run.flags EXCEPT !.peers = run.peers]
  <2>1. flags \in Flags
    BY <1>1 DEF Runs, Flags
  <2>2. run' = IF run.autostart
                 THEN [run EXCEPT !.pc = "manage", !.todo = InstallSteps, !.flags = flags]
                 ELSE [run EXCEPT !.pc = "listen", !.flags = flags]
    BY DEF Save
  <2>3. InstallSteps \in Steps
    BY DEF InstallSteps, Steps
  <2> HIDE DEF flags
  <2> QED BY <1>1, <2>1, <2>2, <2>3 DEF Runs
<1>5. RunType'
  <2>1. InstallSteps \in Steps' /\ Runs' = Runs
    BY DEF Save, InstallSteps, Steps, Runs
  <2> QED BY <1>1, <1>4, <2>1 DEF RunType
<1>6. BackgroundInv'
  BY <1>1, <1>4 DEF Save, BackgroundInv
<1>7. SetupInv'
  BY <1>1, <1>3, <1>4 DEF Save, SetupInv
<1>8. ManageInv' /\ InstalledInv'
  <2>1. CASE run.autostart
    BY <1>4, <2>1 DEF Save, InstallSteps, ManageInv, InstalledInv
  <2>2. CASE ~ run.autostart
    BY <1>1, <1>4, <2>2 DEF Save, ManageInv, InstalledInv, Fits
  <2> QED BY <2>1, <2>2
<1> QED BY <1>2, <1>5, <1>6, <1>7, <1>8

\* A file that was cut off is not complete.
LEMMA CutOffKeeps ==
  ASSUME Inv, run.pc = "save", config' \in {config} \cup CutOff(Setting), run' = Idle,
         UNCHANGED <<accepted, setUp, system, net>>
  PROVE  SetupInv' /\ config' \in Configs \cup {None, Broken}
<1>1. ~ LoadConfig'.complete /\ config' \in Configs \cup {None, Broken}
  <2>1. CASE config' = config
    BY <2>1 DEF Inv, SetupInv, LoadConfig, FilesType
  <2>2. CASE config' \in CutOff(Setting)
    BY <2>2, SavedFile, ConstantFacts DEF Inv, LoadConfig
  <2> QED BY <2>1, <2>2
<1> QED BY <1>1, IdleRun DEF Inv, SetupInv

LEMMA RunFailsStep ==
  ASSUME Inv, SaveFails \/ ManageFails \/ RunEnds PROVE Inv'
<1> USE Untouched DEF Inv
<1>1. CASE SaveFails
  <2>1. SetupInv' /\ FilesType'
    BY <1>1, CutOffKeeps DEF SaveFails, End, FilesType
  <2> QED BY <1>1, <2>1, EndKeeps DEF SaveFails
<1>2. CASE ManageFails \/ RunEnds
  <2>1. FilesType'
    BY <1>2 DEF ManageFails, RunEnds
  <2>2. SetupInv'
    BY <1>2, IdleRun DEF ManageFails, RunEnds, End, SetupInv, LoadConfig
  <2> QED BY <1>2, <2>1, <2>2, EndKeeps DEF ManageFails, RunEnds
<1> QED BY <1>1, <1>2

\* What the system does of a step, for every kind of step.
LEMMA ManageShape ==
  ASSUME Inv, ManageStep
  PROVE  /\ run.todo \in Steps /\ run.flags \in Flags /\ run.address = None
         /\ FilesType' /\ BackgroundInv'
         /\ UNCHANGED <<system, config, accepted, setUp>>
<1> USE ConstantFacts, IdleRun DEF Inv
<1>1. run.todo \in Steps /\ run.flags \in Flags /\ run.address = None
  BY DEF ManageStep, RunType, Runs
<1>2. UNCHANGED <<system, net, config, used, accepted, setUp>>
  BY DEF ManageStep
<1> DEFINE step == Head(run.todo)
<1>3. step \in {"write", "erase", "legacy", "load", "unload"}
  BY <1>1 DEF Steps
<1>4. Manage(step)
  BY DEF ManageStep
<1> HIDE DEF step
<1>5. /\ registered' \in {registered, run.flags, None} /\ loaded' \in {loaded, registered, None}
      /\ legacy' = legacy \/ legacy' = FALSE
      /\ \/ UNCHANGED background
         \/ background' = [i \in DOMAIN background |->
                             IF system = "windows" \/ i = "service" THEN Off ELSE background[i]]
  BY <1>3, <1>4 DEF Manage
<1>6. FilesType'
  <2>1. registered' \in Flags \cup {None} /\ loaded' \in Flags \cup {None}
    BY <1>1, <1>5 DEF FilesType
  <2>2. legacy' \in BOOLEAN /\ (legacy' => legacy)
    <3>1. legacy \in BOOLEAN
      BY DEF FilesType
    <3>2. CASE legacy' = legacy
      BY ONLY <3>1, <3>2
    <3>3. CASE legacy' = FALSE
      BY ONLY <3>3
    <3> QED BY <1>5, <3>2, <3>3
  <2> QED BY <1>2, <2>1, <2>2 DEF FilesType
<1>7. run'.address = None
  BY <1>1 DEF ManageStep, End, RunType, Runs
<1>8. background' \in [{"service", "legacy"} -> Processes]
      /\ \A i \in {"service", "legacy"} : background'[i] \in {background[i], Off}
  <2>1. Off \in Processes
    BY DEF Off, Processes
  <2> QED BY <1>5, <2>1 DEF BackgroundInv
<1>9. BackgroundInv'
  BY <1>1, <1>2, <1>7, <1>8 DEF BackgroundInv, Off
<1> QED BY <1>1, <1>2, <1>6, <1>9

\* The last step of a command.
LEMMA LastStep ==
  ASSUME Inv, ManageStep, Len(run.todo) = 1
  PROVE  Inv'
<1> USE IdleRun DEF Inv
<1>1. /\ run.todo \in Steps /\ FilesType' /\ BackgroundInv' /\ run.pc = "manage"
      /\ UNCHANGED <<system, config, accepted, setUp>>
  BY ManageShape DEF ManageStep
<1>2. run' = Idle /\ installed' = IF Head(run.todo) = "load" THEN {run.flags} ELSE {}
  BY DEF ManageStep, End
<1>3. RunType' /\ SetupInv' /\ ManageInv'
  BY <1>1, <1>2 DEF RunType, Runs, Steps, SetupInv, LoadConfig, ManageInv
<1>4. run.todo \in {<<"load">>, <<"erase">>, <<"legacy">>}
  BY <1>1 DEF Steps
<1>5. Quiet
  BY <1>1, <1>4 DEF ManageInv
<1>6. InstalledInv'
  <2>1. CASE run.todo = <<"load">>
    <3>1. Head(run.todo) = "load" /\ registered = run.flags /\ ~ legacy
      BY <1>1, <2>1 DEF ManageInv
    <3>2. loaded' = registered /\ UNCHANGED <<registered, legacy, background>>
      BY <3>1 DEF ManageStep, Manage
    <3>3. registered # None
      BY <3>1, ManageShape, ConstantFacts
    <3> QED BY <1>2, <1>5, <3>1, <3>2, <3>3 DEF InstalledInv, Quiet
  <2>2. CASE run.todo = <<"erase">>
    <3>1. Head(run.todo) = "erase" /\ ~ legacy
      BY <1>1, <2>2 DEF Steps, FilesType
    <3>2. registered' = None /\ UNCHANGED <<loaded, legacy, background>>
      BY <3>1 DEF ManageStep, Manage
    <3> QED BY <1>2, <1>5, <3>1, <3>2 DEF InstalledInv, Quiet
  <2>3. CASE run.todo = <<"legacy">>
    <3>1. Head(run.todo) = "legacy" /\ registered = None
      BY <1>1, <2>3 DEF ManageInv
    <3>2. legacy' = FALSE /\ UNCHANGED <<registered, loaded, background>>
      BY <3>1 DEF ManageStep, Manage
    <3> QED BY <1>2, <1>5, <3>1, <3>2 DEF InstalledInv, Quiet
  <2> QED BY <1>4, <2>1, <2>2, <2>3
<1> QED BY <1>1, <1>3, <1>6

LEMMA Tail2 == ASSUME NEW a, NEW b PROVE Head(<<a, b>>) = a /\ Tail(<<a, b>>) = <<b>>
  OBVIOUS

LEMMA Tail3 ==
  ASSUME NEW a, NEW b, NEW c PROVE Head(<<a, b, c>>) = a /\ Tail(<<a, b, c>>) = <<b, c>>
  OBVIOUS

LEMMA Tail4 ==
  ASSUME NEW a, NEW b, NEW c, NEW d
  PROVE  Head(<<a, b, c, d>>) = a /\ Tail(<<a, b, c, d>>) = <<b, c, d>>
  OBVIOUS

\* What is first, and what is left, of the steps that are not the last.
LEMMA Remaining ==
  ASSUME NEW s \in {<<"write", "unload", "load">>,
                    <<"unload", "load">>,
                    <<"unload", "erase">>,
                    <<"unload", "write", "legacy", "load">>,
                    <<"write", "legacy", "load">>,
                    <<"legacy", "load">>,
                    <<"unload", "erase", "legacy">>,
                    <<"erase", "legacy">>}
  PROVE  \/ s = <<"write", "unload", "load">> /\ Head(s) = "write" /\ Tail(s) = <<"unload", "load">>
         \/ s = <<"unload", "load">> /\ Head(s) = "unload" /\ Tail(s) = <<"load">>
         \/ s = <<"unload", "erase">> /\ Head(s) = "unload" /\ Tail(s) = <<"erase">>
         \/ s = <<"unload", "write", "legacy", "load">> /\ Head(s) = "unload" /\ Tail(s) = <<"write", "legacy", "load">>
         \/ s = <<"write", "legacy", "load">> /\ Head(s) = "write" /\ Tail(s) = <<"legacy", "load">>
         \/ s = <<"legacy", "load">> /\ Head(s) = "legacy" /\ Tail(s) = <<"load">>
         \/ s = <<"unload", "erase", "legacy">> /\ Head(s) = "unload" /\ Tail(s) = <<"erase", "legacy">>
         \/ s = <<"erase", "legacy">> /\ Head(s) = "erase" /\ Tail(s) = <<"legacy">>
<1>1. CASE s = <<"write", "unload", "load">>
  BY ONLY <1>1, Tail3
<1>2. CASE s = <<"unload", "load">>
  BY ONLY <1>2, Tail2
<1>3. CASE s = <<"unload", "erase">>
  BY ONLY <1>3, Tail2
<1>4. CASE s = <<"unload", "write", "legacy", "load">>
  BY ONLY <1>4, Tail4
<1>5. CASE s = <<"write", "legacy", "load">>
  BY ONLY <1>5, Tail3
<1>6. CASE s = <<"legacy", "load">>
  BY ONLY <1>6, Tail2
<1>7. CASE s = <<"unload", "erase", "legacy">>
  BY ONLY <1>7, Tail3
<1>8. CASE s = <<"erase", "legacy">>
  BY ONLY <1>8, Tail2
<1> QED BY <1>1, <1>2, <1>3, <1>4, <1>5, <1>6, <1>7, <1>8

\* A step before the last one: its effect is what the rest of the steps rely on.
LEMMA EarlierStep ==
  ASSUME Inv, ManageStep, Len(run.todo) # 1
  PROVE  Inv'
<1> USE DEF Inv
<1>1. /\ run.todo \in Steps /\ FilesType' /\ BackgroundInv' /\ run.pc = "manage"
      /\ UNCHANGED <<system, config, accepted, setUp>> /\ installed = None
  BY ManageShape DEF ManageStep, ManageInv
<1>2. run' = [run EXCEPT !.todo = Tail(@)] /\ UNCHANGED installed
  BY DEF ManageStep
<1>3. run.todo \in {<<"write", "unload", "load">>, <<"unload", "load">>, <<"unload", "erase">>,
                    <<"unload", "write", "legacy", "load">>, <<"write", "legacy", "load">>,
                    <<"legacy", "load">>, <<"unload", "erase", "legacy">>, <<"erase", "legacy">>}
  BY <1>1 DEF Steps
<1>4. Tail(run.todo) \in Steps
  <2>1. CASE system = "darwin"
    <3>1. run.todo \in {<<"write", "unload", "load">>, <<"unload", "load">>, <<"unload", "erase">>}
      BY <1>1, <2>1 DEF Steps
    <3>2. Tail(run.todo) \in {<<"unload", "load">>, <<"load">>, <<"erase">>}
      BY <3>1, Remaining
    <3> QED BY <2>1, <3>2 DEF Steps
  <2>2. CASE system # "darwin"
    <3>1. run.todo \in {<<"unload", "write", "legacy", "load">>, <<"write", "legacy", "load">>,
                        <<"legacy", "load">>, <<"unload", "erase", "legacy">>,
                        <<"erase", "legacy">>}
      BY <1>1, <2>2 DEF Steps
    <3>2. Tail(run.todo) \in {<<"write", "legacy", "load">>, <<"legacy", "load">>, <<"load">>,
                              <<"erase", "legacy">>, <<"legacy">>}
      BY <3>1, Remaining
    <3> QED BY <2>2, <3>2 DEF Steps
  <2> QED BY <2>1, <2>2
<1>5. /\ run' \in Runs /\ run'.pc = "manage" /\ run'.todo = Tail(run.todo)
      /\ run'.flags = run.flags /\ run'.address = run.address
  BY <1>1, <1>2, <1>4 DEF RunType, Runs
<1>6. RunType' /\ SetupInv' /\ InstalledInv'
  BY <1>1, <1>2, <1>4, <1>5 DEF RunType, Runs, Steps, SetupInv, LoadConfig, InstalledInv
<1>7. ManageInv'
  <2>1. CASE Head(run.todo) = "unload"
    <3>1. loaded' = None /\ UNCHANGED <<registered, legacy>>
          /\ background' = [i \in DOMAIN background |->
                              IF system = "windows" \/ i = "service" THEN Off ELSE background[i]]
      BY <2>1 DEF ManageStep, Manage
    <3>2. Quiet'
      BY <1>1, <3>1 DEF Quiet, BackgroundInv, FilesType
    <3>3. CASE run.todo = <<"unload", "load">>
      <4>1. system = "darwin" /\ registered = run.flags /\ Tail(run.todo) = <<"load">>
        BY <1>1, <3>3, Tail2 DEF Steps, ManageInv
      <4>2. ~ legacy'
        BY <1>1, <4>1 DEF FilesType
      <4> QED BY <1>1, <1>2, <1>5, <3>1, <3>2, <4>1, <4>2 DEF ManageInv
    <3>4. CASE run.todo # <<"unload", "load">>
      <4>1. \/ Tail(run.todo) = <<"erase">>
            \/ Tail(run.todo) = <<"erase", "legacy">>
            \/ Tail(run.todo) = <<"write", "legacy", "load">>
        BY <1>3, <2>1, <3>4, Remaining
      <4> QED BY <1>1, <1>2, <1>5, <3>2, <4>1 DEF ManageInv
    <3> QED BY <3>3, <3>4
  <2>2. CASE Head(run.todo) = "write"
    <3>1. registered' = run.flags /\ UNCHANGED <<loaded, legacy, background>>
      BY <2>2 DEF ManageStep, Manage
    <3>2. \/ Tail(run.todo) = <<"unload", "load">>
          \/ run.todo = <<"write", "legacy", "load">> /\ Tail(run.todo) = <<"legacy", "load">>
      BY <1>3, <2>2, Remaining
    <3>3. CASE Tail(run.todo) = <<"unload", "load">>
      BY <1>1, <1>2, <1>5, <3>1, <3>3 DEF ManageInv
    <3>4. CASE run.todo = <<"write", "legacy", "load">> /\ Tail(run.todo) = <<"legacy", "load">>
      <4>1. Quiet'
        BY <1>1, <3>1, <3>4 DEF ManageInv, Quiet
      <4> QED BY <1>1, <1>2, <1>5, <3>1, <3>4, <4>1 DEF ManageInv
    <3> QED BY <3>2, <3>3, <3>4
  <2>3. CASE Head(run.todo) = "legacy"
    <3>1. legacy' = FALSE /\ UNCHANGED <<registered, loaded, background>>
      BY <2>3 DEF ManageStep, Manage
    <3>2. run.todo = <<"legacy", "load">> /\ Tail(run.todo) = <<"load">>
      BY <1>3, <2>3, Remaining
    <3>3. Quiet' /\ registered' = run.flags
      BY <1>1, <3>1, <3>2 DEF ManageInv, Quiet
    <3> QED BY <1>1, <1>2, <1>5, <3>1, <3>2, <3>3 DEF ManageInv
  <2>4. CASE Head(run.todo) = "erase"
    <3>1. registered' = None /\ UNCHANGED <<loaded, legacy, background>>
      BY <2>4 DEF ManageStep, Manage
    <3>2. run.todo = <<"erase", "legacy">> /\ Tail(run.todo) = <<"legacy">>
      BY <1>3, <2>4, Remaining
    <3>3. Quiet'
      BY <1>1, <3>1, <3>2 DEF ManageInv, Quiet
    <3> QED BY <1>1, <1>2, <1>5, <3>1, <3>2, <3>3 DEF ManageInv
  <2>5. Head(run.todo) \in {"unload", "write", "legacy", "erase"}
    BY <1>3, Remaining
  <2> QED BY <2>1, <2>2, <2>3, <2>4, <2>5
<1> QED BY <1>1, <1>6, <1>7

LEMMA RunListensStep == ASSUME Inv, RunListens PROVE Inv'
<1> USE Untouched DEF Inv
<1> DEFINE host == HostOf(run.flags, run.config)
<1>1. run.config \in Configs /\ run.flags \in Flags /\ run.pc = "listen" /\ run \in Runs
      /\ run.address = None
  BY DEF RunListens, RunType, Runs
<1>2. host \in Hosts
  BY <1>1, Overridden
<1>3. FilesType'
  BY DEF RunListens
<1>4. CASE End
  <2>1. SetupInv'
    BY <1>4, IdleRun DEF RunListens, End, SetupInv, LoadConfig
  <2> QED BY <1>3, <1>4, <2>1, EndKeeps DEF RunListens
<1>5. CASE Listen(host, run.flags.files) = "listens"
           /\ run' = [run EXCEPT !.pc = "serve", !.address = host]
  <2>1. Free(host)
    BY <1>5 DEF Listen
  <2>2. \A i \in {"service", "legacy"} : background[i].address # host
    BY <1>2, <2>1 DEF Free, Listening, BackgroundInv
  <2> HIDE DEF host
  <2>3. run' \in Runs /\ run'.pc = "serve" /\ run'.address = host
    BY <1>1, <1>2, <1>5 DEF Runs
  <2>4. RunType'
    BY <2>3 DEF RunListens, RunType, Runs, Steps
  <2>5. BackgroundInv'
    BY <2>2, <2>3 DEF RunListens, BackgroundInv
  <2>6. SetupInv' /\ ManageInv' /\ InstalledInv'
    BY <2>3 DEF RunListens, SetupInv, LoadConfig, ManageInv, InstalledInv, Fits
  <2> QED BY <1>3, <2>4, <2>5, <2>6
<1>6. CASE UNCHANGED run
  BY <1>3, <1>6 DEF RunListens
<1> QED BY <1>4, <1>5, <1>6 DEF RunListens

-----------------------------------------------------------------------------
(* The steps in the background *)

\* A new state of one process in the background that keeps the invariant.
LEMMA ReplaceProcess ==
  ASSUME Inv, NEW i \in {"service", "legacy"}, NEW p \in Processes,
         background' = [background EXCEPT ![i] = p],
         p.pc = "serve" <=> p.address # None, p.address # None => p.address # run.address,
         p # Off => i = "service" \/ background[i] # Off,
         p # Off /\ installed # None
           => registered # None /\ p.flags.peers = registered.peers
              /\ p.flags.files = registered.files /\ registered.host \in {None, p.flags.host},
         p # Off => ~ (run.pc = "manage" /\ Quiet) /\ p.flags.host \in Hosts,
         UNCHANGED <<system, run, installed, registered, loaded, legacy>>
  PROVE  BackgroundInv' /\ ManageInv' /\ InstalledInv'
<1> USE DEF Inv
<1>1. BackgroundInv'
  BY DEF BackgroundInv
<1>2. background' \in [{"service", "legacy"} -> Processes] /\ background'[i] = p
      /\ \A j \in {"service", "legacy"} : j # i => background'[j] = background[j]
  BY DEF BackgroundInv
<1>3. run.pc = "manage" /\ Quiet => Quiet'
  BY <1>2 DEF Quiet
<1>4. ManageInv'
  BY <1>3 DEF ManageInv
<1>5. InstalledInv'
  BY <1>2 DEF InstalledInv, Fits
<1> QED BY <1>1, <1>4, <1>5

LEMMA ServiceStartsStep == ASSUME Inv, ServiceStarts PROVE Inv'
<1> USE Untouched DEF Inv
<1> DEFINE p == Started(loaded)
<1>1. loaded \in Flags /\ loaded # None
  BY DEF ServiceStarts, FilesType
<1>2. background' = [background EXCEPT !["service"] = p]
  BY DEF ServiceStarts
<1>3. /\ p \in Processes /\ p.address = None /\ p.pc # "serve"
      /\ p # Off => p.flags.host \in Hosts
                    /\ p.flags.peers = loaded.peers /\ p.flags.files = loaded.files
                    /\ loaded.host \in {None, p.flags.host}
  BY <1>1, StartedProcess
<1> HIDE DEF p
<1>4. installed # None => loaded = registered
  BY DEF InstalledInv
<1>5. BackgroundInv' /\ ManageInv' /\ InstalledInv'
  BY <1>1, <1>2, <1>3, <1>4, ReplaceProcess DEF ServiceStarts, Quiet
<1> QED BY <1>5 DEF ServiceStarts

LEMMA ListensStep == ASSUME Inv, NEW i \in {"service", "legacy"}, Listens(i) PROVE Inv'
<1> USE Untouched DEF Inv
<1> DEFINE b == background[i]
           answer == Listen(b.flags.host, b.flags.files)
           serving == [b EXCEPT !.pc = "serve", !.address = b.flags.host]
<1>1. b \in Processes /\ b.pc = "listen" /\ b # Off /\ b.flags.host \in Hosts
  BY DEF Listens, BackgroundInv, Off
<1>2. UNCHANGED <<system, run, installed, registered, loaded, legacy, net, config, accepted, setUp>>
  BY DEF Listens
<1>3. installed # None
        => registered # None /\ b.flags.peers = registered.peers
           /\ b.flags.files = registered.files /\ registered.host \in {None, b.flags.host}
  BY <1>1 DEF InstalledInv, Fits
<1>4. ~ (run.pc = "manage" /\ Quiet)
  BY <1>1 DEF Quiet
<1>5. CASE background' = [background EXCEPT ![i] = b]
  <2>1. UNCHANGED background
    BY <1>5 DEF BackgroundInv
  <2> QED BY <1>2, <2>1
<1>6. CASE background' = [background EXCEPT ![i] = Off]
  <2>1. Off \in Processes /\ Off.pc = "off" /\ Off.address = None
    BY ConstantFacts DEF Off, Processes
  <2>2. BackgroundInv' /\ ManageInv' /\ InstalledInv'
    BY <1>2, <1>6, <2>1, ReplaceProcess
  <2> QED BY <1>2, <2>2
<1>7. CASE answer = "listens" /\ background' = [background EXCEPT ![i] = serving]
  <2>1. Resolves(b.flags.host) /\ Free(b.flags.host)
    BY <1>7 DEF Listen
  <2>2. /\ serving \in Processes /\ serving.pc = "serve" /\ serving.flags = b.flags
        /\ serving.address = b.flags.host /\ serving # Off
    BY <1>1 DEF Processes, Off
  <2>3. b.flags.host # run.address
    BY <1>1, <2>1 DEF Free, Listening
  <2> HIDE DEF serving, b
  <2>4. serving.flags.host \in Hosts /\ serving.address # None
    BY <1>1, <2>2, ConstantFacts
  <2>5. BackgroundInv' /\ ManageInv' /\ InstalledInv'
    BY <1>1, <1>2, <1>3, <1>4, <1>7, <2>2, <2>3, <2>4, ReplaceProcess DEF b
  <2> QED BY <1>2, <2>5
<1> QED BY <1>5, <1>6, <1>7 DEF Listens

LEMMA CrashesStep == ASSUME Inv, NEW i \in {"service", "legacy"}, Crashes(i) PROVE Inv'
<1> USE Untouched DEF Inv
<1>1. background' = [background EXCEPT ![i] = Off]
  BY DEF Crashes
<1>2. Off \in Processes /\ Off.pc = "off" /\ Off.address = None
  BY ConstantFacts DEF Off, Processes
<1>3. BackgroundInv' /\ ManageInv' /\ InstalledInv'
  BY <1>1, <1>2, ReplaceProcess DEF Crashes
<1> QED BY <1>3 DEF Crashes

LEMMA LoginStep == ASSUME Inv, Login PROVE Inv'
<1> USE Untouched, IdleRun DEF Inv
<1>1. run' = Idle /\ loaded' = registered
      /\ UNCHANGED <<system, net, registered, legacy, accepted, setUp, installed>>
  BY DEF Login
<1>2. SetupInv' /\ config' \in Configs \cup {None, Broken}
  <2>1. CASE run.pc = "save"
    BY <1>1, <2>1, CutOffKeeps DEF Login
  <2>2. CASE run.pc # "save"
    BY <1>1, <2>2 DEF Login, SetupInv, LoadConfig, FilesType
  <2> QED BY <2>1, <2>2
<1>3. RunType' /\ FilesType' /\ ManageInv'
  BY <1>1, <1>2 DEF RunType, Runs, Steps, FilesType, ManageInv
<1>4. PICK flags \in Flags :
        background' = [service |-> Off, legacy |-> IF legacy THEN Started(flags) ELSE Off]
  BY ConstantFacts DEF Login
<1> DEFINE p == IF legacy THEN Started(flags) ELSE Off
<1>5. Off \in Processes /\ Off.pc = "off" /\ Off.address = None
  BY ConstantFacts DEF Off, Processes
<1>6. /\ p \in Processes /\ p.address = None /\ p.pc # "serve"
      /\ p # Off => p.flags.host \in Hosts /\ legacy
  BY <1>5, StartedProcess
<1>7. background' = [service |-> Off, legacy |-> p]
  BY <1>4
<1> HIDE DEF p
<1>8. background' \in [{"service", "legacy"} -> Processes]
      /\ background'["service"] = Off /\ background'["legacy"] = p
  BY <1>5, <1>6, <1>7
<1>9. BackgroundInv'
  BY <1>1, <1>5, <1>6, <1>8 DEF BackgroundInv, FilesType
<1>10. InstalledInv'
  BY <1>1, <1>6, <1>8 DEF InstalledInv
<1> QED BY <1>2, <1>3, <1>9, <1>10

LEMMA NetChangesStep == ASSUME Inv, NetChanges PROVE Inv'
<1>1. FilesType'
  BY DEF Inv, NetChanges, FilesType
<1> QED BY <1>1, Untouched DEF Inv, NetChanges

LEMMA StepInv == Inv /\ [Next]_vars => Inv'
<1> SUFFICES ASSUME Inv, [Next]_vars PROVE Inv'
  OBVIOUS
<1>1. CASE UNCHANGED vars
  BY <1>1, Untouched DEF Inv, vars
<1>2. CASE Terminal
  <2>1. ASSUME ManageStep PROVE Inv'
    BY <2>1, LastStep, EarlierStep
  <2>2. ASSUME NEW flags \in CommandLines, RunClipall(flags) \/ RunManagement(flags, InstallSteps)
        PROVE  Inv'
    BY <2>2, RunClipallStep, RunManagementStep, ConstantFacts
  <2>3. ASSUME RunManagement(NoFlags, UninstallSteps) PROVE Inv'
    BY <2>3, RunManagementStep, ConstantFacts
  <2> QED BY <1>2, <2>1, <2>2, <2>3, AskStep, SaveStep, RunFailsStep, RunListensStep DEF Terminal
<1>3. ASSUME NEW i \in DOMAIN background, Listens(i) \/ Crashes(i) PROVE Inv'
  <2>1. i \in {"service", "legacy"}
    BY DEF Inv, BackgroundInv
  <2> QED BY <1>3, <2>1, ListensStep, CrashesStep
<1> QED BY <1>1, <1>2, <1>3, ServiceStartsStep, LoginStep, NetChangesStep DEF Next

LEMMA AlwaysInv == Spec => []Inv
  BY InitInv, StepInv, PTL DEF Spec

-----------------------------------------------------------------------------
(* The properties *)

\* Every variable keeps its type; a process serves exactly while it has an
\* address, and never the one that the process at the terminal listens on.
THEOREM TypeCorrect == Spec => []TypeOK
<1>1. Inv => TypeOK
  <2> SUFFICES ASSUME Inv PROVE TypeOK
    OBVIOUS
  <2>1. run.pc = "manage" => run.todo # << >>
    <3>1. \A steps \in Steps : Len(steps) # 0
      BY DEF Steps
    <3> QED BY <3>1 DEF Inv, RunType
  <2> QED BY <2>1 DEF Inv, RunType, Runs, FilesType, BackgroundInv, Processes, TypeOK
<1> QED BY <1>1, AlwaysInv, PTL

\* Wherever the write of the configuration was cut off, a file that passes for
\* a finished setup holds all peers that the user accepted.
THEOREM WholeSetup == Spec => []CompleteMeansWhole
<1>1. Inv => CompleteMeansWhole
  BY DEF Inv, SetupInv, CompleteMeansWhole
<1> QED BY <1>1, AlwaysInv, PTL

\* main never asks again once a setup was saved, through any crashes, logins
\* and other commands.
THEOREM NeverAskedAgain == Spec => SetupOnce
<1>1. Inv /\ [Next]_vars => [setUp => ~ (run.pc = "idle" /\ run'.pc = "ask")]_vars
  <2> SUFFICES ASSUME Inv, Next, setUp, run.pc = "idle", run'.pc = "ask" PROVE FALSE
    OBVIOUS
  <2>1. LoadConfig.complete
    BY DEF Inv, SetupInv
  <2>2. ASSUME NEW flags \in CommandLines, RunClipall(flags) PROVE FALSE
    <3>1. run' = Idle \/ run' = [Idle EXCEPT !.pc = "listen", !.flags = flags, !.config = LoadConfig]
      <4> DEFINE due == flags = NoFlags /\ ~ LoadConfig.complete
                 pc == IF due THEN "ask" ELSE "listen"
      <4>1. pc = "listen"
        BY <2>1
      <4>2. run' = Idle \/ run' = [Idle EXCEPT !.pc = pc, !.flags = flags, !.config = LoadConfig]
        BY <2>2 DEF RunClipall, End
      <4> HIDE DEF pc
      <4> QED BY <4>1, <4>2
    <3>2. [Idle EXCEPT !.pc = "listen", !.flags = flags, !.config = LoadConfig].pc = "listen"
      BY IdleRun DEF Runs
    <3> QED BY <3>1, <3>2, IdleRun
  <2>3. ASSUME NEW flags, NEW steps, RunManagement(flags, steps) PROVE FALSE
    BY <2>3 DEF RunManagement, Idle
  <2>4. ASSUME ServiceStarts \/ NetChanges
               \/ \E i \in DOMAIN background : Listens(i) \/ Crashes(i)
        PROVE  FALSE
    BY <2>4 DEF ServiceStarts, NetChanges, Listens, Crashes
  <2>5. ASSUME Login PROVE FALSE
    BY <2>5, IdleRun DEF Login
  <2>6. ASSUME Ask \/ Save \/ SaveFails \/ ManageStep \/ ManageFails \/ RunListens \/ RunEnds
        PROVE  FALSE
    BY <2>6 DEF Ask, Save, SaveFails, ManageStep, ManageFails, RunListens, RunEnds
  <2> QED BY <2>2, <2>3, <2>4, <2>5, <2>6 DEF Next, Terminal
<1> QED BY <1>1, AlwaysInv, PTL DEF Spec, SetupOnce

\* After an installation that reported success nothing runs in the background
\* but the service with the flags of that installation, and after a removal
\* nothing at all, whatever ran, was registered or was loaded before.
THEOREM OnlyInstalledRuns == Spec => []InstalledIsWhatRuns
<1>1. Inv => InstalledIsWhatRuns
  <2> SUFFICES ASSUME Inv, installed # None, NEW i \in DOMAIN background, background[i] # Off
               PROVE  \E flags \in installed :
                        /\ background[i].flags.peers = flags.peers
                        /\ background[i].flags.files = flags.files
                        /\ flags.host \in {None, background[i].flags.host}
    BY DEF InstalledIsWhatRuns
  <2>1. i = "service" /\ registered # None /\ Fits("service", registered)
    BY DEF Inv, BackgroundInv, InstalledInv
  <2>2. registered \in installed
    BY <2>1 DEF Inv, InstalledInv
  <2> QED BY <2>1, <2>2 DEF Fits
<1> QED BY <1>1, AlwaysInv, PTL
=============================================================================
