------------------------------- MODULE Setup -------------------------------
(***************************************************************************)
(* Starting clipall (main.go): the command line, the configuration file    *)
(* (config.go), the first-time setup (onboarding.go), the registration at  *)
(* login (autostart_darwin.go, autostart_windows.go), and the start of     *)
(* Node.Run, which listens on an address that network.go finds.            *)
(*                                                                         *)
(* One user at one terminal; what the system starts at login: the launch   *)
(* agent or scheduled task, and on Windows the Run entry of older versions.*)
(***************************************************************************)
EXTENDS Integers, Sequences, FiniteSets

CONSTANTS Peers,        \* addresses of peers
          Garbled,      \* an address that was cut off in the file
          CommandLines, \* the flags that users give
          OldConfigs,   \* configuration files of older versions, of the user, or of a setup before
          Broken,       \* a configuration file that does not parse
          None,
          MaxCommands,  \* bound: commands at the terminal
          MaxCrashes,   \* bound: processes that end by themselves
          MaxLogins,    \* bound: restarts of the machine
          MaxChanges    \* bound: changes of the network

Hosts == {"tailscale", "*"}   \* "*" stands for every explicit address

\* An unset flag is None; the peers' is {}.
Flags == [peers : SUBSET Peers, host : Hosts \cup {None}, files : BOOLEAN]

NoFlags == [peers |-> {}, host |-> None, files |-> TRUE]

Configs == [peers : SUBSET (Peers \cup {Garbled}), host : Hosts, complete : BOOLEAN]

\* None and Broken are none of the values that they stand beside.
ASSUME SetupAssumption ==
  /\ None \notin Flags \cup Configs \cup Hosts
  /\ Broken \notin Configs
  /\ Garbled \notin Peers
  /\ CommandLines \subseteq Flags
  /\ OldConfigs \subseteq Configs
  /\ {MaxCommands, MaxCrashes, MaxLogins, MaxChanges} \subseteq Nat

VARIABLES
  system,      \* the operating system, which never changes
  net,         \* whether Tailscale's command line answers, addresses in its range
  config,      \* the default configuration file, Broken, or None
  registered,  \* the flags that are registered to run at login, or None
  loaded,      \* the flags that launchd or the task scheduler keeps running, or None
  legacy,      \* whether there is a Run entry of an older version
  run,         \* the process at the terminal
  background,  \* the processes of the service and of the Run entry
  used,        \* how often each bound was used
  accepted,    \* history: the peers the user last accepted
  setUp,       \* history: whether a setup was recorded
  installed    \* history: what the last install or uninstall leaves registered: {},
               \* or flags in a set; None if it did not succeed

vars == <<system, net, config, registered, loaded, legacy, run, background, used, accepted,
          setUp, installed>>

Idle == [pc |-> "idle", flags |-> NoFlags, config |-> None, peers |-> {}, autostart |-> FALSE,
         todo |-> << >>, address |-> None]
Off  == [pc |-> "off", flags |-> NoFlags, address |-> None]

DefaultConfig == [peers |-> {}, host |-> "tailscale", complete |-> FALSE]

\* LoadConfig at the default path, where a file that does not parse is ignored.
LoadConfig == IF config \in {None, Broken} THEN DefaultConfig ELSE config

Networks == [cli : BOOLEAN, addresses : 0 .. 2]

Init ==
  /\ system \in {"darwin", "windows"}
  /\ net = [cli |-> TRUE, addresses |-> 1]
  /\ config \in OldConfigs \cup {None, Broken}
  /\ legacy \in IF system = "windows" THEN BOOLEAN ELSE {FALSE}
  /\ registered = None /\ loaded = None
  /\ run = Idle
  /\ background = [i \in {"service", "legacy"} |-> Off]
  /\ used = [commands |-> 0, crashes |-> 0, logins |-> 0, changes |-> 0]
  /\ accepted = IF LoadConfig.complete THEN LoadConfig.peers ELSE None
  /\ setUp = LoadConfig.complete
  /\ installed = None

Use(kind, max) == used[kind] < max /\ used' = [used EXCEPT ![kind] = @ + 1]

-----------------------------------------------------------------------------
(* SaveConfig *)

\* Wrong: the mark of completion is the first field.
CutOffMarkFirst(cfg) ==
  {Broken, DefaultConfig} \cup {[peers |-> P, host |-> cfg.host, complete |-> cfg.complete]
                                    : P \in SUBSET (cfg.peers \cup {Garbled})}

\* What SaveConfig leaves when it is cut off after os.WriteFile emptied the
\* file: its fields in order are the peers, the host, and the mark of completion.
CutOff(cfg) ==
  {Broken, DefaultConfig, [cfg EXCEPT !.complete = FALSE]}
    \cup {[DefaultConfig EXCEPT !.peers = P] : P \in SUBSET (cfg.peers \cup {Garbled})}

-----------------------------------------------------------------------------
(* network.go and Node.listen *)

\* resolveListenHost: Tailscale's own answer, or else the only address in its range.
Resolves(host) == host = "*" \/ net.cli \/ net.addresses = 1

Listening == {a \in Hosts : run.address = a \/ \E i \in DOMAIN background : background[i].address = a}

Free(address) == address \notin Listening

\* Wrong: an address can be shared.
ListenShared(host, files) ==
  IF ~ Resolves(host) THEN IF host = "tailscale" THEN "waits" ELSE "fails"
  ELSE IF files /\ host # "tailscale" THEN "fails" ELSE "listens"

\* Node.listen, which waits for Tailscale only, and the check that follows when
\* files are synchronised.
Listen(host, files) ==
  IF ~ (Resolves(host) /\ Free(host)) THEN IF host = "tailscale" THEN "waits" ELSE "fails"
  ELSE IF files /\ host # "tailscale" THEN "fails" ELSE "listens"

\* CLI flags override the file.
HostOf(flags, cfg)  == IF flags.host = None THEN cfg.host ELSE flags.host
PeersOf(flags, cfg) == IF flags.peers = {} THEN cfg.peers ELSE flags.peers

-----------------------------------------------------------------------------
(* The process at the terminal *)

End == run' = Idle

\* Wrong: the Run entry of older versions stays.
InstallStepsKeepLegacy ==
  IF system = "darwin" THEN <<"write", "unload", "load">> ELSE <<"unload", "write", "load">>

\* What installAutostart and startAutostartNow, or uninstallAutostart, do in order.
InstallSteps ==
  IF system = "darwin" THEN <<"write", "unload", "load">>
                       ELSE <<"unload", "write", "legacy", "load">>
UninstallSteps ==
  IF system = "darwin" THEN <<"unload", "erase">> ELSE <<"unload", "erase", "legacy">>

\* clipall with these flags: setup, if it is due, or the node.
RunClipall(flags) ==
  /\ run.pc = "idle" /\ Use("commands", MaxCommands)
  /\ LET cfg == LoadConfig
         due == flags = NoFlags /\ ~ cfg.complete
     IN  IF ~ due /\ PeersOf(flags, cfg) = {} THEN End
         ELSE run' = [Idle EXCEPT !.pc = IF due THEN "ask" ELSE "listen", !.flags = flags,
                                  !.config = cfg]
  /\ UNCHANGED <<system, net, config, registered, loaded, legacy, background, accepted, setUp, installed>>

RunManagement(flags, steps) ==
  /\ run.pc = "idle" /\ Use("commands", MaxCommands)
  /\ run' = [Idle EXCEPT !.pc = "manage", !.flags = flags, !.todo = steps]
  /\ installed' = None
  /\ UNCHANGED <<system, net, config, registered, loaded, legacy, background, accepted, setUp>>

\* runOnboarding: its questions, between which Tailscale is asked for the peers.
Ask ==
  /\ run.pc = "ask"
  /\ \/ End /\ UNCHANGED accepted   \* no answer, no peers, or not accepted
     \/ /\ net.cli
        /\ \E found \in SUBSET Peers \ {{}}, autostart \in BOOLEAN :
             /\ accepted' = found
             /\ run' = [run EXCEPT !.pc = "save", !.peers = found, !.autostart = autostart]
  /\ UNCHANGED <<system, net, config, registered, loaded, legacy, background, used, setUp, installed>>

\* Wrong: the setup is not recorded.
SettingUnmarked == [run.config EXCEPT !.peers = run.peers]

\* The configuration that main saves.
Setting == [run.config EXCEPT !.peers = run.peers, !.complete = TRUE]

\* SaveConfig, and the installation or the node after it.
Save ==
  /\ run.pc = "save"
  /\ config' = Setting
  /\ setUp' = TRUE
  /\ IF run.autostart
       THEN /\ run' = [run EXCEPT !.pc = "manage", !.todo = InstallSteps, !.flags.peers = run.peers]
            /\ installed' = None
       ELSE run' = [run EXCEPT !.pc = "listen", !.flags.peers = run.peers] /\ UNCHANGED installed
  /\ UNCHANGED <<system, net, registered, loaded, legacy, background, used, accepted>>

\* It fails or the process ends in the middle of it.
SaveFails ==
  /\ run.pc = "save" /\ Use("crashes", MaxCrashes)
  /\ config' \in {config} \cup CutOff(Setting)
  /\ End
  /\ UNCHANGED <<system, net, registered, loaded, legacy, background, accepted, setUp, installed>>

\* The system's part of a management step.  Windows ends every other process of
\* this program, macOS the launch agent only.
Manage(step) ==
  CASE step = "write"  -> registered' = run.flags /\ UNCHANGED <<loaded, legacy, background>>
    [] step = "erase"  -> registered' = None /\ UNCHANGED <<loaded, legacy, background>>
    [] step = "legacy" -> legacy' = FALSE /\ UNCHANGED <<registered, loaded, background>>
    [] step = "load"   -> loaded' = registered /\ UNCHANGED <<registered, legacy, background>>
    [] step = "unload" -> /\ loaded' = None
                          /\ background' = [i \in DOMAIN background |->
                               IF system = "windows" \/ i = "service" THEN Off ELSE background[i]]
                          /\ UNCHANGED <<registered, legacy>>

\* One step succeeds; after the last one the command reports success.
ManageStep ==
  /\ run.pc = "manage"
  /\ Manage(Head(run.todo))
  /\ IF Len(run.todo) = 1
       THEN End /\ installed' = IF Head(run.todo) = "load" THEN {run.flags} ELSE {}
       ELSE run' = [run EXCEPT !.todo = Tail(@)] /\ UNCHANGED installed
  /\ UNCHANGED <<system, net, config, used, accepted, setUp>>

\* A step fails, which unloading never does, and the command with it.
ManageFails ==
  /\ run.pc = "manage" /\ Head(run.todo) # "unload" /\ Use("crashes", MaxCrashes)
  /\ End
  /\ UNCHANGED <<system, net, config, registered, loaded, legacy, background, accepted, setUp, installed>>

RunListens ==
  /\ run.pc = "listen"
  /\ LET host == HostOf(run.flags, run.config) IN
     CASE Listen(host, run.flags.files) = "listens" ->
            run' = [run EXCEPT !.pc = "serve", !.address = host]
       [] Listen(host, run.flags.files) = "fails" -> End
       [] OTHER -> UNCHANGED run
  /\ UNCHANGED <<system, net, config, registered, loaded, legacy, background, used, accepted, setUp, installed>>

\* The user ends it, or it crashes.
RunEnds ==
  /\ run.pc \notin {"idle", "save"} /\ Use("crashes", MaxCrashes)
  /\ End
  /\ UNCHANGED <<system, net, config, registered, loaded, legacy, background, accepted, setUp, installed>>

-----------------------------------------------------------------------------
(* The processes in the background, which are never interactive *)

Started(flags) ==
  LET cfg == LoadConfig IN
  IF PeersOf(flags, cfg) = {} THEN Off
  ELSE [pc |-> "listen", flags |-> [flags EXCEPT !.host = HostOf(flags, cfg)], address |-> None]

\* Wrong: the service starts at login only.
ServiceStartsOnce ==
  /\ loaded # None /\ background["service"] = Off /\ used.crashes = 0
  /\ background' = [background EXCEPT !["service"] = Started(loaded)]
  /\ UNCHANGED <<system, net, config, registered, loaded, legacy, run, used, accepted, setUp, installed>>

\* KeepAlive and RestartCount: whatever its end, the service starts again.
ServiceStarts ==
  /\ loaded # None /\ background["service"] = Off
  /\ background' = [background EXCEPT !["service"] = Started(loaded)]
  /\ UNCHANGED <<system, net, config, registered, loaded, legacy, run, used, accepted, setUp, installed>>

Listens(i) ==
  /\ background[i].pc = "listen"
  /\ LET b == background[i] IN
     background' = [background EXCEPT ![i] =
       CASE Listen(b.flags.host, b.flags.files) = "listens" -> [b EXCEPT !.pc = "serve", !.address = b.flags.host]
         [] Listen(b.flags.host, b.flags.files) = "fails" -> Off
         [] OTHER -> b]
  /\ UNCHANGED <<system, net, config, registered, loaded, legacy, run, used, accepted, setUp, installed>>

Crashes(i) ==
  /\ background[i] # Off /\ Use("crashes", MaxCrashes)
  /\ background' = [background EXCEPT ![i] = Off]
  /\ UNCHANGED <<system, net, config, registered, loaded, legacy, run, accepted, setUp, installed>>

\* The machine restarts; a file that was being written is cut off.
Login ==
  /\ Use("logins", MaxLogins)
  /\ run' = Idle
  /\ IF run.pc = "save" THEN config' \in {config} \cup CutOff(Setting) ELSE UNCHANGED config
  /\ loaded' = registered
  /\ \E flags \in {f \in CommandLines : f.peers # {}} :
       background' = [service |-> Off, legacy |-> IF legacy THEN Started(flags) ELSE Off]
  /\ UNCHANGED <<system, net, registered, legacy, accepted, setUp, installed>>

NetChanges ==
  /\ Use("changes", MaxChanges)
  /\ net' \in Networks \ {net}
  /\ UNCHANGED <<system, config, registered, loaded, legacy, run, background, accepted, setUp, installed>>

-----------------------------------------------------------------------------
Terminal ==
  \/ \E flags \in CommandLines : RunClipall(flags) \/ RunManagement(flags, InstallSteps)
  \/ RunManagement(NoFlags, UninstallSteps)
  \/ Ask \/ Save \/ SaveFails \/ ManageStep \/ ManageFails \/ RunListens \/ RunEnds

Next ==
  \/ Terminal
  \/ ServiceStarts
  \/ \E i \in DOMAIN background : Listens(i) \/ Crashes(i)
  \/ Login \/ NetChanges

\* launchd and the task scheduler restart what ended, and Node.listen tries again
\* every two seconds.
Fairness == WF_vars(ServiceStarts) /\ WF_vars(Listens("service"))

Spec == Init /\ [][Next]_vars /\ Fairness

-----------------------------------------------------------------------------
TypeOK ==
  /\ net \in Networks
  /\ config \in Configs \cup {None, Broken}
  /\ registered \in Flags \cup {None} /\ loaded \in Flags \cup {None}
  /\ run.pc \in {"idle", "ask", "save", "manage", "listen", "serve"}
  /\ run.pc = "manage" => run.todo # << >>
  /\ \A i \in DOMAIN background :
       /\ background[i].pc \in {"off", "listen", "serve"}
       /\ background[i].pc = "serve" <=> background[i].address # None
  /\ \A i \in DOMAIN background : background[i].address # None => background[i].address # run.address

\* A file that says the setup is complete holds the peers the user accepted, all
\* of them, whatever was cut off in between: SaveConfig writes the mark last.
CompleteMeansWhole ==
  LoadConfig.complete => LoadConfig.peers = accepted

\* Once a setup is recorded no later run asks again (README: "completion is
\* recorded separately so later runs do not prompt again").
SetupOnce == [][setUp => ~ (run.pc = "idle" /\ run'.pc = "ask")]_vars

\* What an install that reported success registered is what runs in the
\* background from then on, with these flags and no others; after an uninstall
\* nothing does (README: "Reinstalling autostart replaces the old task and its
\* arguments").  That covers the next logins, older registrations and crashes.
InstalledIsWhatRuns ==
  installed # None =>
    \A i \in DOMAIN background :
      background[i] # Off =>
        \E flags \in installed : /\ background[i].flags.peers = flags.peers
                                 /\ background[i].flags.files = flags.files
                                 /\ flags.host \in {None, background[i].flags.host}

\* The service that is loaded and has peers serves in the end, itself or by the
\* process at the terminal that holds its address, unless Tailscale is away:
\* through crashes, restarts and a late Tailscale.
Wanted == loaded # None /\ PeersOf(loaded, LoadConfig) # {}

ServedInTheEnd ==
  []<>(Wanted => \/ HostOf(loaded, LoadConfig) \in Listening
                 \/ ~ Resolves(HostOf(loaded, LoadConfig)))
=============================================================================
