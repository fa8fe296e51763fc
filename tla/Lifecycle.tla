------------------------------ MODULE Lifecycle ------------------------------
(***************************************************************************)
(* Daemons, the socket path they share, and the commands that start, stop  *)
(* and ask them: IpcServer::init and stop and main() on the one side, the  *)
(* degoon command (main_cli.cpp, ipc_client.cpp) and its dashboard on the  *)
(* other, and the service manager between them.  Any number of commands    *)
(* run at the same time, and a daemon may crash at any step.               *)
(*                                                                         *)
(* A probe connects and closes at once; the daemon reads nothing from it,  *)
(* so it leaves no trace here.  Every probe loop may give up at any time.  *)
(***************************************************************************)
EXTENDS Integers, Sequences, FiniteSets

CONSTANTS
  Clients,      \* terminals, each with one command at a time
  Commands,     \* Commands[c]: the commands that are given in terminal c
  Launchers,    \* how daemons are launched: "service" (installed unit, restarted
                \* on failure), "transient" (systemd-run) or "nohup"
  Keys,         \* the keys that are pressed in a dashboard
  Paddings,     \* what degoon padding is given: any number of hundredths
  MaxDaemons,   \* bound: daemons launched
  MaxCommands,  \* bound: commands given
  MaxCrashes,   \* bound: crashes
  MaxKeys       \* bound: keys pressed before the dashboard reads them

ASSUME MaxDaemonsAssumption == MaxDaemons \in Nat \ {0}
ASSUME PaddingsAssumption == Paddings \subseteq Int

VARIABLES
  launcher,
  \* daemons
  pc,           \* where each daemon is
  listening,    \* its server_fd_ accepts connections
  g_running,
  settings,     \* visual_blur_paused and padding_ratio
  path,         \* the daemon whose socket the path names, alive or not; 0 if none
  alone,        \* history: the daemons launched when no other one could touch
                \*   the path, and followed by none
  \* service manager
  unit,         \* the daemon that is the unit's process, 0 if none
  stopping,     \* the unit is being stopped
  \* commands
  cli,            \* the command of each terminal: where it is, its name, what it asks,
                  \*   the daemon it is connected to (or 0) and whether that answered,
                  \*   and of a dashboard the status it saw, raw_mode_enabled_ and
                  \*   the keys it has not read yet
  given, crashes  \* commands and crashes so far

daemonVars == <<pc, listening, g_running, settings, path, alone>>
managerVars == <<launcher, unit, stopping>>
vars == <<daemonVars, managerVars, cli, given, crashes>>

Daemons == 1 .. MaxDaemons

Launched(d) == pc[d] # "none"
Alive(d) == pc[d] \notin {"none", "gone", "crashed"}

\* d may still remove or bind the path, at its start or at its end.
Meddles(d) == listening[d] \/ pc[d] \in {"unlink", "bind", "listen", "unlinking"}

Reachable == path # 0 /\ listening[path]

Ask(cmd, value) == [cmd |-> cmd, value |-> value]

Status(s) == [running |-> TRUE, paused |-> s.paused, padding |-> s.padding]
Unknown == [running |-> FALSE, paused |-> FALSE, padding |-> 0]   \* nobody answered

Idle == [at |-> "idle", command |-> "none", request |-> Ask("STATUS", 0), conn |-> 0,
         answered |-> FALSE, seen |-> Unknown, raw |-> FALSE, typed |-> <<>>]

Over == {"idle", "killed"}

Places == Over \cup {"probe", "connect", "write", "read", "sysstop", "syswait", "wait",
                     "sysrestart", "launch", "await", "key"}
Requests == [cmd : {"STATUS", "PAUSE", "RESUME", "SET_PADDING", "RELAPSE", "STOP"}, value : Int]
Settings == [paused : BOOLEAN, padding : Int]
Statuses == [running : BOOLEAN, paused : BOOLEAN, padding : Int]
GivenNames == UNION {Commands[c] : c \in Clients}
CommandNames == GivenNames \cup {"none", "tui", "status"}

\* Every variable keeps its type.  Only a daemon that runs or closes listens, a
\* command holds a connection only where it writes and reads, and the terminal
\* is in raw mode exactly while its command is the dashboard: none that is over
\* leaves it there, unless it was killed.
TypeOK ==
  /\ launcher \in Launchers /\ stopping \in BOOLEAN
  /\ {path, unit} \subseteq Daemons \cup {0} /\ alone \subseteq Daemons
  /\ pc \in [Daemons -> {"none", "unlink", "bind", "listen", "run", "closing",
                         "unlinking", "gone", "crashed"}]
  /\ listening \in [Daemons -> BOOLEAN] /\ g_running \in [Daemons -> BOOLEAN]
  /\ settings \in [Daemons -> Settings]
  /\ given \in Nat /\ crashes \in Nat
  /\ cli \in [Clients -> [at : Places, command : CommandNames, request : Requests,
                         conn : Daemons \cup {0}, answered : BOOLEAN, seen : Statuses,
                         raw : BOOLEAN, typed : Seq(Keys)]]
  /\ \A d \in Daemons : listening[d] => pc[d] \in {"run", "closing"}
  /\ \A c \in Clients : /\ (cli[c].conn # 0) = (cli[c].at \in {"write", "read"})
                        /\ cli[c].raw = (cli[c].command = "tui")

Init ==
  /\ launcher \in Launchers
  /\ \E n \in {0, 1} : \* a daemon may have been launched at login
       /\ pc = [d \in Daemons |-> IF d = n THEN "unlink" ELSE "none"]
       /\ alone = {n} \ {0}
       /\ unit = IF launcher = "nohup" THEN 0 ELSE n
  /\ listening = [d \in Daemons |-> FALSE]
  /\ g_running = [d \in Daemons |-> TRUE]
  /\ settings = [d \in Daemons |-> [paused |-> FALSE, padding |-> 35]]
  /\ path = 0 /\ stopping = FALSE
  /\ cli = [c \in Clients |-> Idle]
  /\ given = 0 /\ crashes = 0

-----------------------------------------------------------------------------
(* The daemon: IpcServer::init, the main loop, IpcServer::stop              *)

Goes(d, from, to) == pc[d] = from /\ pc' = [pc EXCEPT ![d] = to]

Others == UNCHANGED <<managerVars, cli, given, crashes>>

\* Mutant: a path that a crash left behind stays.
DaemonUnlinksNot(d) ==
  /\ Goes(d, "unlink", "bind")
  /\ UNCHANGED <<listening, g_running, settings, path, alone>> /\ Others

\* init() removes the path, whoever it belongs to.
DaemonUnlinks(d) ==
  /\ Goes(d, "unlink", "bind")
  /\ path' = 0
  /\ UNCHANGED <<listening, g_running, settings, alone>> /\ Others

DaemonBinds(d) ==
  /\ path = 0
  /\ Goes(d, "bind", "listen")
  /\ path' = d
  /\ UNCHANGED <<listening, g_running, settings, alone>> /\ Others

\* Another daemon has bound in between: main() goes on without a socket.
DaemonBindFails(d) ==
  /\ path # 0
  /\ Goes(d, "bind", "run")
  /\ UNCHANGED <<listening, g_running, settings, path, alone>> /\ Others

DaemonListens(d) ==
  /\ Goes(d, "listen", "run")
  /\ listening' = [listening EXCEPT ![d] = TRUE]
  /\ UNCHANGED <<g_running, settings, path, alone>> /\ Others

\* process_pending: one request of one client, answered at once.
DaemonServes(d, c) ==
  LET r == cli[c].request IN
    /\ pc[d] = "run" /\ g_running[d] /\ listening[d]
    /\ cli[c].conn = d /\ cli[c].at = "read" /\ ~cli[c].answered
    /\ cli' = [cli EXCEPT ![c].answered = TRUE,
                          ![c].seen = IF r.cmd = "STATUS" THEN Status(settings[d]) ELSE @]
    /\ g_running' = [g_running EXCEPT ![d] = r.cmd # "STOP"]
    /\ settings' = [settings EXCEPT
         ![d].paused = IF r.cmd \in {"PAUSE", "RESUME"} THEN r.cmd = "PAUSE" ELSE @,
         ![d].padding = IF r.cmd = "SET_PADDING" THEN r.value ELSE @]
    /\ UNCHANGED <<pc, listening, path, alone, managerVars, given, crashes>>

\* The loop is left, the AI thread joined and the sinkhole stopped.
DaemonLeaves(d) ==
  /\ ~g_running[d]
  /\ Goes(d, "run", "closing")
  /\ UNCHANGED <<listening, g_running, settings, path, alone>> /\ Others

\* stop() closes the socket, if there is one, and only then removes the path,
\* whoever it belongs to by now.
DaemonCloses(d) ==
  /\ Goes(d, "closing", IF listening[d] THEN "unlinking" ELSE "gone")
  /\ listening' = [listening EXCEPT ![d] = FALSE]
  /\ UNCHANGED <<g_running, settings, path, alone>> /\ Others

DaemonUnlinksLast(d) ==
  /\ Goes(d, "unlinking", "gone")
  /\ path' = 0
  /\ UNCHANGED <<listening, g_running, settings, alone>> /\ Others

DaemonStep(d) ==
  \/ DaemonUnlinks(d) \/ DaemonBinds(d) \/ DaemonBindFails(d) \/ DaemonListens(d)
  \/ DaemonLeaves(d) \/ DaemonCloses(d) \/ DaemonUnlinksLast(d)
  \/ \E c \in Clients : DaemonServes(d, c)

\* The kernel closes the socket of a process that is killed; the path stays.
Crash(d) ==
  /\ Alive(d) /\ crashes < MaxCrashes
  /\ crashes' = crashes + 1
  /\ pc' = [pc EXCEPT ![d] = "crashed"]
  /\ listening' = [listening EXCEPT ![d] = FALSE]
  /\ UNCHANGED <<g_running, settings, path, alone, managerVars, cli, given>>

-----------------------------------------------------------------------------
(* The service manager                                                      *)

NextDaemon == Cardinality({d \in Daemons : Launched(d)}) + 1

\* A process is started; the history of who was alone with the path ends here
\* for every other daemon.
Launches ==
  /\ NextDaemon \in Daemons
  /\ pc' = [pc EXCEPT ![NextDaemon] = "unlink"]
  /\ alone' = IF \E d \in Daemons : Meddles(d) THEN {} ELSE {NextDaemon}
  /\ UNCHANGED <<listening, g_running, settings, path>>

UnitAlive == unit # 0 /\ Alive(unit)

\* Restart=on-failure: only of the installed unit, and not of one that was stopped.
ManagerRestarts ==
  /\ launcher = "service" /\ unit # 0 /\ pc[unit] = "crashed" /\ ~stopping
  /\ Launches /\ unit' = NextDaemon
  /\ UNCHANGED <<launcher, stopping, cli, given, crashes>>

\* systemctl stop and the first half of systemctl restart: a signal to the process.
SignalUnit ==
  /\ g_running' = [g_running EXCEPT ![unit] = FALSE]
  /\ stopping' = TRUE
  /\ UNCHANGED <<launcher, unit>>

-----------------------------------------------------------------------------
(* degoon: one command in one terminal                                      *)

At(c, place) == cli[c].at = place
Turns(c, s) == cli' = [cli EXCEPT ![c] = s]
Advances(c, place) == Turns(c, [cli[c] EXCEPT !.at = place])
DaemonsKeep == UNCHANGED <<daemonVars, managerVars, given, crashes>>

\* Where a command begins, and what it asks first; degoon padding is given a
\* number, which nobody checks.
First(cmd) == IF cmd \in {"start", "stop", "restart", "none"} THEN "probe" ELSE "connect"
FirstRequest(cmd, padding) ==
  CASE cmd = "pause" -> Ask("PAUSE", 0) [] cmd = "resume" -> Ask("RESUME", 0)
    [] cmd = "padding" -> Ask("SET_PADDING", padding) [] cmd = "relapse" -> Ask("RELAPSE", 0)
    [] cmd \in {"stop", "restart"} -> Ask("STOP", 0)
    [] OTHER -> Ask("STATUS", 0)

Begin(c) ==
  /\ At(c, "idle") /\ given < MaxCommands
  /\ given' = given + 1
  /\ \E cmd \in Commands[c], padding \in Paddings :
       Turns(c, [Idle EXCEPT !.at = First(cmd), !.command = cmd,
                             !.request = FirstRequest(cmd, padding), !.raw = cmd = "tui"])
  /\ UNCHANGED <<daemonVars, managerVars, crashes>>

\* is_daemon_running, which start, stop and restart begin with, and degoon
\* without a command: it shows the dashboard of a running daemon, or the status.
Probe(c) ==
  LET s == cli[c] IN
    /\ At(c, "probe")
    /\ CASE s.command = "start" -> Turns(c, IF Reachable THEN Idle ELSE [s EXCEPT !.at = "launch"])
         [] s.command = "stop" -> Advances(c, IF Reachable THEN "connect" ELSE "sysstop")
         [] s.command = "restart" -> Advances(c, IF Reachable THEN "connect" ELSE "sysrestart")
         [] s.command = "none" ->
              Turns(c, [s EXCEPT !.at = "connect", !.raw = Reachable,
                                 !.command = IF Reachable THEN "tui" ELSE "status"])
    /\ DaemonsKeep

\* What follows a request, answered or not.  The dashboard reads a key after
\* a status, and asks for the status after anything else.
Proceeds(c, s) ==
  Turns(c, CASE s.command \in {"stop", "restart"} -> [s EXCEPT !.at = "sysstop", !.conn = 0, !.answered = FALSE]
             [] s.command = "tui" ->
                  [s EXCEPT !.at = IF s.request.cmd = "STATUS" THEN "key" ELSE "connect",
                            !.request = Ask("STATUS", 0), !.conn = 0, !.answered = FALSE]
             [] OTHER -> Idle)

SeesStatus(s, status) ==
  IF s.request.cmd = "STATUS" THEN [s EXCEPT !.seen = status] ELSE s

\* send_command: connect ...
Connect(c) ==
  /\ At(c, "connect") /\ Reachable
  /\ Turns(c, [cli[c] EXCEPT !.at = "write", !.conn = path])
  /\ DaemonsKeep

\* ... which fails: no answer, and no status.
ConnectFails(c) ==
  /\ At(c, "connect") /\ ~Reachable
  /\ Proceeds(c, SeesStatus(cli[c], Unknown))
  /\ DaemonsKeep

\* ... write ...
Write(c) ==
  /\ At(c, "write") /\ listening[cli[c].conn]
  /\ Advances(c, "read")
  /\ DaemonsKeep

\* ... to a daemon that has closed its socket since: SIGPIPE kills the command.
WriteKills(c) ==
  /\ At(c, "write") /\ ~listening[cli[c].conn]
  /\ Turns(c, [cli[c] EXCEPT !.at = "killed", !.conn = 0])
  /\ DaemonsKeep

\* ... read, to the end of the answer.
Read(c) ==
  /\ At(c, "read") /\ cli[c].answered
  /\ Proceeds(c, cli[c])
  /\ DaemonsKeep

\* The daemon closed its socket first: an empty answer, which is no OK, but
\* which parse_status turns into the defaults of DaemonStatus.
ReadsNothing(c) ==
  /\ At(c, "read") /\ ~cli[c].answered /\ ~listening[cli[c].conn]
  /\ Proceeds(c, SeesStatus(cli[c], Status([paused |-> FALSE, padding |-> 15])))
  /\ DaemonsKeep

-----------------------------------------------------------------------------
(* stop, start and restart after their request                              *)

DaemonsRun == UNCHANGED <<daemonVars, given, crashes>>

AfterStop(c) == IF cli[c].command = "stop" THEN Turns(c, Idle) ELSE Advances(c, "wait")

\* systemctl stop: there is nothing to stop but a restart in the making ...
SysStopsNothing(c) ==
  /\ At(c, "sysstop") /\ ~UnitAlive
  /\ unit' = 0 /\ stopping' = FALSE
  /\ AfterStop(c)
  /\ UNCHANGED launcher /\ DaemonsRun

\* ... or the process is signalled ...
SysStops(c) ==
  /\ At(c, "sysstop") /\ UnitAlive
  /\ SignalUnit
  /\ Advances(c, "syswait")
  /\ UNCHANGED <<pc, listening, settings, path, alone, given, crashes>>

\* ... and waited for, unless somebody starts the unit again.
SysStopped(c) ==
  /\ At(c, "syswait") /\ (~UnitAlive \/ ~stopping)
  /\ IF UnitAlive THEN UNCHANGED <<unit, stopping>> ELSE unit' = 0 /\ stopping' = FALSE
  /\ AfterStop(c)
  /\ UNCHANGED launcher /\ DaemonsRun

\* Mutant: restart waits for as long as a daemon is running.
RestartWaitsOn(c) ==
  /\ At(c, "wait") /\ ~Reachable
  /\ Advances(c, "sysrestart")
  /\ UNCHANGED managerVars /\ DaemonsRun

\* restart: ten probes, or fewer once nobody answers.
RestartWaits(c) ==
  /\ At(c, "wait")
  /\ Advances(c, "sysrestart")
  /\ UNCHANGED managerVars /\ DaemonsRun

\* systemctl restart: a unit that is running is stopped first.
SysRestarts(c) ==
  /\ At(c, "sysrestart")
  /\ IF UnitAlive THEN SignalUnit ELSE UNCHANGED <<managerVars, g_running>>
  /\ Advances(c, "launch")
  /\ UNCHANGED <<pc, listening, settings, path, alone, given, crashes>>

\* systemctl start, systemd-run or nohup: a unit has one process, after the one
\* that is being stopped; without a unit there may be any number.
Launch(c) ==
  /\ At(c, "launch") /\ ~UnitAlive
  /\ Launches
  /\ unit' = (IF launcher = "nohup" THEN 0 ELSE NextDaemon) /\ stopping' = FALSE
  /\ Advances(c, "await")
  /\ UNCHANGED <<launcher, given, crashes>>

\* The unit is running already, or the program cannot be started.
LaunchesNothing(c) ==
  /\ At(c, "launch") /\ ~(UnitAlive /\ stopping)
  /\ Advances(c, "await")
  /\ UNCHANGED managerVars /\ DaemonsRun

\* Fifteen probes, or fewer once somebody answers; what is left is a message.
Await(c) ==
  /\ At(c, "await")
  /\ Turns(c, Idle)
  /\ UNCHANGED managerVars /\ DaemonsRun

-----------------------------------------------------------------------------
(* TuiDashboard::run                                                        *)

\* The user presses a key, at any time while the dashboard is there.
Type(c) ==
  /\ cli[c].command = "tui" /\ cli[c].at \notin Over /\ Len(cli[c].typed) < MaxKeys
  /\ \E k \in Keys : Turns(c, [cli[c] EXCEPT !.typed = Append(@, k)])
  /\ DaemonsKeep

\* What a key asks of the daemon, going by the last status, if there was one:
\* + never asks for more than 35, and - for no less than 5.
KeyRequest(k, s) ==
  CASE k = "p" /\ s.running -> Ask(IF s.paused THEN "RESUME" ELSE "PAUSE", 0)
    [] k = "+" /\ s.running -> Ask("SET_PADDING", IF s.padding + 5 < 35 THEN s.padding + 5 ELSE 35)
    [] k = "-" /\ s.running -> Ask("SET_PADDING", IF s.padding - 5 > 5 THEN s.padding - 5 ELSE 5)
    [] k = "r" -> Ask("RELAPSE", 0)
    [] OTHER -> Ask("STATUS", 0)

\* 250 ms pass without a key, or one is read; q ends the dashboard.
NoKey(c) ==
  /\ At(c, "key") /\ cli[c].typed = <<>>
  /\ Advances(c, "connect")
  /\ DaemonsKeep

Key(c) ==
  /\ At(c, "key") /\ cli[c].typed # <<>> /\ Head(cli[c].typed) # "q"
  /\ Turns(c, [cli[c] EXCEPT !.at = "connect", !.typed = Tail(@),
                             !.request = KeyRequest(Head(cli[c].typed), cli[c].seen)])
  /\ DaemonsKeep

\* Mutant: the dashboard returns without leaving raw mode.
QuitRaw(c) ==
  /\ At(c, "key") /\ cli[c].typed # <<>> /\ Head(cli[c].typed) = "q"
  /\ Turns(c, [Idle EXCEPT !.raw = TRUE])
  /\ DaemonsKeep

Quit(c) ==
  /\ At(c, "key") /\ cli[c].typed # <<>> /\ Head(cli[c].typed) = "q"
  /\ Turns(c, Idle)
  /\ DaemonsKeep

ClientStep(c) ==
  \/ Probe(c) \/ Connect(c) \/ ConnectFails(c) \/ Write(c) \/ WriteKills(c)
  \/ Read(c) \/ ReadsNothing(c)
  \/ SysStopsNothing(c) \/ SysStops(c) \/ SysStopped(c) \/ RestartWaits(c)
  \/ SysRestarts(c) \/ Launch(c) \/ LaunchesNothing(c) \/ Await(c)
  \/ NoKey(c) \/ Key(c) \/ Quit(c)

Next ==
  \/ \E d \in Daemons : DaemonStep(d) \/ Crash(d)
  \/ ManagerRestarts
  \/ \E c \in Clients : Begin(c) \/ ClientStep(c) \/ Type(c)

\* Processes run.  A daemon looks at g_running in every round of its loop,
\* however many requests there are, and serves its requests in turn.
Fairness ==
  /\ \A d \in Daemons : /\ WF_vars(DaemonStep(d)) /\ WF_vars(DaemonLeaves(d))
                        /\ \A c \in Clients : WF_vars(DaemonServes(d, c))
  /\ \A c \in Clients : WF_vars(ClientStep(c))

Spec == Init /\ [][Next]_vars /\ Fairness

-----------------------------------------------------------------------------

\* A daemon that was launched when no other one could touch the path any more,
\* and that none followed, can be reached for as long as it runs, whatever
\* crashed daemons have left behind: "Unlink any existing stale socket"
\* (ipc_server.cpp:21).
AloneIsReachable ==
  \A d \in alone : pc[d] = "run" => path = d /\ listening[d]

Pressed(c, k) == \E i \in DOMAIN cli[c].typed : cli[c].typed[i] = k

\* Every command comes to an end, and the dashboard after q, whatever daemons
\* start, stop and crash meanwhile: no command waits for a daemon for ever.
CommandsEnd ==
  \A c \in Clients :
    /\ cli[c].at \notin Over ~> cli[c].at \in Over \/ cli[c].command = "tui"
    /\ Pressed(c, "q") ~> cli[c].at \in Over
=============================================================================
