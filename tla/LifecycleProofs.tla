--------------------------- MODULE LifecycleProofs ---------------------------
(***************************************************************************)
(* Proofs about Lifecycle, for any terminals and commands, any launchers   *)
(* and any number of daemons, commands, keys and crashes.                  *)
(***************************************************************************)
EXTENDS Lifecycle, FiniteSetTheorems, SequenceTheorems, TLAPS

-----------------------------------------------------------------------------
(* The type invariant.                                                      *)

\* A command's record: it holds a connection where it writes and reads, only a
\* dashboard is in raw mode, and a probe belongs to a command that Probe knows.
Clis == [at : Places, command : CommandNames, request : Requests,
         conn : Daemons \cup {0}, answered : BOOLEAN, seen : Statuses,
         raw : BOOLEAN, typed : Seq(Keys)]

CliOK(s) ==
  /\ s \in Clis
  /\ s.conn # 0 <=> s.at \in {"write", "read"}
  /\ s.raw = (s.command = "tui")
  /\ s.at = "probe" => s.command \in {"start", "stop", "restart", "none"}

CliInv == cli \in [Clients -> Clis] /\ \A c \in Clients : CliOK(cli[c])

Pcs == {"none", "unlink", "bind", "listen", "run", "closing", "unlinking", "gone", "crashed"}

DaemonInv ==
  /\ pc \in [Daemons -> Pcs]
  /\ listening \in [Daemons -> BOOLEAN]
  /\ \A d \in Daemons : listening[d] => pc[d] \in {"run", "closing"}
  /\ g_running \in [Daemons -> BOOLEAN]
  /\ settings \in [Daemons -> Settings]
  /\ {path, unit} \subseteq Daemons \cup {0}
  /\ launcher \in Launchers

\* Daemons are launched in the order of their numbers.
LaunchedInOrder == \A d, e \in Daemons : d < e /\ Launched(e) => Launched(d)

\* The histories, the counters and the service manager's flag.
RestInv == stopping \in BOOLEAN /\ alone \subseteq Daemons /\ given \in Nat /\ crashes \in Nat

IInv == DaemonInv /\ CliInv /\ LaunchedInOrder

\* A command that turns to a state of its own kind keeps the commands well formed.
LEMMA TurnsKeeps ==
  ASSUME CliInv, NEW c \in Clients, NEW s, CliOK(s), Turns(c, s)
  PROVE  CliInv'
BY DEF CliInv, Turns, CliOK

\* The changes a step makes to a command: they keep it well formed.
LEMMA CliChanges ==
  ASSUME NEW s, CliOK(s)
  PROVE  /\ CliOK(Idle)
         /\ \A place \in Places \ {"probe"} :
              (place \in {"write", "read"} <=> s.at \in {"write", "read"})
                => CliOK([s EXCEPT !.at = place])
         /\ \A place \in {"sysstop", "key", "connect", "killed"}, request \in Requests :
              /\ CliOK([s EXCEPT !.at = place, !.conn = 0])
              /\ CliOK([s EXCEPT !.at = place, !.conn = 0, !.answered = FALSE])
              /\ CliOK([s EXCEPT !.at = place, !.request = request, !.conn = 0,
                                 !.answered = FALSE])
         /\ \A status \in Statuses : CliOK([s EXCEPT !.seen = status])
         /\ \A d \in Daemons : CliOK([s EXCEPT !.at = "write", !.conn = d])
         /\ \A k \in Keys : CliOK([s EXCEPT !.typed = Append(@, k)])
<1> USE DEF CliOK, Clis, Places, Over
<1>1. CliOK(Idle)
  <2>1. <<>> \in Seq(Keys) /\ "none" \in CommandNames /\ Ask("STATUS", 0) \in Requests
    <3>1. <<>> \in Seq(Keys)
      BY EmptySeq
    <3>2. {"none", "tui", "status"} \subseteq CommandNames
      BY DEF CommandNames
    <3>3. Ask("STATUS", 0) \in Requests
      BY DEF Requests, Ask
    <3> QED
      BY <3>1, <3>2, <3>3
  <2>2. Unknown \in Statuses
    BY DEF Unknown, Statuses
  <2> QED
    BY <2>1, <2>2 DEF Idle
<1>2. \A place \in Places \ {"probe"} :
        (place \in {"write", "read"} <=> s.at \in {"write", "read"})
          => CliOK([s EXCEPT !.at = place])
  OBVIOUS
<1>3. ASSUME NEW place \in {"sysstop", "key", "connect", "killed"}, NEW request \in Requests
      PROVE  /\ CliOK([s EXCEPT !.at = place, !.conn = 0])
             /\ CliOK([s EXCEPT !.at = place, !.conn = 0, !.answered = FALSE])
             /\ CliOK([s EXCEPT !.at = place, !.request = request, !.conn = 0,
                                !.answered = FALSE])
  <2>1. CliOK([s EXCEPT !.at = place, !.conn = 0])
    BY ZenonT(40)
  <2>2. CliOK([s EXCEPT !.at = place, !.conn = 0, !.answered = FALSE])
    BY ZenonT(40)
  <2>3. CliOK([s EXCEPT !.at = place, !.request = request, !.conn = 0, !.answered = FALSE])
    BY ZenonT(40)
  <2> QED
    BY <2>1, <2>2, <2>3
<1>4. \A status \in Statuses : CliOK([s EXCEPT !.seen = status])
  OBVIOUS
<1>5. \A d \in Daemons : CliOK([s EXCEPT !.at = "write", !.conn = d])
  <2>1. 0 \notin Daemons
    BY DEF Daemons
  <2> QED
    BY <2>1
<1>6. \A k \in Keys : CliOK([s EXCEPT !.typed = Append(@, k)])
  BY AppendProperties
<1> QED
  BY <1>1, <1>2, <1>3, <1>4, <1>5, <1>6

\* What follows a request keeps the command well formed.
LEMMA ProceedsKeeps ==
  ASSUME CliInv, NEW c \in Clients, NEW s, CliOK(s), Proceeds(c, s)
  PROVE  CliInv'
<1>0. Ask("STATUS", 0) \in Requests
  BY DEF Requests, Ask
<1>1. CASE s.command \in {"stop", "restart"}
  BY <1>0, <1>1, CliChanges, TurnsKeeps, Zenon DEF Proceeds
<1>2. CASE s.command = "tui"
  BY <1>0, <1>2, CliChanges, TurnsKeeps, Zenon DEF Proceeds
<1>3. CASE s.command \notin {"stop", "restart", "tui"}
  BY <1>3, CliChanges, TurnsKeeps, Zenon DEF Proceeds
<1> QED
  BY <1>1, <1>2, <1>3

\* What a key asks for is a request, whatever the status says.
LEMMA KeyRequestIsAsked ==
  ASSUME NEW k, NEW status \in Statuses
  PROVE  KeyRequest(k, status) \in Requests
<1>1. status.padding \in Int
  BY DEF Statuses
<1> QED
  BY <1>1 DEF KeyRequest, Requests, Ask

\* A step of a terminal keeps every command well formed.
LEMMA CommandStep ==
  ASSUME IInv, NEW c \in Clients, Begin(c) \/ ClientStep(c) \/ Type(c)
  PROVE  CliInv'
<1> USE DEF At, Advances
<1>0. CliInv /\ CliOK(cli[c]) /\ cli[c] \in Clis /\ path \in Daemons \cup {0}
  BY DEF IInv, CliInv, DaemonInv, CliOK
<1>1. CASE Begin(c)
  <2>1. PICK cmd \in Commands[c], padding \in Paddings :
          Turns(c, [Idle EXCEPT !.at = First(cmd), !.command = cmd,
                                !.request = FirstRequest(cmd, padding), !.raw = cmd = "tui"])
    BY <1>1 DEF Begin
  <2>2. cmd \in CommandNames /\ First(cmd) \in Places
    BY DEF CommandNames, GivenNames, First, Places
  <2>3. FirstRequest(cmd, padding) \in Requests
    BY PaddingsAssumption DEF FirstRequest, Requests, Ask
  <2>4. First(cmd) \in {"probe", "connect"}
        /\ (First(cmd) = "probe" => cmd \in {"start", "stop", "restart", "none"})
    BY DEF First
  <2>5. CliOK([Idle EXCEPT !.at = First(cmd), !.command = cmd,
                           !.request = FirstRequest(cmd, padding), !.raw = cmd = "tui"])
    <3>1. Idle \in Clis /\ Idle.conn = 0
      BY <1>0, CliChanges DEF CliOK, Idle
    <3> QED
      BY <2>2, <2>3, <2>4, <3>1 DEF CliOK, Clis
  <2> QED
    BY <1>0, <2>1, <2>5, TurnsKeeps
<1>2. CASE Probe(c)
  <2>1. /\ cli[c].at = "probe" /\ cli[c].command \in {"start", "stop", "restart", "none"}
        /\ Reachable \in BOOLEAN
    BY <1>0, <1>2 DEF Probe, CliOK, IInv, DaemonInv, Reachable
  <2>2. CASE cli[c].command = "start"
    BY <1>0, <1>2, <2>1, <2>2, CliChanges, TurnsKeeps, Zenon DEF Probe, Places
  <2>3. CASE cli[c].command \in {"stop", "restart"}
    BY <1>0, <1>2, <2>1, <2>3, CliChanges, TurnsKeeps, Zenon DEF Probe, Places
  <2>4. CASE cli[c].command = "none"
    <3> DEFINE s == [cli[c] EXCEPT !.at = "connect", !.raw = Reachable,
                                   !.command = IF Reachable THEN "tui" ELSE "status"]
    <3>0. "tui" \in CommandNames /\ "status" \in CommandNames
      BY DEF CommandNames
    <3>1. CliOK(s)
      <4>1. CASE Reachable
        BY <1>0, <2>1, <3>0, <4>1 DEF CliOK, Clis, Places
      <4>2. CASE ~Reachable
        BY <1>0, <2>1, <3>0, <4>2 DEF CliOK, Clis, Places
      <4> QED
        BY <4>1, <4>2
    <3>2. Turns(c, s)
      BY <1>2, <2>4 DEF Probe
    <3> QED
      BY <1>0, <3>1, <3>2, TurnsKeeps
  <2> QED
    BY <2>1, <2>2, <2>3, <2>4
<1>3. CASE Connect(c)
  <2>1. path \in Daemons
    BY <1>0, <1>3 DEF Connect, Reachable
  <2> QED
    BY <1>0, <1>3, <2>1, CliChanges, TurnsKeeps, Zenon DEF Connect
<1>4. CASE ConnectFails(c)
  <2>0. Unknown \in Statuses
    BY DEF Unknown, Statuses
  <2>1. CliOK(SeesStatus(cli[c], Unknown))
    BY <1>0, <2>0, CliChanges, Zenon DEF SeesStatus
  <2> QED
    BY <1>0, <1>4, <2>1, ProceedsKeeps DEF ConnectFails
<1>5. CASE Write(c) \/ WriteKills(c)
  <2>1. cli[c].at = "write"
    BY <1>5 DEF Write, WriteKills
  <2>2. CASE Write(c)
    BY <1>0, <2>1, <2>2, CliChanges, TurnsKeeps, Zenon DEF Write, Places
  <2>3. CASE WriteKills(c)
    <3>1. Ask("STATUS", 0) \in Requests
      BY DEF Ask, Requests
    <3> QED
      BY <1>0, <2>3, <3>1, CliChanges, TurnsKeeps, Zenon DEF WriteKills
  <2> QED
    BY <1>5, <2>2, <2>3
<1>6. CASE Read(c)
  BY <1>0, <1>6, ProceedsKeeps DEF Read
<1>7. CASE ReadsNothing(c)
  <2> DEFINE status == Status([paused |-> FALSE, padding |-> 15])
  <2>1. status \in Statuses
    BY DEF Status, Statuses
  <2>2. CliOK(SeesStatus(cli[c], status))
    BY <1>0, <2>1, CliChanges, Zenon DEF SeesStatus
  <2> QED
    BY <1>0, <1>7, <2>2, ProceedsKeeps DEF ReadsNothing
<1>8. CASE SysStopsNothing(c) \/ SysStopped(c) \/ SysStops(c) \/ RestartWaits(c)
           \/ SysRestarts(c) \/ Launch(c) \/ LaunchesNothing(c) \/ NoKey(c)
  <2>1. PICK place \in {"syswait", "wait", "sysrestart", "launch", "await", "connect"} :
          /\ cli[c].at \notin {"write", "read"}
          /\ Turns(c, Idle) \/ Turns(c, [cli[c] EXCEPT !.at = place])
    BY <1>8 DEF SysStopsNothing, SysStopped, AfterStop, SysStops, RestartWaits, SysRestarts,
                Launch, LaunchesNothing, NoKey
  <2>2. CliOK([cli[c] EXCEPT !.at = place])
    BY <1>0, <2>1, CliChanges, Zenon DEF Places
  <2> QED
    BY <1>0, <2>1, <2>2, CliChanges, TurnsKeeps, Zenon
<1>9. CASE Await(c) \/ Quit(c)
  BY <1>0, <1>9, CliChanges, TurnsKeeps, Zenon DEF Await, Quit
<1>10. CASE Key(c)
  <2> DEFINE request == KeyRequest(Head(cli[c].typed), cli[c].seen)
             s == [cli[c] EXCEPT !.at = "connect", !.typed = Tail(@), !.request = request]
  <2>1. cli[c].typed \in Seq(Keys) /\ cli[c].typed # <<>> /\ cli[c].at = "key"
    BY <1>0, <1>10 DEF Key, Clis
  <2>2. Tail(cli[c].typed) \in Seq(Keys)
    BY <2>1, HeadTailProperties
  <2>3. request \in Requests
    BY <1>0, KeyRequestIsAsked DEF Clis
  <2>4. Turns(c, s)
    BY <1>10 DEF Key
  <2> HIDE DEF request
  <2>5. CliOK(s)
    BY <1>0, <2>1, <2>2, <2>3 DEF CliOK, Clis, Places
  <2> QED
    BY <1>0, <2>4, <2>5, TurnsKeeps
<1>11. CASE Type(c)
  BY <1>0, <1>11, CliChanges, TurnsKeeps, Zenon DEF Type
<1> QED
  BY <1>1, <1>2, <1>3, <1>4, <1>5, <1>6, <1>7, <1>8, <1>9, <1>10, <1>11 DEF ClientStep

\* A daemon's place changes to one of its places.
LEMMA GoesKeeps ==
  ASSUME DaemonInv, NEW d \in Daemons, NEW to \in Pcs,
         pc' = [pc EXCEPT ![d] = to],
         \/ UNCHANGED listening /\ (listening[d] => to \in {"run", "closing"})
         \/ listening' = [listening EXCEPT ![d] = FALSE]
         \/ listening' = [listening EXCEPT ![d] = TRUE] /\ to = "run",
         UNCHANGED settings,
         g_running' \in [Daemons -> BOOLEAN],
         {path', unit'} \subseteq Daemons \cup {0},
         UNCHANGED launcher
  PROVE  DaemonInv'
<1> USE DEF DaemonInv
<1>1. pc' \in [Daemons -> Pcs] /\ listening' \in [Daemons -> BOOLEAN]
  OBVIOUS
<1>2. \A e \in Daemons : listening'[e] => pc'[e] \in {"run", "closing"}
  OBVIOUS
<1> QED
  BY <1>1, <1>2

\* A step of a daemon, or its crash, keeps the types of both ends of the socket.
LEMMA DaemonTyping ==
  ASSUME IInv, NEW d \in Daemons, DaemonStep(d) \/ Crash(d)
  PROVE  IInv'
<1> USE DEF IInv, Goes, Others, managerVars, Pcs
<1>1. CASE DaemonUnlinks(d) \/ DaemonBinds(d) \/ DaemonBindFails(d) \/ DaemonUnlinksLast(d)
           \/ DaemonListens(d) \/ DaemonLeaves(d) \/ DaemonCloses(d) \/ Crash(d)
  <2>1. DaemonInv'
    <3>1. PICK to \in Pcs :
            /\ pc' = [pc EXCEPT ![d] = to]
            /\ \/ UNCHANGED listening /\ (listening[d] => to \in {"run", "closing"})
               \/ listening' = [listening EXCEPT ![d] = FALSE]
               \/ listening' = [listening EXCEPT ![d] = TRUE] /\ to = "run"
      BY <1>1 DEF DaemonInv, DaemonUnlinks, DaemonBinds, DaemonBindFails, DaemonUnlinksLast,
                  DaemonListens, DaemonLeaves, DaemonCloses, Crash
    <3>2. /\ g_running' \in [Daemons -> BOOLEAN]
          /\ {path', unit'} \subseteq Daemons \cup {0}
          /\ UNCHANGED <<launcher, settings>>
      BY <1>1 DEF DaemonInv, DaemonUnlinks, DaemonBinds, DaemonBindFails, DaemonUnlinksLast,
                  DaemonListens, DaemonLeaves, DaemonCloses, Crash
    <3> QED
      BY <3>1, <3>2, GoesKeeps
  <2>2. UNCHANGED cli
    BY <1>1 DEF DaemonUnlinks, DaemonBinds, DaemonBindFails, DaemonUnlinksLast,
                DaemonListens, DaemonLeaves, DaemonCloses, Crash
  <2>3. LaunchedInOrder'
    <3>1. \A e \in Daemons : Launched(e) <=> Launched(e)'
      BY <1>1 DEF DaemonInv, DaemonUnlinks, DaemonBinds, DaemonBindFails, DaemonUnlinksLast,
                  DaemonListens, DaemonLeaves, DaemonCloses, Crash, Launched, Alive
    <3> QED
      BY <3>1 DEF LaunchedInOrder
  <2> QED
    BY <2>1, <2>2, <2>3 DEF CliInv
<1>2. ASSUME NEW c \in Clients, DaemonServes(d, c) PROVE IInv'
  <2> DEFINE r == cli[c].request
  <2>1. CliOK(cli[c]) /\ settings[d] \in Settings
    BY DEF CliInv, DaemonInv
  <2>2. r \in Requests
    BY <2>1 DEF CliOK, Clis
  <2>3. settings' \in [Daemons -> Settings]
    <3>1. PICK paused \in BOOLEAN, padding \in Int :
            settings' = [settings EXCEPT ![d].paused = paused, ![d].padding = padding]
      <4>1. (IF r.cmd = "SET_PADDING" THEN r.value ELSE settings[d].padding) \in Int
        BY <2>1, <2>2 DEF Requests, Settings
      <4>2. (IF r.cmd \in {"PAUSE", "RESUME"} THEN r.cmd = "PAUSE" ELSE settings[d].paused)
              \in BOOLEAN
        BY <2>1 DEF Settings
      <4> QED
        BY <1>2, <4>1, <4>2 DEF DaemonServes, DaemonInv
    <3>2. [settings[d] EXCEPT !.paused = paused, !.padding = padding] \in Settings
      BY <2>1 DEF Settings
    <3> QED
      BY <3>1, <3>2 DEF DaemonInv, Settings
  <2>4. DaemonInv'
    BY <1>2, <2>3 DEF DaemonServes, DaemonInv
  <2>5. CliInv'
    <3> DEFINE seen == IF r.cmd = "STATUS" THEN Status(settings[d]) ELSE cli[c].seen
               s == [cli[c] EXCEPT !.answered = TRUE, !.seen = seen]
    <3>1. seen \in Statuses
      BY <2>1 DEF CliOK, Clis, Status, Statuses, Settings
    <3>2. CliOK(s)
      <4> HIDE DEF seen
      <4> QED
        BY <2>1, <3>1 DEF CliOK, Clis
    <3>3. Turns(c, s)
      BY <1>2 DEF DaemonServes, Turns, CliInv
    <3> QED
      BY <3>2, <3>3, TurnsKeeps
  <2>6. LaunchedInOrder'
    BY <1>2 DEF DaemonServes, LaunchedInOrder, Launched
  <2> QED
    BY <2>4, <2>5, <2>6
<1> QED
  BY <1>1, <1>2 DEF DaemonStep

\* The daemon that is launched next has the number after those launched before.
LEMMA NextIsNew ==
  ASSUME DaemonInv, LaunchedInOrder, NextDaemon \in Daemons
  PROVE  ~Launched(NextDaemon) /\ \A d \in Daemons : d < NextDaemon => Launched(d)
<1> DEFINE L == {d \in Daemons : Launched(d)}
<1>1. IsFiniteSet(L) /\ Cardinality(L) \in Nat
  <2>1. IsFiniteSet(Daemons)
    BY FS_Interval, MaxDaemonsAssumption DEF Daemons
  <2> QED
    BY <2>1, FS_Subset, FS_CardinalityType
<1>2. NextDaemon = Cardinality(L) + 1
  BY DEF NextDaemon
<1>3. ~Launched(NextDaemon)
  <2> SUFFICES ASSUME Launched(NextDaemon) PROVE FALSE
    OBVIOUS
  <2>1. 1 .. NextDaemon \subseteq L
    BY MaxDaemonsAssumption DEF LaunchedInOrder, Daemons
  <2>2. Cardinality(1 .. NextDaemon) <= Cardinality(L)
    BY <1>1, <2>1, FS_Subset
  <2>3. NextDaemon \in Nat /\ Cardinality(1 .. NextDaemon) = NextDaemon
    <3>1. NextDaemon \in Nat /\ 1 \in Int /\ NextDaemon \in Int /\ 1 <= NextDaemon
      BY <1>1, <1>2
    <3> HIDE DEF L
    <3>2. Cardinality(1 .. NextDaemon) = NextDaemon - 1 + 1
      BY ONLY <3>1, FS_Interval
    <3> QED
      BY <3>1, <3>2
  <2> QED
    BY <1>1, <1>2, <2>2, <2>3
<1>4. ASSUME NEW d \in Daemons, d < NextDaemon, ~Launched(d) PROVE FALSE
  <2>1. L \subseteq 1 .. d - 1
    BY <1>4, MaxDaemonsAssumption DEF LaunchedInOrder, Daemons
  <2>2. IsFiniteSet(1 .. d - 1) /\ Cardinality(1 .. d - 1) = d - 1
    <3>1. 1 \in Int /\ d - 1 \in Int /\ d \in Int /\ 1 <= d
      BY DEF Daemons
    <3>2. /\ IsFiniteSet(1 .. d - 1)
          /\ Cardinality(1 .. d - 1) = IF 1 > d - 1 THEN 0 ELSE (d - 1) - 1 + 1
      BY ONLY <3>1, FS_Interval
    <3> QED
      BY <3>1, <3>2
  <2>3. Cardinality(L) <= d - 1
    BY <2>1, <2>2, FS_Subset
  <2> QED
    BY <1>1, <1>2, <1>4, <2>3 DEF Daemons
<1> QED
  BY <1>3, <1>4

\* So does the start of another daemon, by a command or by the service manager.
LEMMA LaunchTyping ==
  ASSUME DaemonInv, LaunchedInOrder, Launches, unit' \in {0, NextDaemon}, UNCHANGED launcher
  PROVE  DaemonInv' /\ LaunchedInOrder'
<1> DEFINE n == NextDaemon
<1>1. n \in Daemons /\ ~Launched(n) /\ \A d \in Daemons : d < n => Launched(d)
  BY NextIsNew DEF Launches
<1>2. /\ pc' = [pc EXCEPT ![n] = "unlink"] /\ unit' \in {0, n}
      /\ UNCHANGED <<listening, g_running, settings, path, launcher>>
  BY DEF Launches
<1> HIDE DEF n
<1>3. DaemonInv'
  <2>1. ~listening[n]
    BY <1>1 DEF DaemonInv, Launched
  <2> QED
    BY <1>1, <1>2, <2>1 DEF DaemonInv, Pcs
<1>4. LaunchedInOrder'
  BY <1>1, <1>2 DEF DaemonInv, LaunchedInOrder, Launched, Daemons
<1> QED
  BY <1>3, <1>4

\* What a command does to the daemons and to the unit keeps their types.
LEMMA CommandTyping ==
  ASSUME IInv, NEW c \in Clients, ClientStep(c)
  PROVE  DaemonInv' /\ LaunchedInOrder'
<1>1. CASE Launch(c)
  BY <1>1, LaunchTyping DEF Launch, IInv
<1>2. CASE /\ UNCHANGED <<pc, listening, settings, path, launcher>>
           /\ g_running' = g_running \/ g_running' = [g_running EXCEPT ![unit] = FALSE]
           /\ unit' \in {0, unit}
  BY <1>2 DEF IInv, DaemonInv, LaunchedInOrder, Launched
<1> QED
  BY <1>1, <1>2
     DEF ClientStep, Probe, Connect, ConnectFails, Write, WriteKills, Read, ReadsNothing,
         SysStopsNothing, SysStops, SysStopped, RestartWaits, SysRestarts, LaunchesNothing,
         Await, NoKey, Key, Quit, SignalUnit, DaemonsKeep, DaemonsRun, daemonVars, managerVars

\* Daemons and commands keep their types, and no dashboard leaves the terminal
\* in raw mode.
LEMMA Invariance == Spec => []IInv
<1>1. Init => IInv
  <2> SUFFICES ASSUME Init PROVE IInv
    OBVIOUS
  <2>1. PICK n \in {0, 1} :
          /\ pc = [d \in Daemons |-> IF d = n THEN "unlink" ELSE "none"]
          /\ unit = IF launcher = "nohup" THEN 0 ELSE n
    BY DEF Init
  <2>2. 1 \in Daemons
    BY MaxDaemonsAssumption DEF Daemons
  <2>3. DaemonInv
    BY <2>1, <2>2 DEF Init, DaemonInv, Pcs, Settings
  <2>4. LaunchedInOrder
    BY <2>1, <2>2 DEF LaunchedInOrder, Launched, Daemons
  <2>5. CliInv
    <3>1. CliOK(Idle)
      <4>1. <<>> \in Seq(Keys)
        BY EmptySeq
      <4>2. "none" \in CommandNames
        BY DEF CommandNames
      <4>3. Unknown \in Statuses
        BY DEF Unknown, Statuses
      <4>4. Ask("STATUS", 0) \in Requests
        BY DEF Ask, Requests
      <4> QED
        BY <4>1, <4>2, <4>3, <4>4 DEF CliOK, Clis, Idle, Places, Over
    <3> QED
      BY <3>1 DEF Init, CliInv, CliOK
  <2> QED
    BY <2>3, <2>4, <2>5 DEF IInv
<1>2. IInv /\ [Next]_vars => IInv'
  <2> SUFFICES ASSUME IInv, [Next]_vars PROVE IInv'
    OBVIOUS
  <2>1. ASSUME NEW d \in Daemons, DaemonStep(d) \/ Crash(d) PROVE IInv'
    BY <2>1, DaemonTyping
  <2>2. CASE ManagerRestarts
    BY <2>2, LaunchTyping DEF ManagerRestarts, IInv, CliInv
  <2>3. ASSUME NEW c \in Clients, Begin(c) \/ ClientStep(c) \/ Type(c) PROVE IInv'
    <3>1. CliInv'
      BY <2>3, CommandStep
    <3>2. CASE ClientStep(c)
      BY <3>1, <3>2, CommandTyping DEF IInv
    <3>3. CASE Begin(c) \/ Type(c)
      BY <3>1, <3>3 DEF Begin, Type, DaemonsKeep, daemonVars, managerVars, IInv, DaemonInv,
                        LaunchedInOrder, Launched
    <3> QED
      BY <2>3, <3>2, <3>3
  <2>4. CASE UNCHANGED vars
    BY <2>4 DEF vars, daemonVars, managerVars, IInv, DaemonInv, CliInv, LaunchedInOrder, Launched
  <2> QED
    BY <2>1, <2>2, <2>3, <2>4 DEF Next
<1> QED
  BY <1>1, <1>2, PTL DEF Spec

\* The history of who is alone, the counters and the flag of the service manager
\* keep their types.
LEMMA RestTyping == Spec => []RestInv
<1>1. Init => RestInv
  <2> SUFFICES ASSUME Init PROVE RestInv
    OBVIOUS
  <2>1. 1 \in Daemons
    BY MaxDaemonsAssumption DEF Daemons
  <2>2. alone \subseteq Daemons
    BY <2>1 DEF Init
  <2>3. stopping \in BOOLEAN /\ given \in Nat /\ crashes \in Nat
    BY DEF Init
  <2> QED
    BY <2>2, <2>3 DEF RestInv
<1>2. RestInv /\ [Next]_vars => RestInv'
  <2> SUFFICES ASSUME RestInv, [Next]_vars PROVE RestInv'
    OBVIOUS
  <2>1. ASSUME NEW d \in Daemons, DaemonStep(d) \/ Crash(d) PROVE RestInv'
    <3>1. UNCHANGED <<alone, stopping, given>>
      BY <2>1 DEF DaemonStep, DaemonUnlinks, DaemonBinds, DaemonBindFails,
                  DaemonUnlinksLast, DaemonListens, DaemonLeaves, DaemonCloses, DaemonServes,
                  Crash, Others, managerVars
    <3>2. crashes' \in {crashes, crashes + 1}
      BY <2>1 DEF DaemonStep, DaemonUnlinks, DaemonBinds, DaemonBindFails,
                  DaemonUnlinksLast, DaemonListens, DaemonLeaves, DaemonCloses, DaemonServes,
                  Crash, Others
    <3>3. crashes' \in Nat
      BY <3>2 DEF RestInv
    <3> QED
      BY <3>1, <3>3 DEF RestInv
  <2>2. CASE Launches /\ stopping' \in BOOLEAN /\ UNCHANGED <<given, crashes>>
    <3>1. alone' \subseteq Daemons
      BY <2>2 DEF Launches
    <3> QED
      BY <2>2, <3>1 DEF RestInv
  <2>3. CASE /\ UNCHANGED <<alone, crashes>> /\ given' \in {given, given + 1}
             /\ stopping' \in {stopping, TRUE, FALSE}
    <3>1. given' \in Nat
      BY <2>3 DEF RestInv
    <3>2. stopping' \in BOOLEAN
      BY <2>3 DEF RestInv
    <3> QED
      BY <2>3, <3>1, <3>2 DEF RestInv
  <2>4. CASE ManagerRestarts
    BY <2>2, <2>4 DEF ManagerRestarts, RestInv
  <2>5. ASSUME NEW c \in Clients, Launch(c) PROVE RestInv'
    BY <2>2, <2>5 DEF Launch
  <2>6. ASSUME NEW c \in Clients, Begin(c) \/ Type(c) \/ (ClientStep(c) /\ ~Launch(c))
        PROVE  RestInv'
    BY <2>3, <2>6
       DEF Begin, Type, ClientStep, Probe, Connect, ConnectFails, Write, WriteKills, Read,
           ReadsNothing, SysStopsNothing, SysStops, SysStopped, RestartWaits, SysRestarts,
           LaunchesNothing, Await, NoKey, Key, Quit, SignalUnit, DaemonsKeep, DaemonsRun,
           daemonVars, managerVars
  <2>7. CASE UNCHANGED vars
    BY <2>3, <2>7 DEF vars, daemonVars, managerVars
  <2> QED
    BY <2>1, <2>4, <2>5, <2>6, <2>7 DEF Next
<1> QED
  BY <1>1, <1>2, PTL DEF Spec

\* Every variable keeps its type, whatever paddings are asked for and whatever
\* keys are pressed; and no dashboard that is over leaves the terminal in raw
\* mode unless it was killed (TuiDashboard::run, disable_raw_mode).
THEOREM Typing == Spec => []TypeOK
<1>1. IInv /\ RestInv => TypeOK
  <2> SUFFICES ASSUME IInv, RestInv PROVE TypeOK
    OBVIOUS
  <2>1. \A c \in Clients : /\ (cli[c].conn # 0) = (cli[c].at \in {"write", "read"})
                           /\ cli[c].raw = (cli[c].command = "tui")
    BY DEF IInv, CliInv, CliOK
  <2> QED
    BY <2>1 DEF IInv, DaemonInv, CliInv, Clis, RestInv, TypeOK, Pcs
<1> QED
  BY <1>1, Invariance, RestTyping, PTL

-----------------------------------------------------------------------------
(* A daemon that is alone can be reached.                                   *)

\* As long as a daemon is alone, no other one can touch the path: what it bound
\* is still there when it listens and when it runs.
AloneInv ==
  \A d \in alone :
    /\ d \in Daemons
    /\ \A e \in Daemons \ {d} : ~Meddles(e)
    /\ pc[d] = "bind" => path = 0
    /\ pc[d] = "listen" => path = d
    /\ pc[d] = "run" => path = d /\ listening[d]

\* A step of a daemon that is not alone finds it past the path.
LEMMA DaemonAlone ==
  ASSUME DaemonInv, AloneInv, NEW e \in Daemons, DaemonStep(e) \/ Crash(e)
  PROVE  AloneInv'
<1> USE DEF Goes, Others, managerVars
<1>1. alone' = alone
  BY DEF DaemonStep, DaemonUnlinks, DaemonBinds, DaemonBindFails, DaemonUnlinksLast,
         DaemonListens, DaemonLeaves, DaemonCloses, DaemonServes, Crash
<1> SUFFICES ASSUME NEW d \in alone
             PROVE  /\ d \in Daemons
                    /\ \A f \in Daemons \ {d} : ~Meddles(f)'
                    /\ pc'[d] = "bind" => path' = 0
                    /\ pc'[d] = "listen" => path' = d
                    /\ pc'[d] = "run" => path' = d /\ listening'[d]
  BY <1>1 DEF AloneInv, Meddles
<1>2. /\ d \in Daemons /\ \A f \in Daemons \ {d} : ~Meddles(f)
      /\ pc[d] = "bind" => path = 0
      /\ pc[d] = "listen" => path = d
      /\ pc[d] = "run" => path = d /\ listening[d]
      /\ d # 0
  BY DEF AloneInv, Daemons
<1>3. CASE e = d
  <2>1. \A f \in Daemons \ {d} : pc'[f] = pc[f] /\ listening'[f] = listening[f]
    BY <1>3 DEF DaemonInv, DaemonStep, DaemonUnlinks, DaemonBinds, DaemonBindFails,
                DaemonUnlinksLast, DaemonListens, DaemonLeaves, DaemonCloses, DaemonServes,
                Crash
  <2>2. \A f \in Daemons \ {d} : ~Meddles(f)'
    BY <1>2, <2>1 DEF Meddles
  <2>3. CASE DaemonUnlinks(d) \/ DaemonBinds(d) \/ DaemonBindFails(d) \/ DaemonListens(d)
    BY <1>2, <2>2, <2>3 DEF DaemonInv, DaemonUnlinks, DaemonBinds, DaemonBindFails,
                            DaemonListens
  <2>4. CASE DaemonUnlinksLast(d) \/ DaemonLeaves(d) \/ DaemonCloses(d) \/ Crash(d)
    BY <1>2, <2>2, <2>4 DEF DaemonInv, DaemonUnlinksLast, DaemonLeaves, DaemonCloses, Crash
  <2>5. CASE \E c \in Clients : DaemonServes(d, c)
    BY <1>2, <2>2, <2>5 DEF DaemonServes
  <2> QED
    BY <1>3, <2>3, <2>4, <2>5 DEF DaemonStep
<1>4. CASE e # d
  <2>1. ~listening[e] /\ pc[e] \notin {"unlink", "bind", "listen", "unlinking"}
    BY <1>2, <1>4 DEF Meddles
  <2>2. CASE DaemonStep(e)
    <3>1. /\ UNCHANGED <<path, pc[d], listening>>
          /\ pc'[e] \in {"run", "closing", "gone"}
          /\ \A f \in Daemons \ {e} : pc'[f] = pc[f]
      BY <1>2, <1>4, <2>1, <2>2, ZenonT(40)
         DEF DaemonInv, DaemonStep, DaemonUnlinks, DaemonBinds, DaemonBindFails,
             DaemonUnlinksLast, DaemonListens, DaemonLeaves, DaemonCloses, DaemonServes
    <3> QED
      BY <1>2, <1>4, <2>1, <3>1 DEF Meddles
  <2>3. CASE Crash(e)
    BY <1>2, <1>4, <2>1, <2>3 DEF DaemonInv, Crash, Meddles
  <2> QED
    BY <2>2, <2>3
<1> QED
  BY <1>3, <1>4

\* A daemon that is started is alone only if no other one can touch the path.
LEMMA LaunchAlone == DaemonInv /\ Launches => AloneInv'
BY DEF DaemonInv, Launches, AloneInv, Meddles

\* A daemon that was launched when no other one could touch the path any more,
\* and that none followed, can be reached for as long as it runs, whatever
\* crashed daemons have left behind (IpcServer::init, ipc_server.cpp:14-47).
THEOREM AloneAnswers == Spec => []AloneIsReachable
<1>1. Init => AloneInv
  <2> SUFFICES ASSUME Init PROVE AloneInv
    OBVIOUS
  <2>1. PICK n \in {0, 1} :
          /\ pc = [d \in Daemons |-> IF d = n THEN "unlink" ELSE "none"]
          /\ alone = {n} \ {0}
    BY DEF Init
  <2>2. 1 \in Daemons
    BY MaxDaemonsAssumption DEF Daemons
  <2> QED
    BY <2>1, <2>2 DEF Init, AloneInv, Meddles
<1>2. IInv /\ AloneInv /\ [Next]_vars => AloneInv'
  <2> SUFFICES ASSUME IInv, AloneInv, [Next]_vars PROVE AloneInv'
    OBVIOUS
  <2>1. ASSUME NEW d \in Daemons, DaemonStep(d) \/ Crash(d) PROVE AloneInv'
    BY <2>1, DaemonAlone DEF IInv
  <2>2. CASE Launches
    BY <2>2, LaunchAlone DEF IInv
  <2>3. CASE UNCHANGED <<pc, listening, path, alone>>
    BY <2>3 DEF AloneInv, Meddles
  <2>4. ASSUME NEW c \in Clients, Begin(c) \/ ClientStep(c) \/ Type(c)
        PROVE  Launches \/ UNCHANGED <<pc, listening, path, alone>>
    BY <2>4
       DEF Begin, Type, ClientStep, Probe, Connect, ConnectFails, Write, WriteKills, Read,
           ReadsNothing, SysStopsNothing, SysStops, SysStopped, RestartWaits, SysRestarts,
           Launch, LaunchesNothing, Await, NoKey, Key, Quit, DaemonsKeep, DaemonsRun,
           daemonVars
  <2> QED
    BY <2>1, <2>2, <2>3, <2>4 DEF Next, ManagerRestarts, vars, daemonVars
<1>3. AloneInv => AloneIsReachable
  BY DEF AloneInv, AloneIsReachable
<1> QED
  BY <1>1, <1>2, <1>3, Invariance, PTL DEF Spec
=============================================================================
