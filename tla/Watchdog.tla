------------------------------- MODULE Watchdog -------------------------------
(***************************************************************************)
(* WatchdogSupervisor::run: a process that forks a worker, forks another   *)
(* one when it fails, and passes a stop on to it.  Workers are numbered in *)
(* the order they are forked.  A worker starts with the supervisor's       *)
(* signal handler, which sets a flag in the worker's own memory that       *)
(* nothing there reads; signals stop it once it has a handler of its own,  *)
(* as main.cpp sets at its start.                                          *)
(***************************************************************************)
EXTENDS Integers, Sequences

CONSTANTS
  Limits,    \* the values of max_restarts_; none if <= 0
  MaxForks   \* bound: how many workers are forked

ASSUME LimitsAssumption == Limits \subseteq Int
ASSUME MaxForksAssumption == MaxForks \in Nat

VARIABLES
  max_restarts_, g_stop_requested, restart_count,
  supervisor,   \* where run() is
  workers,      \* what each worker does, or how it ended
  reaped        \* the workers the supervisor has waited for: the first ones

vars == <<max_restarts_, g_stop_requested, restart_count, supervisor, workers, reaped>>

\* "young": without a handler of its own; "deaf": a signal was lost on it.
Alive == {"young", "serving", "deaf", "ending"}
Ended == {"clean", "failed"}
State == Alive \cup Ended

Returned == supervisor \in {"done", "fork failed"}

TypeOK ==
  /\ max_restarts_ \in Limits /\ g_stop_requested \in BOOLEAN /\ restart_count \in Nat
  /\ supervisor \in {"head", "watch", "decide", "reap", "done", "fork failed"}
  /\ workers \in Seq(State)
  /\ reaped \in 0 .. Len(workers)

Init ==
  /\ max_restarts_ \in Limits /\ g_stop_requested = FALSE /\ restart_count = 0
  /\ supervisor = "head"
  /\ workers = <<>> /\ reaped = 0

Last == Len(workers)   \* run()'s pid is the last worker's

\* What SIGTERM or SIGINT makes of a worker.  One that a signal was lost on may
\* have its own handler by now: outcome says which.
Outcomes == {"deaf", "ending"}
Signalled(state, outcome) == CASE state = "young" -> "deaf"
                               [] state = "serving" -> "ending"
                               [] state = "deaf" -> outcome
                               [] OTHER -> state

-----------------------------------------------------------------------------
(* The supervisor.                                                          *)

Goto(from, to) ==
  /\ supervisor = from
  /\ supervisor' = to
  /\ UNCHANGED <<max_restarts_, g_stop_requested>>

\* Mutant: one worker more than the limit.
MayForkOneMore ==
  ~g_stop_requested /\ (max_restarts_ <= 0 \/ restart_count <= max_restarts_)

\* while (!g_stop_requested && ...)
MayFork == ~g_stop_requested /\ (max_restarts_ <= 0 \/ restart_count < max_restarts_)

SupFork ==
  /\ Goto("head", "watch")
  /\ MayFork /\ Len(workers) < MaxForks
  /\ workers' = Append(workers, "young")
  /\ UNCHANGED <<restart_count, reaped>>

SupForkFails ==
  /\ Goto("head", "fork failed")
  /\ MayFork
  /\ UNCHANGED <<restart_count, workers, reaped>>

SupGivesUp ==
  /\ Goto("head", "done")
  /\ ~MayFork
  /\ UNCHANGED <<restart_count, workers, reaped>>

\* Mutant: the inner loop only ends with the worker.
SupStoppedLate ==
  /\ Goto("watch", "decide")
  /\ g_stop_requested /\ workers[Last] \in Ended
  /\ UNCHANGED <<restart_count, workers, reaped>>

\* The inner loop ends on a stop, ...
SupStopped ==
  /\ Goto("watch", "decide")
  /\ g_stop_requested
  /\ UNCHANGED <<restart_count, workers, reaped>>

\* Mutant: any exit of the worker ends the supervisor.
SupWaitedReturns ==
  /\ Goto("watch", "done")
  /\ ~g_stop_requested /\ workers[Last] \in Ended
  /\ reaped' = Last
  /\ UNCHANGED <<restart_count, workers>>

\* ... or when waitpid has found the worker ended: run() returns if it exited
\* with 0.
SupWaited ==
  /\ Goto("watch", IF workers[Last] = "clean" THEN "done" ELSE "decide")
  /\ ~g_stop_requested /\ workers[Last] \in Ended
  /\ reaped' = Last
  /\ UNCHANGED <<restart_count, workers>>

\* Mutant: restarts are counted down.
SupRestartsDown ==
  /\ Goto("decide", "head")
  /\ ~g_stop_requested
  /\ restart_count' = restart_count - 1
  /\ UNCHANGED <<workers, reaped>>

SupRestarts ==
  /\ Goto("decide", "head")
  /\ ~g_stop_requested
  /\ restart_count' = restart_count + 1
  /\ UNCHANGED <<workers, reaped>>

\* A stop, whichever way the inner loop was left: kill(pid, SIGTERM).
SupKills ==
  /\ Goto("decide", "reap")
  /\ g_stop_requested
  /\ \E outcome \in Outcomes : workers' = [workers EXCEPT ![Last] = Signalled(@, outcome)]
  /\ UNCHANGED <<restart_count, reaped>>

\* Mutant: with WNOHANG.
SupReapsNoHang ==
  /\ Goto("reap", "done")
  /\ reaped' = IF workers[Last] \in Ended THEN Last ELSE reaped
  /\ UNCHANGED <<restart_count, workers>>

\* waitpid blocks until the worker has ended.
SupReaps ==
  /\ Goto("reap", "done")
  /\ workers[Last] \in Ended
  /\ reaped' = Last
  /\ UNCHANGED <<restart_count, workers>>

Supervisor ==
  \/ SupFork \/ SupForkFails \/ SupGivesUp \/ SupStopped \/ SupWaited
  \/ SupRestarts \/ SupKills \/ SupReaps

-----------------------------------------------------------------------------
(* The workers, and who sends signals.                                      *)

Worker(from, to) ==
  /\ \E i \in DOMAIN workers : workers[i] \in from /\ workers' = [workers EXCEPT ![i] = to]
  /\ UNCHANGED <<max_restarts_, g_stop_requested, restart_count, supervisor, reaped>>

WorkerReady == Worker({"young"}, "serving")

\* It exits by itself, crashes, or is killed.
WorkerExits == \E result \in Ended : Worker(Alive \ {"ending"}, result)

\* Told to stop, it does.
WorkerStops == \E result \in Ended : Worker({"ending"}, result)

\* SIGTERM or SIGINT to the supervisor, or to its process group, as a terminal
\* or a service manager sends it.
Signal ==
  /\ ~Returned /\ ~g_stop_requested
  /\ g_stop_requested' = TRUE
  /\ \/ UNCHANGED workers
     \/ \E outcome \in Outcomes :
          workers' = [i \in DOMAIN workers |-> Signalled(workers[i], outcome)]
  /\ UNCHANGED <<max_restarts_, restart_count, supervisor, reaped>>

Finished == Returned /\ UNCHANGED vars

Next ==
  Supervisor \/ WorkerReady \/ WorkerExits \/ WorkerStops \/ Signal \/ Finished

Spec == Init /\ [][Next]_vars

\* The supervisor is scheduled, and a worker that has heard a stop ends.
FairSpec == Spec /\ WF_vars(Supervisor) /\ WF_vars(WorkerStops)

-----------------------------------------------------------------------------

\* A worker is forked only after the one before it has failed and been waited
\* for, and run() returns with none left behind, running or as a zombie,
\* whatever signals and exits come between its steps.
OneWorker ==
  /\ \A i \in DOMAIN workers : i < Last => workers[i] = "failed" /\ i <= reaped
  /\ Returned => reaped = Last

\* max_restarts_ bounds the number of workers, the first one included.
LimitKept == max_restarts_ > 0 => Len(workers) <= max_restarts_

\* A worker that failed has a successor, unless a stop was requested, the limit
\* is reached or fork() failed.
CrashIsRestarted ==
  \A i \in 1 .. MaxForks :
    i \in DOMAIN workers /\ workers[i] = "failed" ~>
      \/ i < Len(workers)
      \/ g_stop_requested
      \/ supervisor = "fork failed"
      \/ supervisor = "done" /\ i = max_restarts_

\* A stop ends the supervisor, unless what it passed on came before the worker
\* had a handler for it and was lost: then it waits for that worker.
StopEnds ==
  g_stop_requested ~> Returned \/ (supervisor = "reap" /\ workers[Last] = "deaf")
=============================================================================
