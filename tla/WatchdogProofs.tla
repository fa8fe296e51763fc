---------------------------- MODULE WatchdogProofs ----------------------------
(***************************************************************************)
(* Theorems about the supervisor, for any limits and any number of forks.  *)
(***************************************************************************)
EXTENDS Watchdog, SequenceTheorems, TLAPS

(***************************************************************************)
(* What ties the supervisor's place to its workers: in the inner loop the  *)
(* last worker has not been waited for; everywhere else but on the way out *)
(* after a stop it has, and it failed.                                     *)
(***************************************************************************)
PlaceInv ==
  /\ supervisor = "head" =>
       /\ reaped = Last /\ restart_count = Last
       /\ \A i \in DOMAIN workers : workers[i] = "failed"
  /\ supervisor \in {"watch", "decide", "reap"} => Last > 0 /\ restart_count + 1 = Last
  /\ supervisor = "decide" /\ ~g_stop_requested => reaped = Last /\ workers[Last] = "failed"

IInv == TypeOK /\ OneWorker /\ LimitKept /\ PlaceInv

\* A signal leaves a worker that has ended as it is.
LEMMA SignalledState ==
  ASSUME NEW state \in State, NEW outcome \in Outcomes
  PROVE  /\ Signalled(state, outcome) \in State
         /\ state = "failed" => Signalled(state, outcome) = "failed"
<1>1. CASE state \in {"young", "serving", "deaf"}
  BY <1>1 DEF Signalled, State, Alive, Ended, Outcomes
<1>2. CASE state \notin {"young", "serving", "deaf"}
  BY <1>2 DEF Signalled, State, Alive, Ended, Outcomes
<1> QED BY <1>1, <1>2

\* The invariant does not depend on what becomes of a worker, as long as one
\* that failed still has.
LEMMA WorkersKept ==
  ASSUME IInv, workers' \in Seq(State), Len(workers') = Len(workers),
         \A j \in 1 .. Len(workers) : workers[j] = "failed" => workers'[j] = "failed",
         UNCHANGED <<max_restarts_, restart_count, supervisor, reaped>>,
         g_stop_requested' \in {TRUE, g_stop_requested}
  PROVE  IInv'
<1> USE DEF IInv
<1>1. /\ DOMAIN workers = 1 .. Len(workers) /\ DOMAIN workers' = 1 .. Len(workers)
      /\ Len(workers) \in Nat
  BY LenProperties DEF TypeOK
<1>2. TypeOK' /\ LimitKept'
  BY <1>1 DEF TypeOK, LimitKept
<1>3. OneWorker'
  BY <1>1 DEF OneWorker, Last, Returned
<1>4. PlaceInv'
  <2>1. CASE supervisor = "head"
    BY <1>1, <2>1 DEF PlaceInv, Last
  <2>2. CASE supervisor # "head"
    <3>1. ~g_stop_requested' => ~g_stop_requested
      OBVIOUS
    <3>2. ASSUME supervisor = "decide", ~g_stop_requested'
          PROVE  reaped = Len(workers) /\ workers'[Len(workers)] = "failed"
      <4>1. reaped = Len(workers) /\ workers[Len(workers)] = "failed" /\ Len(workers) > 0
        BY <3>1, <3>2 DEF PlaceInv, Last
      <4>2. Len(workers) \in 1 .. Len(workers)
        BY <1>1, <4>1
      <4> QED BY <4>1, <4>2
    <3> QED BY <1>1, <2>2, <3>2 DEF PlaceInv, Last
  <2> QED BY <2>1, <2>2
<1> QED BY <1>2, <1>3, <1>4

\* A step of the supervisor keeps the invariant (run, watchdog_supervisor.cpp:27-73).
LEMMA SupervisorStep == IInv /\ Supervisor => IInv'
<1> SUFFICES ASSUME IInv, Supervisor PROVE IInv'
  OBVIOUS
<1>T. /\ TypeOK /\ OneWorker /\ LimitKept /\ PlaceInv
      /\ workers \in Seq(State)
  BY DEF IInv, TypeOK
<1>0. Len(workers) \in Nat /\ DOMAIN workers = 1 .. Len(workers)
  BY <1>T, LenProperties
<1>1. CASE SupFork
  <2>1. /\ Len(workers') = Len(workers) + 1 /\ workers' \in Seq(State)
        /\ \A i \in 1 .. Len(workers) : workers'[i] = workers[i]
    <3>1. workers' = Append(workers, "young") /\ "young" \in State
      BY <1>T, <1>1 DEF SupFork, State, Alive
    <3> QED BY <1>T, <3>1, AppendProperties
  <2>2. DOMAIN workers' = 1 .. Len(workers) + 1
    BY <2>1, LenProperties
  <2>3. /\ reaped = Len(workers) /\ restart_count = Len(workers)
        /\ \A i \in 1 .. Len(workers) : workers[i] = "failed"
    BY <1>T, <1>0, <1>1 DEF SupFork, Goto, PlaceInv, TypeOK, Last, Returned
  <2>4. TypeOK'
    BY <1>T, <1>0, <1>1, <2>1 DEF SupFork, Goto, TypeOK, Last, Returned
  <2>5. OneWorker'
    BY <1>T, <1>0, <1>1, <2>1, <2>2, <2>3 DEF OneWorker, SupFork, Goto, TypeOK, Last, Returned
  <2>6. LimitKept'
    BY <1>T, <1>0, <1>1, <2>1, <2>3, LimitsAssumption
      DEF LimitKept, SupFork, MayFork, Goto, TypeOK, Last, Returned
  <2>7. PlaceInv'
    BY <1>T, <1>0, <1>1, <2>1, <2>3 DEF PlaceInv, SupFork, Goto, TypeOK, Last, Returned
  <2> QED BY <2>4, <2>5, <2>6, <2>7 DEF IInv
<1>2. CASE SupForkFails \/ SupGivesUp
  BY <1>T, <1>2
    DEF IInv, SupForkFails, SupGivesUp, Goto, OneWorker, LimitKept, PlaceInv, TypeOK, Last, Returned
<1>3. CASE SupStopped
  BY <1>T, <1>3
    DEF IInv, SupStopped, Goto, OneWorker, LimitKept, PlaceInv, TypeOK, Last, Returned
<1>4. CASE SupWaited
  <2>1. Last > 0 /\ workers[Last] \in Ended /\ reaped' = Last /\ workers' = workers
    BY <1>T, <1>4 DEF SupWaited, Goto, PlaceInv, TypeOK, Last, Returned
  <2>2. TypeOK' /\ OneWorker' /\ LimitKept'
    BY <1>T, <1>0, <1>4, <2>1 DEF SupWaited, Goto, OneWorker, LimitKept, TypeOK, Last, Returned
  <2>3. PlaceInv'
    BY <1>T, <1>0, <1>4, <2>1 DEF SupWaited, Goto, PlaceInv, Ended, TypeOK, Last, Returned
  <2> QED BY <2>2, <2>3 DEF IInv
<1>5. CASE SupRestarts
  <2>1. /\ Last > 0 /\ restart_count + 1 = Last /\ reaped = Last
        /\ workers[Last] = "failed" /\ workers' = workers /\ reaped' = reaped
        /\ restart_count' = Last
    BY <1>T, <1>5 DEF SupRestarts, Goto, PlaceInv, TypeOK, Last, Returned
  <2>2. \A i \in 1 .. Len(workers) : workers[i] = "failed"
    <3> TAKE i \in 1 .. Len(workers)
    <3>1. CASE i < Len(workers)
      BY <1>T, <1>0, <3>1 DEF OneWorker, Last
    <3>2. CASE i = Len(workers)
      BY <2>1, <3>2 DEF Last
    <3>3. i \in Int /\ Len(workers) \in Int /\ i <= Len(workers)
      BY <1>0
    <3>4. i < Len(workers) \/ i = Len(workers)
      BY <3>3
    <3> QED BY <3>1, <3>2, <3>4
  <2>3. TypeOK' /\ OneWorker' /\ LimitKept'
    BY <1>T, <1>0, <1>5, <2>1
      DEF SupRestarts, Goto, OneWorker, LimitKept, TypeOK, Last, Returned
  <2>4. PlaceInv'
    BY <1>T, <1>0, <1>5, <2>1, <2>2 DEF SupRestarts, Goto, PlaceInv, TypeOK, Last, Returned
  <2> QED BY <2>3, <2>4 DEF IInv
<1>6. CASE SupKills
  <2> PICK outcome \in Outcomes : workers' = [workers EXCEPT ![Last] = Signalled(@, outcome)]
    BY <1>T, <1>6 DEF SupKills, TypeOK, Last, Returned
  <2>1. Len(workers) \in 1 .. Len(workers) /\ restart_count + 1 = Last
    BY <1>T, <1>0, <1>6 DEF SupKills, Goto, PlaceInv, TypeOK, Last, Returned
  <2>2. Signalled(workers[Last], outcome) \in State
    BY <1>T, <2>1, SignalledState, ElementOfSeq DEF Last
  <2>3. /\ workers' \in Seq(State) /\ Len(workers') = Len(workers)
        /\ \A i \in 1 .. Len(workers) : i < Last => workers'[i] = workers[i]
    BY <1>T, <2>1, <2>2, ExceptSeq DEF Last
  <2>4. DOMAIN workers' = 1 .. Len(workers)
    BY <2>3, LenProperties
  <2>5. TypeOK' /\ LimitKept' /\ PlaceInv'
    BY <1>T, <1>0, <1>6, <2>1, <2>3
      DEF SupKills, Goto, LimitKept, PlaceInv, TypeOK, Last, Returned
  <2>6. OneWorker'
    BY <1>T, <1>0, <1>6, <2>3, <2>4 DEF SupKills, Goto, OneWorker, TypeOK, Last, Returned
  <2> QED BY <2>5, <2>6 DEF IInv
<1>7. CASE SupReaps
  BY <1>T, <1>0, <1>7
    DEF IInv, SupReaps, Goto, OneWorker, LimitKept, PlaceInv, TypeOK, Last, Returned
<1> QED BY <1>1, <1>2, <1>3, <1>4, <1>5, <1>6, <1>7 DEF Supervisor

\* So does a worker's step: one that has ended, as all but the last have, takes none.
LEMMA WorkerStep ==
  ASSUME IInv, NEW from \in SUBSET Alive, NEW to \in State, Worker(from, to)
  PROVE  IInv'
<1> PICK i \in DOMAIN workers : workers[i] \in from /\ workers' = [workers EXCEPT ![i] = to]
  BY DEF Worker
<1>1. workers \in Seq(State) /\ i \in 1 .. Len(workers)
  BY LenProperties DEF IInv, TypeOK
<1>2. /\ workers' \in Seq(State) /\ Len(workers') = Len(workers)
      /\ \A j \in 1 .. Len(workers) : workers'[j] = IF j = i THEN to ELSE workers[j]
  BY <1>1, ExceptSeq
<1>3. workers[i] # "failed"
  BY DEF Alive
<1>4. \A j \in 1 .. Len(workers) : workers[j] = "failed" => workers'[j] = "failed"
  BY <1>2, <1>3
<1> QED BY <1>2, <1>4, WorkersKept DEF Worker

\* And a signal, which no worker that has ended hears.
LEMMA SignalStep == IInv /\ Signal => IInv'
<1> SUFFICES ASSUME IInv, Signal PROVE IInv'
  OBVIOUS
<1>1. workers \in Seq(State) /\ DOMAIN workers = 1 .. Len(workers) /\ Len(workers) \in Nat
  BY LenProperties DEF IInv, TypeOK
<1>2. CASE UNCHANGED workers
  BY <1>1, <1>2, WorkersKept DEF Signal
<1>3. CASE \E outcome \in Outcomes :
             workers' = [j \in DOMAIN workers |-> Signalled(workers[j], outcome)]
  <2> PICK outcome \in Outcomes :
             workers' = [j \in DOMAIN workers |-> Signalled(workers[j], outcome)]
    BY <1>3
  <2>1. \A j \in 1 .. Len(workers) :
          /\ Signalled(workers[j], outcome) \in State
          /\ workers[j] = "failed" => Signalled(workers[j], outcome) = "failed"
    BY <1>1, SignalledState, ElementOfSeq
  <2>2. /\ workers' \in [1 .. Len(workers) -> State]
        /\ \A j \in 1 .. Len(workers) : workers[j] = "failed" => workers'[j] = "failed"
    BY <1>1, <2>1
  <2>3. workers' \in Seq(State)
    BY <1>1, <2>2
  <2>4. Len(workers') = Len(workers)
    <3>1. DOMAIN workers' = 1 .. Len(workers') /\ DOMAIN workers' = 1 .. Len(workers)
      BY <2>2, <2>3, LenProperties
    <3> QED BY <1>1, <2>3, <3>1, LenProperties
  <2> QED BY <2>2, <2>3, <2>4, WorkersKept DEF Signal
<1> QED BY <1>2, <1>3 DEF Signal

\* The invariant holds of every behaviour of run().
LEMMA Invariance == Spec => []IInv
<1>1. Init => IInv
  <2> SUFFICES ASSUME Init PROVE IInv
    OBVIOUS
  <2>1. workers \in Seq(State) /\ Len(workers) = 0 /\ DOMAIN workers = {}
    BY EmptySeq DEF Init
  <2>2. max_restarts_ \in Int
    BY LimitsAssumption DEF Init
  <2>3. TypeOK
    <3>1. reaped \in 0 .. Len(workers) /\ restart_count \in Nat
      BY <2>1 DEF Init
    <3> QED BY <2>1, <3>1 DEF Init, TypeOK
  <2>4. OneWorker /\ PlaceInv
    BY <2>1 DEF Init, OneWorker, PlaceInv, Last, Returned
  <2>5. LimitKept
    BY <2>1, <2>2 DEF LimitKept
  <2> QED BY <2>3, <2>4, <2>5 DEF IInv
<1>2. IInv /\ [Next]_vars => IInv'
  <2> SUFFICES ASSUME IInv, [Next]_vars PROVE IInv'
    OBVIOUS
  <2>1. CASE Supervisor
    BY <2>1, SupervisorStep
  <2>2. CASE WorkerReady
    BY <2>2, WorkerStep DEF WorkerReady, Alive, State
  <2>3. CASE WorkerExits
    BY <2>3, WorkerStep DEF WorkerExits, Alive, State
  <2>4. CASE WorkerStops
    BY <2>4, WorkerStep DEF WorkerStops, Alive, State
  <2>5. CASE Signal
    BY <2>5, SignalStep
  <2>6. CASE UNCHANGED vars
    BY <2>6 DEF vars, IInv, TypeOK, OneWorker, LimitKept, PlaceInv, Last, Returned
  <2> QED BY <2>1, <2>2, <2>3, <2>4, <2>5, <2>6 DEF Next, Finished
<1> QED BY <1>1, <1>2, PTL DEF Spec

\* The supervisor's variables keep their types, for any limits and any number
\* of forks: whoever it waits for is one it has forked.
THEOREM Typing == Spec => []TypeOK
<1>1. IInv => TypeOK
  BY DEF IInv
<1> QED BY <1>1, Invariance, PTL

\* No two workers at a time, none without a failure before it, and none left
\* behind when run() returns (watchdog_supervisor.cpp:27-75).
THEOREM OneWorkerAtATime == Spec => []OneWorker
<1>1. IInv => OneWorker
  BY DEF IInv
<1> QED BY <1>1, Invariance, PTL

\* run() never forks more than max_restarts_ workers when that is positive.
THEOREM LimitHolds == Spec => []LimitKept
<1>1. IInv => LimitKept
  BY DEF IInv
<1> QED BY <1>1, Invariance, PTL
=============================================================================
