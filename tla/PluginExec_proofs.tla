-------------------------- MODULE PluginExec_proofs --------------------------
(***************************************************************************)
(* For any number of registered adapters, PluginExec is type correct,      *)
(* joins every worker before it is gone, and lets a worker spin at most    *)
(* once after a stop request.                                              *)
(***************************************************************************)
EXTENDS PluginExec, TLAPS

(* The two counters, and everything else: each is easier alone.            *)
CountersOK ==
    /\ registered \in 0..MaxProcesses
    /\ next \in 1..registered + 1

LEMMA InitTypeOK == Init => TypeOK
  <1> SUFFICES ASSUME Init
               PROVE  TypeOK
    OBVIOUS
  <1>1. CountersOK
    BY MaxProcessesAssumption DEF Init, CountersOK
  <1>2. /\ thread \in [Process -> {"none", "test", "health", "spin", "spinning",
                                  "left", "joined"}]
        /\ late \in [Process -> 0..MaxLate]
    BY DEF Init, MaxLate
  <1>. QED
    BY <1>1, <1>2 DEF Init, TypeOK, CountersOK

(* A step of the main thread keeps every variable in its domain.           *)
LEMMA MainTypeOK ==
    ASSUME TypeOK, RegisterAdapter \/ MainStep \/ Destroy
    PROVE  TypeOK'
  <1>1. CountersOK'
    <2> USE MaxProcessesAssumption DEF TypeOK, CountersOK
    <2>1. CASE RegisterAdapter
      BY <2>1 DEF RegisterAdapter
    <2>2. CASE StartProcess
      BY <2>2 DEF StartProcess
    <2>3. CASE JoinProcess
      BY <2>3 DEF JoinProcess, Join
    <2>4. CASE UNCHANGED <<registered, next>>
      BY <2>4
    <2>5. CASE next' = 1 /\ UNCHANGED registered
      BY <2>5
    <2>. QED
      BY <2>1, <2>2, <2>3, <2>4, <2>5
      DEF MainStep, Start, StartProcessFails, AllStarted, PollStopped, StopDone,
          Exit, Destroy, BeginStop
  <1>2. /\ wait_for_exit' \in BOOLEAN /\ running' \in BOOLEAN
        /\ instance' \in BOOLEAN /\ signalled' \in BOOLEAN
        /\ UNCHANGED <<ok, late>>
    BY DEF TypeOK, RegisterAdapter, MainStep, Start, StartProcess,
           StartProcessFails, StartFailureResult, AllStarted, PollStopped,
           JoinProcess, StopDone, Exit, Destroy, BeginStop
  <1>3. main' \in {"constructed", "starting", "waiting", "joining", "returned",
                   "destroying", "exited"}
    BY DEF TypeOK, RegisterAdapter, MainStep, Start, StartProcess,
           StartProcessFails, AllStarted, PollStopped, JoinProcess, StopDone, Exit,
           Destroy, LeaveLoop
  <1>4. \/ UNCHANGED thread
        \/ thread' = [thread EXCEPT ![next] = "test"]
        \/ thread' = [thread EXCEPT ![next] = "joined"]
    BY DEF RegisterAdapter, MainStep, Start, StartProcess, StartProcessFails,
           AllStarted, PollStopped, JoinProcess, Join, StopDone, Exit, Destroy
  <1>5. thread' \in [Process -> {"none", "test", "health", "spin", "spinning",
                                "left", "joined"}]
    BY <1>4 DEF TypeOK
  <1>. QED
    BY <1>1, <1>2, <1>3, <1>5 DEF TypeOK, CountersOK

(* So does a step of a worker.                                             *)
LEMMA WorkerTypeOK ==
    ASSUME TypeOK, NEW p \in Process, WorkerStep(p)
    PROVE  TypeOK'
  <1> USE DEF TypeOK, At
  <1>1. CASE TestRunning(p)
    BY <1>1 DEF TestRunning, LoopGuard
  <1>2. CASE SkipHealth(p)
    BY <1>2 DEF SkipHealth
  <1>3. CASE CheckHealth(p)
    BY <1>3 DEF CheckHealth, Unhealthy
  <1>4. CASE SpinOnce(p)
    BY <1>4 DEF SpinOnce, MaxLate
  <1>5. CASE Sleep(p)
    BY <1>5 DEF Sleep
  <1>. QED
    BY <1>1, <1>2, <1>3, <1>4, <1>5 DEF WorkerStep

LEMMA NextTypeOK == TypeOK /\ [Next]_vars => TypeOK'
  <1> SUFFICES ASSUME TypeOK, [Next]_vars
               PROVE  TypeOK'
    OBVIOUS
  <1>1. CASE Signal
    BY <1>1 DEF Signal, TypeOK
  <1>2. ASSUME NEW p \in Process, HealthChanges(p)
        PROVE  TypeOK'
    BY <1>2 DEF HealthChanges, TypeOK
  <1>3. CASE UNCHANGED vars
    BY <1>3 DEF vars, TypeOK
  <1>. QED
    BY <1>1, <1>2, <1>3, MainTypeOK, WorkerTypeOK DEF Next

(* PluginExec: every variable stays in its domain, for any number of       *)
(* registered adapters.                                                    *)
THEOREM TypeCorrect == Spec => []TypeOK
  BY InitTypeOK, NextTypeOK, PTL DEF Spec

-----------------------------------------------------------------------------
(***************************************************************************)
(* Threads exist exactly from the moment start() reaches their process     *)
(* until a join loop has passed it.                                        *)
(***************************************************************************)
ThreadsOfStarted ==
    \A p \in Process :
        /\ p > registered => thread[p] = "none"
        /\ main = "constructed" => thread[p] = "none"
        /\ main = "starting" /\ p >= next => thread[p] = "none"

JoinedSoFar ==
    /\ main \in {"joining", "destroying"} =>
           \A p \in Process : p < next => thread[p] \in {"none", "joined"}
    /\ NoWorkerOutlivesExec

(***************************************************************************)
(* While the flag is up nobody is late, and a worker between the test of   *)
(* the flag and its spin has not been late yet.                            *)
(***************************************************************************)
LateOnce ==
    \A p \in Process :
        /\ late[p] <= 1
        /\ running => late[p] = 0
        /\ thread[p] \in {"none", "health", "spin"} => late[p] = 0

IInv == ThreadsOfStarted /\ JoinedSoFar /\ LateOnce

LEMMA InitIInv == Init => IInv
  BY DEF Init, IInv, ThreadsOfStarted, JoinedSoFar, NoWorkerOutlivesExec, LateOnce

(* The main thread: start() fills the threads in order, the join loops     *)
(* empty them in order, and the flag only rises before any thread exists.  *)
LEMMA MainIInv ==
    ASSUME TypeOK, IInv, RegisterAdapter \/ MainStep \/ Destroy
    PROVE  IInv'
  <1> USE MaxProcessesAssumption
      DEF TypeOK, IInv, ThreadsOfStarted, JoinedSoFar, NoWorkerOutlivesExec,
          LateOnce, Process
  <1>1. CASE RegisterAdapter
    BY <1>1 DEF RegisterAdapter
  <1>2. CASE Start
    BY <1>2 DEF Start
  <1>3. CASE StartProcess
    BY <1>3 DEF StartProcess
  <1>4. CASE StartProcessFails
    BY <1>4 DEF StartProcessFails, StartFailureResult, LeaveLoop
  <1>5. CASE AllStarted
    BY <1>5 DEF AllStarted, LeaveLoop
  <1>6. CASE PollStopped
    BY <1>6 DEF PollStopped, BeginStop
  <1>7. CASE JoinProcess
    <2>1. /\ next \in Process
          /\ next' = next + 1
          /\ UNCHANGED <<running, registered, main, late>>
      BY <1>7 DEF JoinProcess, Join
    <2>2. /\ \A p \in Process : p # next => thread'[p] = thread[p]
          /\ thread'[next] \in {"none", "joined"}
          /\ thread'[next] = "none" => thread[next] = "none"
      BY <1>7, <2>1 DEF JoinProcess, Join, joinable
    <2>. QED
      BY <1>7, <2>1, <2>2 DEF JoinProcess
  <1>8. CASE StopDone
    BY <1>8 DEF StopDone
  <1>9. CASE Exit
    <2>1. \A p \in Process : thread[p] \in {"none", "joined"}
      BY <1>9 DEF Exit
    <2>. QED
      BY <1>9, <2>1 DEF Exit
  <1>10. CASE Destroy
    BY <1>10 DEF Destroy, BeginStop
  <1>. QED
    BY <1>1, <1>2, <1>3, <1>4, <1>5, <1>6, <1>7, <1>8, <1>9, <1>10 DEF MainStep

(* A worker moves only its own thread, which exists and is not joined; it  *)
(* begins a spin only after a test that found the flag up.                 *)
LEMMA WorkerIInv ==
    ASSUME TypeOK, IInv, NEW p \in Process, WorkerStep(p)
    PROVE  IInv'
  <1>1. /\ UNCHANGED <<registered, main, next>>
        /\ thread[p] \notin {"none", "joined"}
        /\ thread'[p] \notin {"none", "joined"}
        /\ \A q \in Process : q # p => thread'[q] = thread[q]
    BY DEF WorkerStep, TestRunning, SkipHealth, CheckHealth, SpinOnce, Sleep, At,
           LoopGuard, TypeOK
  <1>2. ThreadsOfStarted' /\ JoinedSoFar'
    BY <1>1 DEF IInv, ThreadsOfStarted, JoinedSoFar, NoWorkerOutlivesExec
  <1>3. LateOnce'
    <2> USE DEF TypeOK, IInv, LateOnce, At
    <2>1. CASE TestRunning(p)
      BY <2>1 DEF TestRunning, LoopGuard
    <2>2. CASE SkipHealth(p)
      BY <2>2 DEF SkipHealth
    <2>3. CASE CheckHealth(p)
      BY <2>3 DEF CheckHealth, Unhealthy
    <2>4. CASE SpinOnce(p)
      BY <2>4 DEF SpinOnce, MaxLate
    <2>5. CASE Sleep(p)
      BY <2>5 DEF Sleep
    <2>. QED
      BY <2>1, <2>2, <2>3, <2>4, <2>5 DEF WorkerStep
  <1>. QED
    BY <1>2, <1>3 DEF IInv

LEMMA NextIInv == TypeOK /\ IInv /\ [Next]_vars => IInv'
  <1> SUFFICES ASSUME TypeOK, IInv, [Next]_vars
               PROVE  IInv'
    OBVIOUS
  <1> USE DEF IInv, ThreadsOfStarted, JoinedSoFar, NoWorkerOutlivesExec, LateOnce
  <1>1. CASE Signal
    BY <1>1 DEF Signal
  <1>2. ASSUME NEW p \in Process, HealthChanges(p)
        PROVE  IInv'
    BY <1>2 DEF HealthChanges
  <1>3. CASE UNCHANGED vars
    BY <1>3 DEF vars
  <1>. QED
    BY <1>1, <1>2, <1>3, MainIInv, WorkerIInv DEF Next

THEOREM IInvariant == Spec => []IInv
  BY InitIInv, NextIInv, TypeCorrect, PTL DEF Spec

(***************************************************************************)
(* ~PluginExec leaves no worker behind, however start() ended and however  *)
(* many adapters were registered.                                          *)
(***************************************************************************)
THEOREM WorkersAreJoined == Spec => []NoWorkerOutlivesExec
  <1>1. IInv => NoWorkerOutlivesExec
    BY DEF IInv, JoinedSoFar
  <1>. QED
    BY <1>1, IInvariant, PTL

(* A worker spins at most once after the flag was lowered.                 *)
THEOREM StopIsPrompt == Spec => []AtMostOneLateSpin
  <1>1. IInv => AtMostOneLateSpin
    BY DEF IInv, LateOnce, AtMostOneLateSpin
  <1>. QED
    BY <1>1, IInvariant, PTL

=============================================================================
