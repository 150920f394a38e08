------------------------------ MODULE PluginExec ------------------------------
(***************************************************************************)
(* The lifecycle of a plugin: main() registers its adapters with a         *)
(* PluginExec, start() starts them one by one, each with a worker thread   *)
(* that spins it until the shared running_ flag becomes false, and the     *)
(* threads are joined by stop() and by the destructor. The flag is lowered *)
(* by a signal handler, by a worker whose adapter is no longer healthy, by *)
(* an adapter that does not start, and by stop() itself.                   *)
(*                                                                         *)
(* The main thread, the workers, the signal handler and the adapters'      *)
(* connections all move concurrently. Time is abstracted: a worker may     *)
(* find its one-second health check due in any iteration, and does so      *)
(* again and again (see Spec).                                             *)
(*                                                                         *)
(* Operators named Mutant... are wrong variants of the operator after      *)
(* them. No specification uses them: they show which property notices.     *)
(***************************************************************************)
EXTENDS Naturals

CONSTANT MaxProcesses   \* bound: how many adapters main() may register

ASSUME MaxProcessesAssumption == MaxProcesses \in Nat

VARIABLES
    wait_for_exit,  \* the argument of start()
    running,        \* PluginExec::running_, shared with every worker
    instance,       \* PluginExec::instance_ is not null
    registered,     \* how many processes processes_ holds
    main,           \* where the main thread is
    next,           \* the process start() or stop() is about to handle
    thread,         \* per process: where its worker is
    ok,             \* per process: what is_ok() of its adapter answers
    late,           \* history: spins a worker began after the flag was lowered,
                    \* counted up to MaxLate
    signalled       \* history: a termination signal was delivered

Process == 1..MaxProcesses
MaxLate == 2

vars == <<wait_for_exit, running, instance, registered, main, next, thread, ok,
          late, signalled>>

Init ==
    /\ wait_for_exit \in BOOLEAN
    /\ running = FALSE
    /\ instance = TRUE
    /\ registered = 0
    /\ main = "constructed"
    /\ next = 1
    /\ thread = [p \in Process |-> "none"]
    /\ ok \in [Process -> BOOLEAN]
    /\ late = [p \in Process |-> 0]
    /\ signalled = FALSE

-----------------------------------------------------------------------------
(* The main thread.                                                        *)

RegisterAdapter ==
    /\ main = "constructed"
    /\ registered < MaxProcesses
    /\ registered' = registered + 1
    /\ UNCHANGED <<wait_for_exit, running, instance, main, next, thread, ok,
                   late, signalled>>

(* start(): whatever the flag was before.                                  *)
Start ==
    /\ main = "constructed"
    /\ running' = TRUE
    /\ main' = "starting"
    /\ UNCHANGED <<wait_for_exit, instance, registered, next, thread, ok,
                   late, signalled>>

(* The end of start()'s loop, also reached by its break.                   *)
LeaveLoop == main' = IF wait_for_exit THEN "waiting" ELSE "returned"

(* Process::start(): the adapter started, and its thread now exists.       *)
StartProcess ==
    /\ main = "starting"
    /\ next <= registered
    /\ thread' = [thread EXCEPT ![next] = "test"]
    /\ next' = next + 1
    /\ UNCHANGED <<wait_for_exit, running, instance, registered, main, ok,
                   late, signalled>>

(* A null adapter, or AdapterBase::start() returned false: give up.        *)
MutantIgnoreFailure == UNCHANGED running
StartFailureResult == running' = FALSE

StartProcessFails ==
    /\ main = "starting"
    /\ next <= registered
    /\ StartFailureResult
    /\ LeaveLoop
    /\ next' = 1
    /\ UNCHANGED <<wait_for_exit, instance, registered, thread, ok,
                   late, signalled>>

AllStarted ==
    /\ main = "starting"
    /\ next > registered
    /\ LeaveLoop
    /\ next' = 1
    /\ UNCHANGED <<wait_for_exit, running, instance, registered, thread, ok,
                   late, signalled>>

(* stop(): lower the flag, then join the threads from the first process on. *)
MutantFlagStaysUp ==
    /\ next' = 1
    /\ UNCHANGED running
MutantFromZero ==
    /\ next' = 0
    /\ running' = FALSE
BeginStop ==
    /\ next' = 1
    /\ running' = FALSE

(* start() polls the flag and calls stop() when it finds it lowered.       *)
PollStopped ==
    /\ main = "waiting"
    /\ ~running
    /\ BeginStop
    /\ main' = "joining"
    /\ UNCHANGED <<wait_for_exit, instance, registered, thread, ok,
                   late, signalled>>

(***************************************************************************)
(* ~PluginExec(): start() returned and its object goes out of scope, or    *)
(* an exception left AdapterBase::start() and the stack is unwound.        *)
(***************************************************************************)
Destroy ==
    /\ \/ main = "returned"
       \/ main = "starting" /\ next <= registered
    /\ BeginStop
    /\ main' = "destroying"
    /\ UNCHANGED <<wait_for_exit, instance, registered, thread, ok,
                   late, signalled>>

(* Process::stop(): join() blocks until the worker has left its loop.      *)
joinable(p) == thread[p] \notin {"none", "joined"}

MutantNoJoin ==
    /\ UNCHANGED thread
    /\ next' = next + 1
Join ==
    /\ joinable(next) => thread[next] = "left"
    /\ thread' = IF joinable(next) THEN [thread EXCEPT ![next] = "joined"] ELSE thread
    /\ next' = next + 1

JoinProcess ==
    /\ main \in {"joining", "destroying"}
    /\ next <= registered
    /\ Join
    /\ UNCHANGED <<wait_for_exit, running, instance, registered, main, ok,
                   late, signalled>>

(* stop() returns to start(), which returns.                               *)
StopDone ==
    /\ main = "joining"
    /\ next > registered
    /\ main' = "returned"
    /\ UNCHANGED <<wait_for_exit, running, instance, registered, next, thread, ok,
                   late, signalled>>

(* The destructor's last step: a later signal finds no instance.           *)
Exit ==
    /\ main = "destroying"
    /\ next > registered
    /\ instance' = FALSE
    /\ main' = "exited"
    /\ UNCHANGED <<wait_for_exit, running, registered, next, thread, ok,
                   late, signalled>>

MainStep ==
    \/ Start \/ StartProcess \/ StartProcessFails \/ AllStarted
    \/ PollStopped \/ JoinProcess \/ StopDone \/ Exit

-----------------------------------------------------------------------------
(* The worker threads.                                                     *)

At(p, from, to) ==
    /\ thread[p] = from
    /\ thread' = [thread EXCEPT ![p] = to]

(* while (running)                                                         *)
MutantLoopForever == "health"
LoopGuard == IF running THEN "health" ELSE "left"

TestRunning(p) ==
    /\ At(p, "test", LoopGuard)
    /\ UNCHANGED <<wait_for_exit, running, instance, registered, main, next, ok,
                   late, signalled>>

(* The health check is not due, or it is due and passes.                   *)
SkipHealth(p) ==
    /\ At(p, "health", "spin")
    /\ UNCHANGED <<wait_for_exit, running, instance, registered, main, next, ok,
                   late, signalled>>

(* The health check is due: an unusable adapter stops the application.     *)
MutantLeaveQuietly == UNCHANGED running
Unhealthy == running' = FALSE

CheckHealth(p) ==
    /\ IF ok[p]
       THEN At(p, "health", "spin") /\ UNCHANGED running
       ELSE At(p, "health", "left") /\ Unhealthy
    /\ UNCHANGED <<wait_for_exit, instance, registered, main, next, ok,
                   late, signalled>>

(* adapter_->spin_once() begins.                                           *)
SpinOnce(p) ==
    /\ At(p, "spin", "spinning")
    /\ late' = IF running \/ late[p] = MaxLate
               THEN late
               ELSE [late EXCEPT ![p] = @ + 1]
    /\ UNCHANGED <<wait_for_exit, running, instance, registered, main, next, ok,
                   signalled>>

(* spin_once() returns and sleep_until(next) ends.                         *)
Sleep(p) ==
    /\ At(p, "spinning", "test")
    /\ UNCHANGED <<wait_for_exit, running, instance, registered, main, next, ok,
                   late, signalled>>

WorkerStep(p) ==
    TestRunning(p) \/ SkipHealth(p) \/ CheckHealth(p) \/ SpinOnce(p) \/ Sleep(p)

-----------------------------------------------------------------------------
(* What happens around the program.                                        *)

(* SIGINT or SIGTERM runs the handler on some thread.                      *)
Signal ==
    /\ main # "exited"
    /\ running' = IF instance THEN FALSE ELSE running
    /\ signalled' = TRUE
    /\ UNCHANGED <<wait_for_exit, instance, registered, main, next, thread, ok, late>>

(* The connection behind an adapter is lost or comes back.                 *)
HealthChanges(p) ==
    /\ ok' = [ok EXCEPT ![p] = ~@]
    /\ UNCHANGED <<wait_for_exit, running, instance, registered, main, next, thread,
                   late, signalled>>

Next ==
    \/ RegisterAdapter
    \/ MainStep
    \/ Destroy
    \/ \E p \in Process : WorkerStep(p)
    \/ Signal
    \/ \E p \in Process : HealthChanges(p)

(***************************************************************************)
(* Every thread keeps being scheduled and spin_once() and start() return.  *)
(* A worker that keeps iterating meets a due health check again and again, *)
(* because every iteration sleeps until a deadline one period later. The   *)
(* object is destroyed when start() blocked until the end (all plugins);   *)
(* nothing says when a caller that did not wait destroys it.               *)
(***************************************************************************)
Fairness ==
    /\ WF_vars(MainStep)
    /\ WF_vars(wait_for_exit /\ main = "returned" /\ Destroy)
    /\ \A p \in Process : WF_vars(WorkerStep(p)) /\ SF_vars(CheckHealth(p))

Spec == Init /\ [][Next]_vars /\ Fairness

-----------------------------------------------------------------------------
TypeOK ==
    /\ wait_for_exit \in BOOLEAN
    /\ running \in BOOLEAN
    /\ instance \in BOOLEAN
    /\ registered \in 0..MaxProcesses
    /\ main \in {"constructed", "starting", "waiting", "joining", "returned",
                 "destroying", "exited"}
    /\ next \in 1..registered + 1
    /\ thread \in [Process -> {"none", "test", "health", "spin", "spinning",
                               "left", "joined"}]
    /\ ok \in [Process -> BOOLEAN]
    /\ late \in [Process -> 0..MaxLate]
    /\ signalled \in BOOLEAN

(***************************************************************************)
(* ~PluginExec joins every worker that was started, however start() ended  *)
(* (signal, unhealthy adapter, failed start, exception), so none uses the  *)
(* flag or its adapter after they are destroyed.                           *)
(***************************************************************************)
NoWorkerOutlivesExec ==
    main = "exited" => \A p \in Process : thread[p] \in {"none", "joined"}

(***************************************************************************)
(* The loop tests the flag before each spin: once the application is told  *)
(* to stop, a worker gives its adapter at most one more cycle.             *)
(***************************************************************************)
AtMostOneLateSpin == \A p \in Process : late[p] <= 1

(***************************************************************************)
(* A stop request made once start() has raised the flag is never undone,   *)
(* and it ends the application: every worker leaves, is joined, and main() *)
(* returns, also when a process further down failed to start.              *)
(***************************************************************************)
StopRequested == main # "constructed" /\ ~running

StopCompletes == (StopRequested /\ wait_for_exit) ~> main = "exited"

(***************************************************************************)
(* start() does not run a partial application: when a process does not     *)
(* start, those before it are stopped and joined, and main() returns.      *)
(***************************************************************************)
PartlyStarted ==
    main = "waiting" /\ \E p \in 1..registered : thread[p] = "none"

FailedStartStops == PartlyStarted ~> main = "exited"

(***************************************************************************)
(* ~PluginExec lowers the flag before it joins: it never waits for workers *)
(* nobody told to stop, even when an exception unwinds a half-done start().*)
(***************************************************************************)
DestructorCompletes == main = "destroying" ~> main = "exited"

(***************************************************************************)
(* "start() blocks until a termination signal or an adapter-health failure *)
(* stops the application": a started adapter that stays unusable stops it. *)
(***************************************************************************)
HealthFailureStops ==
    \A p \in Process :
        (joinable(p) /\ wait_for_exit /\ []~ok[p]) ~> main = "exited"

(***************************************************************************)
(* "Receiving either signal requests all registered processes to stop."    *)
(***************************************************************************)
SignalStops == (signalled /\ wait_for_exit) ~> main = "exited"

=============================================================================
