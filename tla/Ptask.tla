------------------------------- MODULE Ptask -------------------------------
(***************************************************************************)
(* Periodic tasks (ptask.cpp): a worker thread calls the callback of every *)
(* task, with the mutex of the scheduler held from the first to the last,  *)
(* then waits and sweeps again.  Devices add and remove their tasks from   *)
(* other threads; one controller starts and stops the scheduler.           *)
(*                                                                         *)
(* The handlers of the asio context are sweeps, each for the cycle of the  *)
(* scheduler it was made in.  A wait that is cancelled has a handler that  *)
(* returns at once, which is left out; times are left out.                 *)
(***************************************************************************)
EXTENDS Naturals, Sequences, FiniteSets, SequencesExt

CONSTANTS
  Device,    \* callers of ptask_add and ptask_remove, one task each
  MaxId,     \* the largest task identifier
  MaxStart   \* the largest generation of the scheduler

PtaskAssumption == /\ MaxId \in Nat \ {0} /\ MaxStart \in Nat \ {0}

Ids == 1..MaxId

VARIABLES
  running, started, generation, next_id,
  tasks,     \* identifiers, in the order of a sweep
  stopped,   \* context.stopped()
  queue,     \* cycles of the sweeps that are ready to run
  waiting,   \* cycles of the waits that have not expired
  worker,    \* where the worker thread is
  cycle,     \* the cycle of the sweep it runs
  todo,      \* tasks it has yet to call, the one it calls first
  stopper,   \* where the controller is in stop()
  call,      \* call[d]: what device d does
  id         \* id[d]: the task it owns, 0 for none

schedVars == <<running, started, generation>>
asioVars  == <<stopped, queue, waiting>>
workVars  == <<worker, cycle, todo>>
devVars   == <<call, id>>
vars == <<schedVars, next_id, tasks, asioVars, workVars, stopper, devVars>>

TypeOK ==
  /\ running \in BOOLEAN /\ started \in BOOLEAN /\ stopped \in BOOLEAN
  /\ running => started
  /\ generation \in 0..MaxStart /\ next_id \in 0..MaxId
  /\ tasks \in Seq(Ids) /\ queue \in Seq(1..MaxStart) /\ waiting \subseteq 1..MaxStart
  /\ worker \in {"none", "idle", "lock", "sweep", "ended"}
  /\ cycle \in 0..MaxStart /\ todo \in Seq(Ids)
  /\ stopper \in {"idle", "lock", "stop", "join", "relock"}
  /\ call \in [Device -> {"idle", "add", "remove"}] /\ id \in [Device -> 0..MaxId]

Init ==
  /\ running = FALSE /\ started = FALSE /\ generation = 0 /\ next_id = 0
  /\ tasks = <<>>
  /\ stopped = FALSE /\ queue = <<>> /\ waiting = {}
  /\ worker = "none" /\ cycle = 0 /\ todo = <<>> /\ stopper = "idle"
  /\ call = [d \in Device |-> "idle"] /\ id = [d \in Device |-> 0]

-----------------------------------------------------------------------------
(* The mutex is free: only a sweep keeps it for more than one step.          *)
Free == worker # "sweep"

(* The controller.                                                          *)

(* scheduler::start, under the mutex.  When the sweep cannot be posted or   *)
(* the thread not be created, a sweep that was posted stays in the context. *)
Start(ok) ==
  /\ stopper = "idle" /\ Free /\ ~started
  /\ generation < MaxStart
  /\ generation' = generation + 1
  /\ \/ queue' = Append(queue, generation + 1)
     \/ ~ok /\ queue' = queue
  /\ running' = ok /\ started' = ok /\ stopped' = ~ok
  /\ worker' = IF ok THEN "idle" ELSE "none"
  /\ UNCHANGED <<next_id, tasks, waiting, cycle, todo, stopper, devVars>>

(* scheduler::stop.                                                         *)
Stop ==
  /\ stopper = "idle"
  /\ stopper' = "lock"
  /\ UNCHANGED <<schedVars, next_id, tasks, asioVars, workVars, devVars>>

StopLocked ==
  /\ stopper = "lock" /\ Free
  /\ \/ started /\ running' = FALSE /\ stopper' = "stop"
     \/ ~started /\ stopper' = "idle" /\ UNCHANGED running
  /\ UNCHANGED <<started, generation, next_id, tasks, asioVars, workVars, devVars>>

StopContext ==
  /\ stopper = "stop"
  /\ stopped' = TRUE /\ stopper' = "join"
  /\ UNCHANGED <<schedVars, next_id, tasks, queue, waiting, workVars, devVars>>

StopJoin ==
  /\ stopper = "join" /\ worker = "ended"
  /\ worker' = "none" /\ waiting' = {}
  /\ stopper' = "relock"
  /\ UNCHANGED <<schedVars, next_id, tasks, stopped, queue, cycle, todo, devVars>>

StopDone ==
  /\ stopper = "relock" /\ Free
  /\ started' = FALSE /\ stopper' = "idle"
  /\ UNCHANGED <<running, generation, next_id, tasks, asioVars, workVars, devVars>>

-----------------------------------------------------------------------------
(* The worker thread.                                                       *)

Expire(c) ==
  /\ worker = "idle" /\ ~stopped /\ c \in waiting
  /\ waiting' = waiting \ {c} /\ queue' = Append(queue, c)
  /\ UNCHANGED <<schedVars, next_id, tasks, stopped, workVars, stopper, devVars>>

TakeSweep ==
  /\ worker = "idle" /\ ~stopped /\ queue # <<>>
  /\ worker' = "lock" /\ cycle' = Head(queue) /\ queue' = Tail(queue)
  /\ UNCHANGED <<schedVars, next_id, tasks, stopped, waiting, todo, stopper, devVars>>

(* Mutant of Outdated: a sweep of an earlier cycle goes on.                 *)
OutdatedRunning == ~running

Outdated == ~running \/ cycle # generation

(* scheduler::sweep: it takes the mutex and begins with the first task.     *)
SweepBegins ==
  /\ worker = "lock" /\ Free
  /\ \/ Outdated /\ worker' = "idle" /\ UNCHANGED todo
     \/ ~Outdated /\ worker' = "sweep" /\ todo' = tasks
  /\ UNCHANGED <<schedVars, next_id, tasks, asioVars, cycle, stopper, devVars>>

(* The callback of a task returns.                                          *)
SweepNext ==
  /\ worker = "sweep" /\ todo # <<>>
  /\ todo' = Tail(todo)
  /\ UNCHANGED <<schedVars, next_id, tasks, asioVars, worker, cycle, stopper, devVars>>

(* Mutant of SweepEnds: the wait of the next sweep is not begun.            *)
SweepEndsForgotten ==
  /\ worker = "sweep" /\ todo = <<>>
  /\ worker' = "idle"
  /\ UNCHANGED <<schedVars, next_id, tasks, asioVars, cycle, todo, stopper, devVars>>

(* It cancels the wait there is, begins one and gives up the mutex.         *)
SweepEnds ==
  /\ worker = "sweep" /\ todo = <<>>
  /\ waiting' = {cycle}
  /\ worker' = "idle"
  /\ UNCHANGED <<schedVars, next_id, tasks, stopped, queue, cycle, todo, stopper, devVars>>

(* The wait cannot be begun: the context is stopped.                        *)
SweepFails ==
  /\ worker = "sweep" /\ todo = <<>>
  /\ waiting' \in {waiting, {}} /\ stopped' = TRUE
  /\ worker' = "idle"
  /\ UNCHANGED <<schedVars, next_id, tasks, queue, cycle, todo, stopper, devVars>>

(* Mutant of WorkerEnds: nothing ends run.                                  *)
WorkerEndsNever == FALSE /\ UNCHANGED vars

(* context.run returns, because the context is stopped.                  *)
WorkerEnds ==
  /\ worker = "idle" /\ stopped
  /\ worker' = "ended"
  /\ UNCHANGED <<schedVars, next_id, tasks, asioVars, cycle, todo, stopper, devVars>>

-----------------------------------------------------------------------------
(* The devices.                                                             *)

Begin(d) ==
  /\ call[d] = "idle"
  /\ call' = [call EXCEPT ![d] = IF id[d] = 0 THEN "add" ELSE "remove"]
  /\ UNCHANGED <<schedVars, next_id, tasks, asioVars, workVars, stopper, id>>

(* scheduler::add; without an identifier it fails.                          *)
Add(d) ==
  /\ call[d] = "add" /\ Free
  /\ \/ /\ next_id < MaxId
        /\ next_id' = next_id + 1
        /\ tasks' = <<next_id + 1>> \o tasks
        /\ id' = [id EXCEPT ![d] = next_id + 1]
     \/ next_id = MaxId /\ UNCHANGED <<next_id, tasks, id>>
  /\ call' = [call EXCEPT ![d] = "idle"]
  /\ UNCHANGED <<schedVars, asioVars, workVars, stopper>>

(* scheduler::remove: the first task with the identifier goes, if any does.  *)
RemoveTask(d) ==
  /\ call[d] = "remove" /\ Free
  /\ \/ \E k \in DOMAIN tasks : /\ tasks[k] = id[d]
                                /\ \A j \in 1..k - 1 : tasks[j] # id[d]
                                /\ tasks' = RemoveAt(tasks, k)
     \/ id[d] \notin ToSet(tasks) /\ UNCHANGED tasks
  /\ id' = [id EXCEPT ![d] = 0]
  /\ call' = [call EXCEPT ![d] = "idle"]
  /\ UNCHANGED <<schedVars, next_id, asioVars, workVars, stopper>>

Worker == TakeSweep \/ SweepBegins \/ SweepNext \/ SweepEnds \/ SweepFails \/ WorkerEnds

Next ==
  \/ \E ok \in BOOLEAN : Start(ok)
  \/ Stop \/ StopLocked \/ StopContext \/ StopJoin \/ StopDone
  \/ \E c \in waiting : Expire(c)
  \/ Worker
  \/ \E d \in Device : Begin(d) \/ Add(d) \/ RemoveTask(d)

Spec == Init /\ [][Next]_vars

(* Threads run, callbacks return and waits expire.  A sweep is followed by   *)
(* a wait of ptask_sleep_time, in which whoever waits for the mutex gets it. *)
FairSpec ==
  /\ Spec /\ WF_vars(Worker) /\ WF_vars(\E c \in waiting : Expire(c))
  /\ SF_vars(StopLocked) /\ SF_vars(StopDone) /\ WF_vars(StopContext) /\ WF_vars(StopJoin)
  /\ \A d \in Device : SF_vars(Add(d)) /\ SF_vars(RemoveTask(d))

-----------------------------------------------------------------------------
(* A sweep calls tasks their devices still own: once ptask_remove has        *)
(* returned, the device may free what its callback uses (ptask.cpp, remove   *)
(* and sweep).                                                               *)
SweepOwned == worker = "sweep" => \A k \in DOMAIN todo : \E d \in Device : id[d] = todo[k]

(* While the scheduler runs there is one sweep of its cycle, queued, waited  *)
(* for or in progress: a restart neither loses nor doubles it, whatever the  *)
(* cycle before left in the context (ptask.cpp, start, sweep and stop).      *)
OneSweep ==
  running /\ ~stopped =>
    LET queued == {k \in DOMAIN queue : queue[k] = generation}
        one(b) == IF b THEN 1 ELSE 0
    IN Cardinality(queued) + one(generation \in waiting)
         + one(worker \in {"lock", "sweep"} /\ cycle = generation) = 1

(* A task is called as long as the scheduler runs (ptask.cpp, sweep).        *)
TasksSwept ==
  \A i \in Ids : Contains(tasks, i) /\ running
    ~> \/ worker = "sweep" /\ todo # <<>> /\ Head(todo) = i
       \/ ~running \/ stopped \/ ~Contains(tasks, i)
=============================================================================
