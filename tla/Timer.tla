------------------------------- MODULE Timer -------------------------------
(***************************************************************************)
(* The timer scheduler (timer.cpp): one worker thread runs an asio context *)
(* and everything that touches the timers runs on it.  A caller on another *)
(* thread posts its operation as a task and polls until the task is done   *)
(* or the context is stopped; a callback performs its operations at once.  *)
(* One controller starts and stops the scheduler.                          *)
(*                                                                         *)
(* A wait that has expired is queued and can no longer be cancelled, so    *)
(* its handler compares the cycle it was armed for with the generation of  *)
(* its entry.  A wait that is cancelled earlier gets a handler that        *)
(* returns at once, which is left out.  Times are left out: a wait may     *)
(* expire whenever the worker looks.                                       *)
(***************************************************************************)
EXTENDS Naturals, Sequences, FiniteSets

CONSTANTS
  Client,     \* threads that call timer_create_entry, _remove, _set_interval
  MaxId,      \* the largest timer_id
  MaxGen,     \* bound: how often entries are armed in all
  MaxStart,   \* the largest generation of the scheduler
  NoClient

TimerAssumption == /\ MaxId \in Nat \ {0} /\ MaxGen \in Nat \ {0}
                   /\ MaxStart \in Nat \ {0}
                   /\ NoClient \notin Client

Ids == 1..MaxId
Ops == {"add", "remove", "set_interval"}
Wait == [id : Ids, cycle : 1..MaxGen]
Task == [client : Client \cup {NoClient}, op : Ops, id : 0..MaxId, cycle : 0..MaxStart]

VARIABLES
  started, generation,  \* of the scheduler
  stopped,              \* context.stopped()
  stopping,             \* the controller is in stop()
  worker,               \* what the worker thread does
  task,                 \* the task it executes
  active,               \* the wait whose callback it executes
  queue,                \* handlers ready to run: tasks and expired waits
  pending,              \* waits that have not expired
  entries,              \* keys of the map of entries
  cancelled,            \* entries with the cancelled flag
  cycles,               \* cycles[i]: the generation of entry i
  next_id,
  call,                 \* call[c]: the call of client c
  removed,              \* timers whose owner timer_remove has answered
  refused               \* timers whose creator was told of a failure

schedVars == <<started, generation, stopped, stopping>>
workVars  == <<worker, task, active>>
timerVars == <<pending, entries, cancelled, cycles, next_id>>
vars == <<schedVars, workVars, queue, timerVars, call, removed, refused>>

NoTask == [client |-> NoClient, op |-> "add", id |-> 0, cycle |-> 0]
NoWait == [id |-> 1, cycle |-> 1]
Idle   == [pc |-> "idle", op |-> "add", id |-> 0, result |-> 0]

TypeOK ==
  /\ started \in BOOLEAN /\ stopped \in BOOLEAN /\ stopping \in BOOLEAN
  /\ generation \in 0..MaxStart
  /\ worker \in {"none", "idle", "task", "callback", "ended"}
  /\ task \in Task /\ active \in Wait
  /\ queue \in Seq([kind : {"task"}, body : Task] \cup [kind : {"wait"}, body : Wait])
  /\ pending \subseteq Wait
  /\ entries \subseteq Ids /\ cancelled \subseteq Ids /\ removed \subseteq Ids /\ refused \subseteq Ids
  /\ entries \cap cancelled = {}
  /\ cycles \in [Ids -> 0..MaxGen] /\ next_id \in 0..MaxId
  /\ call \in [Client -> [pc : {"idle", "check", "post", "wait", "done"},
                          op : Ops, id : 0..MaxId, result : 0..MaxId]]

Init ==
  /\ started = FALSE /\ generation = 0 /\ stopped = FALSE /\ stopping = FALSE
  /\ worker = "none" /\ task = NoTask /\ active = NoWait
  /\ queue = <<>> /\ pending = {} /\ entries = {} /\ cancelled = {}
  /\ cycles = [i \in Ids |-> 0] /\ next_id = 1
  /\ call = [c \in Client |-> Idle] /\ removed = {} /\ refused = {}

-----------------------------------------------------------------------------
(* The controller.                                                          *)

(* scheduler::start, once the thread exists or cannot be created.  It does  *)
(* nothing if started, and fails when the generations are used up.          *)
Start(ok) ==
  /\ ~started /\ generation < MaxStart
  /\ generation' = generation + 1
  /\ started' = ok /\ stopped' = ~ok
  /\ worker' = IF ok THEN "idle" ELSE "none"
  /\ UNCHANGED <<stopping, task, active, queue, timerVars, call, removed, refused>>

(* scheduler::stop up to the join.  *)
Stop ==
  /\ started /\ ~stopping
  /\ stopped' = TRUE /\ stopping' = TRUE
  /\ UNCHANGED <<started, generation, workVars, queue, timerVars, call, removed, refused>>

(* scheduler::stop after the join: it cancels and forgets every entry.      *)
StopJoined ==
  /\ stopping /\ worker = "ended"
  /\ worker' = "none"
  /\ cancelled' = cancelled \cup entries
  /\ pending' = {w \in pending : w.id \notin entries}
  /\ entries' = {}
  /\ started' = FALSE /\ stopping' = FALSE
  /\ UNCHANGED <<generation, stopped, task, active, queue, cycles, next_id, call, removed, refused>>

-----------------------------------------------------------------------------
(* The operations, on the worker thread; r is what they return, 0 for       *)
(* failures.                                                                *)

NotOf(i) == {w \in pending : w.id # i}

(* How often entries were armed.                                            *)
Armed == Cardinality({a \in Ids \X (1..MaxGen) : a[2] <= cycles[a[1]]})

(* arm: cancel the wait of the entry and begin one for a new cycle.         *)
Arm(i) ==
  /\ i \notin cancelled /\ Armed < MaxGen
  /\ cycles' = [cycles EXCEPT ![i] = @ + 1]
  /\ pending' = NotOf(i) \cup {[id |-> i, cycle |-> cycles[i] + 1]}

(* An entry that cannot be armed is cancelled and forgotten; the failure    *)
(* may come before or after its wait is cancelled.                          *)
ArmFails(i) ==
  /\ pending' \in {pending, NotOf(i)}
  /\ cancelled' = cancelled \cup {i}
  /\ entries' = entries \ {i}
  /\ UNCHANGED cycles

(* Mutants of DoRemove: the flag is not set; the entry stays in the map.     *)
DoRemoveUnflagged(i, r) ==
  \/ i \notin entries /\ r = 0 /\ UNCHANGED timerVars
  \/ i \in entries /\ r = i /\ pending' = NotOf(i) /\ entries' = entries \ {i}
     /\ UNCHANGED <<cancelled, cycles, next_id>>

(* scheduler::add; a failure to compute the deadline or to arm leaves       *)
(* nothing behind.                                                          *)
DoAdd(r) ==
  \/ r = 0 /\ UNCHANGED timerVars
  \/ /\ next_id # 0 /\ r = next_id
     /\ Arm(r)
     /\ entries' = entries \cup {r}
     /\ next_id' = (next_id + 1) % (MaxId + 1)
     /\ UNCHANGED cancelled

DoRemove(i, r) ==
  \/ i \notin entries /\ r = 0 /\ UNCHANGED timerVars
  \/ /\ i \in entries /\ r = i
     /\ cancelled' = cancelled \cup {i}
     /\ pending' = NotOf(i)
     /\ entries' = entries \ {i}
     /\ UNCHANGED <<cycles, next_id>>

(* scheduler::set_interval; a deadline out of range leaves the entry as it  *)
(* was.                                                                     *)
DoSetInterval(i, r) ==
  \/ r = 0 /\ UNCHANGED timerVars
  \/ i \in entries /\ r = i /\ Arm(i) /\ UNCHANGED <<entries, cancelled, next_id>>
  \/ i \in entries /\ r = 0 /\ ArmFails(i) /\ UNCHANGED next_id

Do(op, i, r) ==
  \/ op = "add" /\ DoAdd(r)
  \/ op = "remove" /\ DoRemove(i, r)
  \/ op = "set_interval" /\ DoSetInterval(i, r)

(* Timers whose identifiers callers have been given.                        *)
Issued == IF next_id = 0 THEN Ids ELSE 1..next_id - 1

Targets(op) == IF op = "add" THEN {0} ELSE Issued

-----------------------------------------------------------------------------
(* The worker thread.  Once the context is stopped it takes no handler.     *)

(* The reactor finds that a wait has expired.                               *)
Expire(w) ==
  /\ worker = "idle" /\ ~stopped
  /\ w \in pending
  /\ pending' = pending \ {w}
  /\ queue' = Append(queue, [kind |-> "wait", body |-> w])
  /\ UNCHANGED <<schedVars, workVars, entries, cancelled, cycles, next_id, call, removed, refused>>

TakeTask ==
  /\ worker = "idle" /\ ~stopped
  /\ queue # <<>> /\ Head(queue).kind = "task"
  /\ worker' = "task" /\ task' = Head(queue).body
  /\ queue' = Tail(queue)
  /\ UNCHANGED <<schedVars, active, timerVars, call, removed, refused>>

(* Mutant of Perform: the cycle is not compared.                            *)
PerformAnyCycle(t, r) == Do(t.op, t.id, r)

(* The task of invoke: it fails if the scheduler was restarted since.       *)
Perform(t, r) ==
  \/ t.cycle # generation /\ r = 0 /\ UNCHANGED timerVars
  \/ t.cycle = generation /\ Do(t.op, t.id, r)

RunTask ==
  /\ worker = "task"
  /\ \E r \in 0..MaxId :
       /\ Perform(task, r)
       /\ call' = IF task.client = NoClient THEN call
                  ELSE [call EXCEPT ![task.client].pc = "done",
                                    ![task.client].result = r]
       /\ refused' = IF task.client = NoClient /\ task.op = "add" /\ r # 0
                     THEN refused \cup {r} ELSE refused
  /\ worker' = "idle" /\ task' = NoTask
  /\ UNCHANGED <<schedVars, active, queue, removed>>

(* A handler whose wait is out of date returns.                             *)
Stale(w) == w.id \in cancelled \/ w.cycle # cycles[w.id]

DropWait ==
  /\ worker = "idle" /\ ~stopped
  /\ queue # <<>> /\ Head(queue).kind = "wait" /\ Stale(Head(queue).body)
  /\ queue' = Tail(queue)
  /\ UNCHANGED <<schedVars, workVars, timerVars, call, removed, refused>>

CallbackBegins ==
  /\ worker = "idle" /\ ~stopped
  /\ queue # <<>> /\ Head(queue).kind = "wait" /\ ~Stale(Head(queue).body)
  /\ worker' = "callback" /\ active' = Head(queue).body
  /\ queue' = Tail(queue)
  /\ UNCHANGED <<schedVars, task, timerVars, call, removed, refused>>

(* invoke on the worker thread.                                             *)
CallbackOperates ==
  /\ worker = "callback" /\ started /\ ~stopped
  /\ \E op \in Ops : \E i \in Targets(op) : \E r \in 0..MaxId : Do(op, i, r)
  /\ UNCHANGED <<schedVars, workVars, queue, call, removed, refused>>

(* on_wait after the callback, which may have removed or rescheduled its    *)
(* timer, or says whether it wants to be called again.                      *)
AfterCallback(i) ==
  \/ Stale(active) /\ UNCHANGED timerVars
  \/ ~Stale(active) /\ Arm(i) /\ UNCHANGED <<entries, cancelled, next_id>>
  \/ ~Stale(active) /\ cancelled' = cancelled \cup {i} /\ entries' = entries \ {i}
     /\ UNCHANGED <<pending, cycles, next_id>>
  \/ ~Stale(active) /\ ArmFails(i) /\ UNCHANGED next_id

CallbackEnds ==
  /\ worker = "callback"
  /\ AfterCallback(active.id)
  /\ worker' = "idle" /\ active' = NoWait
  /\ UNCHANGED <<schedVars, task, queue, call, removed, refused>>

(* context.run returns because the context is stopped, or throws.           *)
WorkerEnds ==
  /\ worker = "idle"
  /\ worker' = "ended" /\ stopped' = TRUE
  /\ UNCHANGED <<started, generation, stopping, task, active, queue, timerVars, call, removed, refused>>

-----------------------------------------------------------------------------
(* The callers.                                                             *)

Begin(c, op, i) ==
  /\ call[c].pc = "idle" /\ i \in Targets(op)
  /\ call' = [call EXCEPT ![c] = [pc |-> "check", op |-> op, id |-> i, result |-> 0]]
  /\ UNCHANGED <<schedVars, workVars, queue, timerVars, removed, refused>>

(* invoke: the caller goes on if it finds the scheduler started.            *)
Check(c) ==
  /\ call[c].pc = "check"
  /\ call' = IF started /\ ~stopped THEN [call EXCEPT ![c].pc = "post"]
             ELSE [call EXCEPT ![c] = Idle]
  /\ UNCHANGED <<schedVars, workVars, queue, timerVars, removed, refused>>

Post(c) ==
  /\ call[c].pc = "post"
  /\ queue' = Append(queue, [kind |-> "task",
        body |-> [client |-> c, op |-> call[c].op, id |-> call[c].id, cycle |-> generation]])
  /\ call' = [call EXCEPT ![c].pc = "wait"]
  /\ UNCHANGED <<schedVars, workVars, timerVars, removed, refused>>

(* The task is done: a caller of timer_remove has been answered.            *)
Return(c) ==
  /\ call[c].pc = "done"
  /\ removed' = IF call[c].op = "remove" THEN removed \cup {call[c].id} ELSE removed
  /\ call' = [call EXCEPT ![c] = Idle]
  /\ UNCHANGED <<schedVars, workVars, queue, timerVars, refused>>

(* Mutant of GiveUp: the caller waits for its task whatever happens.        *)
GiveUpNever(c) == call[c].pc \in {"wait", "done"} /\ stopped /\ UNCHANGED vars

(* The caller saw that the task was not done, then that the context is      *)
(* stopped; the task stays where it is and has nobody to tell.              *)
GiveUp(c) ==
  /\ call[c].pc \in {"wait", "done"} /\ stopped
  /\ LET orphan(t) == IF t.client = c THEN [t EXCEPT !.client = NoClient] ELSE t
     IN /\ queue' = [i \in DOMAIN queue |->
                       IF queue[i].kind = "task" THEN [queue[i] EXCEPT !.body = orphan(@)]
                       ELSE queue[i]]
        /\ task' = orphan(task)
  /\ call' = [call EXCEPT ![c] = Idle]
  /\ refused' = IF call[c].op = "add" /\ call[c].result # 0
                THEN refused \cup {call[c].result} ELSE refused
  /\ UNCHANGED <<schedVars, worker, active, timerVars, removed>>

Worker == TakeTask \/ RunTask \/ DropWait \/ CallbackBegins \/ CallbackEnds

Caller(c) == Check(c) \/ Post(c) \/ Return(c) \/ GiveUp(c)

Next ==
  \/ \E ok \in BOOLEAN : Start(ok)
  \/ Stop \/ StopJoined
  \/ \E w \in pending : Expire(w)
  \/ Worker \/ CallbackOperates \/ WorkerEnds
  \/ \E c \in Client : \/ \E op \in Ops : \E i \in Targets(op) : Begin(c, op, i)
                       \/ Caller(c)

Spec == Init /\ [][Next]_vars

(* Threads run, a stopped context makes run return, and callbacks end.      *)
FairSpec ==
  /\ Spec /\ WF_vars(Worker) /\ WF_vars(StopJoined)
  /\ WF_vars(stopped /\ WorkerEnds)
  /\ \A c \in Client : WF_vars(Caller(c))

-----------------------------------------------------------------------------
(* Once a call of timer_remove was answered by the worker, the callback of   *)
(* the timer does not run: an expired wait that was already queued, and a    *)
(* callback that was running, are over (timer.cpp, remove and arm).          *)
CallbackOwned == worker = "callback" => active.id \notin removed

(* What the callback's owner would have to be able to rely on if timer.h     *)
(* were right: timer_remove has returned only when no callback is active.    *)
RemoveWaits ==
  [][\A c \in Client :
       call[c].op = "remove" /\ call[c].pc # "idle" /\ call'[c].pc = "idle"
         => ~(worker = "callback" /\ active.id = call[c].id)]_vars

(* The waits that will lead to a callback of timer i.                        *)
LiveWaits(i) ==
  {w \in pending : w.id = i /\ ~Stale(w)}
    \cup {queue[k].body : k \in {k \in DOMAIN queue : queue[k].kind = "wait"
                                  /\ queue[k].body.id = i /\ ~Stale(queue[k].body)}}

(* A registered timer is neither lost nor doubled: one wait leads to its     *)
(* next callback, which is queued once at most, except while that callback   *)
(* runs, which arms it again or gives it up (timer.cpp, arm and on_wait).    *)
OneLiveWait ==
  /\ \A i \in entries :
       LET n == IF worker = "callback" /\ active.id = i /\ ~Stale(active) THEN 0 ELSE 1
       IN \E S \in {LiveWaits(i)} : IF n = 0 THEN S = {} ELSE \E w \in S : S = {w}
  /\ \A i \in Ids \ entries : LiveWaits(i) = {}
  /\ \A k, l \in DOMAIN queue :
       queue[k].kind = "wait" /\ queue[k] = queue[l] => k = l \/ Stale(queue[k].body)

(* No callback begins for a creation that failed: neither for a timer that   *)
(* was added before its caller gave up, nor by a task of that caller that is *)
(* run by a later cycle of the scheduler (timer.cpp, invoke and stop).       *)
RefusedSilent ==
  [][worker # "callback" /\ worker' = "callback" => active'.id \notin refused]_vars
=============================================================================
