------------------------------- MODULE Workers -------------------------------
(***************************************************************************)
(* The threads that call back into the objects of the emulator while those *)
(* come and go: the worker of the UDP receivers (UdpReceiver), the worker  *)
(* of the periodic tasks (Ptask) and the receive threads of the other NIOs *)
(* (RxListener).  None takes a mutex of another, so a behaviour here is of *)
(* one of them; at says of which, and the others rest.                     *)
(***************************************************************************)
EXTENDS UdpReceiver

CONSTANTS
  MaxId, MaxStart,          \* of Ptask
  RxNio, FdNio, NoNio       \* of RxListener

VARIABLES
  at,        \* "udp", "ptask" or "rxl"
  t_running, t_started, generation, next_id, tasks, t_stopped, queue, waiting,
  t_worker, cycle, todo, t_stopper, t_call, id,
  r_call, r_pc, used, r_lock, add_list, remove_head, rxl_next, listed, r_owner,
  refs, running, freed, spec, gen, ready, r_current

taskVars == <<t_running, t_started, generation, next_id, tasks, t_stopped, queue,
              waiting, t_worker, cycle, todo, t_stopper, t_call, id>>
rxlVars == <<r_call, r_pc, used, r_lock, add_list, remove_head, rxl_next, listed,
             r_owner, refs, running, freed, spec, gen, ready, r_current>>

P == INSTANCE Ptask WITH
       Device <- Client,
       running <- t_running, started <- t_started, stopped <- t_stopped,
       worker <- t_worker, stopper <- t_stopper, call <- t_call

R == INSTANCE RxListener WITH
       Nio <- RxNio, Sharing <- FALSE,
       call <- r_call, pc <- r_pc, lock <- r_lock, owner <- r_owner,
       current <- r_current

ASSUME WorkersAssumption == P!PtaskAssumption /\ R!RxAssumption

WorkersInit == at \in {"udp", "ptask", "rxl"} /\ Init /\ P!Init /\ R!Init

UdpStep   == at = "udp" /\ Next /\ UNCHANGED <<at, taskVars, rxlVars>>
PtaskStep == at = "ptask" /\ P!Next /\ UNCHANGED <<at, vars, rxlVars>>
RxlStep   == at = "rxl" /\ R!Next /\ UNCHANGED <<at, vars, taskVars>>

WorkersNext == UdpStep \/ PtaskStep \/ RxlStep

(* A step of the one that runs. *)
Either(udp, task, rxl) == \/ at = "udp" /\ udp /\ UNCHANGED <<taskVars, rxlVars>>
                          \/ at = "ptask" /\ task /\ UNCHANGED <<vars, rxlVars>>
                          \/ at = "rxl" /\ rxl /\ UNCHANGED <<vars, taskVars>>

(* The fairness of UdpReceiver, Ptask and RxListener: of the thread that     *)
(* calls back, of who stops it, of the callers, each of which gets a mutex   *)
(* that is given up again and again, and of the dedicated threads.           *)
WorkersFairness ==
  /\ SF_<<vars, taskVars, rxlVars>>(
       Either(Handling, P!Worker \/ \E c \in waiting : P!Expire(c), R!Gen))
  /\ SF_<<vars, taskVars, rxlVars>>(
       Either(StopJoined \/ StopPolled,
              P!StopLocked \/ P!StopContext \/ P!StopJoin \/ P!StopDone, FALSE))
  /\ \A c \in Client : SF_<<vars, taskVars, rxlVars>>(
       Either(Caller(c), P!Add(c) \/ P!RemoveTask(c), R!Caller(c)))
  /\ \A r \in (RxNio \ FdNio) \X Client : WF_rxlVars(at = "rxl" /\ R!SpecThread(r))

WorkersSpec ==
  WorkersInit /\ [][WorkersNext]_<<at, vars, taskVars, rxlVars>> /\ WorkersFairness

(* A thread calls back on behalf of an owner that is still there: a client   *)
(* that uses the NIO, and devices whose tasks were not removed.  Once        *)
(* netio_rxl_remove, receivers::remove or ptask_remove has returned, the     *)
(* owner may free what its callback uses (net_io_udp.cpp, arm's handler;     *)
(* ptask.cpp, sweep; net_io.c, netio_rxl_remove_internal).                   *)
CallbacksOwned == HandlerOwned /\ P!SweepOwned /\ R!HandlerOwned /\ R!ListenerAlive

(* The work that must go on is queued, waited for or in progress exactly     *)
(* once: the receive operation of an active listener, which neither goes     *)
(* deaf nor hands one buffer to two handlers, and the sweep of the current   *)
(* cycle, which a restart neither loses nor doubles (net_io_udp.cpp, arm;    *)
(* ptask.cpp, start, sweep and stop).                                        *)
OnePending == OneReceive /\ P!OneSweep

(* A task is called as long as the scheduler runs (ptask.cpp, sweep).        *)
TasksSwept == P!TasksSwept

(* Client c waits for an addition or a removal.                              *)
Calling(c) == \/ at = "udp" /\ pc[c] # "idle"
              \/ at = "ptask" /\ t_call[c] # "idle"
              \/ at = "rxl" /\ r_pc[c] # "idle"
(* Calls return: additions and removals of clients and devices, which need   *)
(* a mutex that is held over callbacks or wait until the general thread has  *)
(* emptied a list they share, and the stop of the scheduler, which waits for *)
(* its worker (net_io_udp.cpp, add and remove; ptask.cpp, add, remove and    *)
(* stop; net_io.c, netio_rxl_add and netio_rxl_remove).                      *)
WorkersAnswer ==
  /\ \A c \in Client : Calling(c) ~> ~Calling(c)
  /\ t_stopper # "idle" ~> t_stopper = "idle"

-----------------------------------------------------------------------------
(* The instance checked: a switch and a device take turns with one UDP NIO,  *)
(* own a task each, and use a NIO with and one without a file descriptor.    *)
=============================================================================
