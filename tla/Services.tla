------------------------------ MODULE Services ------------------------------
(***************************************************************************)
(* The services with a thread that runs an asio context for callers of     *)
(* other threads: the timers (Timer) and the virtual terminals (Console).  *)
(* They share nothing, so a behaviour here is of one of them; service says *)
(* of which, and the other one rests.                                      *)
(***************************************************************************)
EXTENDS Console

CONSTANTS
  TimerCaller,                         \* Client of Timer
  MaxId, MaxArm, MaxCycle, NoCaller    \* MaxId, MaxGen, MaxStart, NoClient

VARIABLES
  service,     \* "timer" or "console"
  t_started, generation, stopped, stopping, worker, task, t_active, queue,
  t_pending, entries, cancelled, cycles, next_id, call, removed, refused

timerVars == <<t_started, generation, stopped, stopping, worker, task, t_active,
               queue, t_pending, entries, cancelled, cycles, next_id, call,
               removed, refused>>

T == INSTANCE Timer WITH
       Client <- TimerCaller, MaxGen <- MaxArm, MaxStart <- MaxCycle,
       NoClient <- NoCaller,
       started <- t_started, active <- t_active, pending <- t_pending

ASSUME ServicesAssumption == ConsoleAssumption /\ T!TimerAssumption

ServicesInit == service \in {"timer", "console"} /\ Init /\ T!Init

ConsoleStep == service = "console" /\ Next /\ UNCHANGED <<service, timerVars>>
TimerStep   == service = "timer" /\ T!Next /\ UNCHANGED <<service, vars>>

ServicesNext == ConsoleStep \/ TimerStep

(* A step of the one that runs. *)
Either(console, timer) == \/ service = "console" /\ console /\ UNCHANGED timerVars
                          \/ service = "timer" /\ timer /\ UNCHANGED vars

(* The fairness of Console and of Timer.                                     *)
ServicesFairness ==
  /\ SF_vars(service = "console" /\ Thread)
  /\ SF_vars(service = "console" /\ Controller)
  /\ WF_<<vars, timerVars>>(Either(Held, T!Worker))
  /\ WF_timerVars(service = "timer" /\ T!StopJoined)
  /\ WF_timerVars(service = "timer" /\ stopped /\ T!WorkerEnds)
  /\ \A c \in TimerCaller : WF_timerVars(service = "timer" /\ T!Caller(c))

ServicesSpec ==
  ServicesInit /\ [][ServicesNext]_<<service, vars, timerVars>> /\ ServicesFairness

(* A callback runs for a timer whose owner has not been answered that it is  *)
(* removed, and the console thread handles an event for a terminal that is   *)
(* there and is the one the connection was made to, not another one at its   *)
(* address (timer.cpp, remove and arm; vtty_thread_main, vtty_io_active).    *)
CallbacksOwned == T!CallbackOwned /\ EventOwned

(* What leads to the next callback exists once: the wait of a registered     *)
(* timer, and the use of a connection's input buffer, which is overwritten   *)
(* by a second one and deaf without (timer.cpp, arm and on_wait;             *)
(* terminals::read, vtty_io_complete).                                       *)
OnePending == T!OneLiveWait /\ OneInput

(* No callback begins for a timer whose creator was told of a failure        *)
(* (timer.cpp, invoke and stop).                                             *)
RefusedSilent == T!RefusedSilent

(* Every call returns: of timer operations, whatever happens to the          *)
(* scheduler ("A failed worker must not leave a C caller waiting             *)
(* indefinitely", timer.cpp, invoke), of the controller of the terminals,    *)
(* and of the guest's writes, which wait with locks held; and a connection   *)
(* is greeted unless it or its terminal is closed.                           *)
ServicesAnswer ==
  /\ \A c \in TimerCaller :
       (call[c].pc # "idle" \/ ctl # Idle) ~> (call[c].pc = "idle" /\ ctl = Idle)
  /\ \A t \in Tty : todo[t] # {} ~> todo[t] = {}
  /\ \A c \in Client : (active[c] /\ ~ready[c]) ~> (ready[c] \/ ~active[c])

-----------------------------------------------------------------------------
(* The instance checked: a caller and two timers, armed up to MaxArm times   *)
(* in all, over two cycles of the scheduler; one address for terminals, used *)
(* twice, and two connections.                                               *)
=============================================================================
