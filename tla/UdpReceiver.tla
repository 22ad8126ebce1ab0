---------------------------- MODULE UdpReceiver ----------------------------
(***************************************************************************)
(* The receivers of UDP NIOs (net_io_udp.cpp): one worker thread runs an   *)
(* asio context with a receive operation for every listener.  It holds a   *)
(* mutex, which is recursive, while it calls a listener's handler; adding, *)
(* removing and stopping take the same mutex.                              *)
(*                                                                         *)
(* The clients are those of RxListener: a switch keeps its lock while it   *)
(* adds a NIO and its handler drops the packet when it does not get the    *)
(* lock; a bridge keeps it in additions and removals, and its handler      *)
(* waits; a device keeps no lock in either, and its handler waits.         *)
(***************************************************************************)
EXTENDS Naturals, FiniteSets, Sequences

Seqs == INSTANCE SequencesExt

CONSTANTS
  Nio, Client,
  Switch, Bridge,   \* the clients that are switches, and bridges
  MaxUse,           \* how often a client may add the same NIO
  MaxListener,      \* bound: listeners there may be, stale ones included
  MaxBurst          \* packets a handler takes before it lets others run (16)

ASSUME UdpAssumption == /\ Switch \subseteq Client /\ Bridge \subseteq Client
                        /\ Switch \cap Bridge = {}
                        /\ MaxUse \in Nat \ {0} /\ MaxListener \in Nat \ {0}
                        /\ MaxBurst \in Nat \ {0}

Listener == 1..MaxListener

NoCall == [op |-> "add", nio |-> CHOOSE n \in Nio : TRUE]

VARIABLES
  call, pc,     \* the request of a client's caller and where it is
  uses,         \* uses[c][n]: additions of n that c has not undone
  lock,         \* lock[c]: who holds the lock of c
  listeners,    \* listeners[n]: the listener of n in the map, 0 for none
  endpoint, owner, references,  \* of a listener
  active,       \* listeners that were not cancelled
  receive,      \* the listeners whose receive operation waits, and the ones
                \* for which it is done, in the order of the context's queue
  worker, current, burst,       \* what the worker thread does
  started, stopped, stopper     \* the scheduler, the context and stop()

callVars == <<call, pc, uses>>
listVars == <<listeners, endpoint, owner, references, active>>
workVars == <<worker, current, burst>>
ctlVars  == <<started, stopped, stopper>>
vars == <<callVars, lock, listVars, receive, workVars, ctlVars>>

TypeOK ==
  /\ call \in [Client -> [op : {"add", "remove"}, nio : Nio]]
  /\ pc \in [Client -> {"idle", "lock", "unlock", "mutex", "done"}]
  /\ uses \in [Client -> [Nio -> 0..MaxUse]]
  /\ lock \in [Client -> {"free", "caller", "worker"}]
  /\ listeners \in [Nio -> 0..MaxListener] 
  /\ endpoint \in [Listener -> Nio] /\ owner \in [Listener -> Client]
  /\ references \in [Listener -> 0..MaxUse * Cardinality(Client)]
  /\ active \subseteq Listener
  /\ receive \in [waiting : SUBSET Listener, ready : Seq(Listener)]
  /\ worker \in {"none", "idle", "taken", "dispatch", "locked", "next", "ended"}
  /\ current \in 0..MaxListener /\ burst \in 0..MaxBurst
  /\ started \in BOOLEAN /\ stopped \in BOOLEAN
  /\ stopper \in {"idle", "join", "poll"}

Init ==
  /\ call = [c \in Client |-> NoCall]
  /\ pc = [c \in Client |-> "idle"]
  /\ uses = [c \in Client |-> [n \in Nio |-> 0]]
  /\ lock = [c \in Client |-> "free"]
  /\ listeners = [n \in Nio |-> 0] 
  /\ endpoint \in [Listener -> {CHOOSE n \in Nio : TRUE}]
  /\ owner \in [Listener -> {CHOOSE c \in Client : TRUE}]
  /\ references = [l \in Listener |-> 0] /\ active = {}
  /\ receive = [waiting |-> {}, ready |-> <<>>]
  /\ worker = "none" /\ current = 0 /\ burst = 0
  /\ started = FALSE /\ stopped = FALSE /\ stopper = "idle"

(* Only the worker, in a handler, and stop(), in its poll, keep the mutex    *)
(* for more than one step.                                                   *)
MutexFree == worker \notin {"dispatch", "locked", "next"} /\ stopper # "poll"

-----------------------------------------------------------------------------
(* The callers.                                                             *)

At(c, a, b) == pc[c] = a /\ pc' = [pc EXCEPT ![c] = b]

Entry(c) == IF c \in Switch \cup Bridge THEN "lock" ELSE "mutex"

(* A caller asks for an addition or a removal; no two clients share a NIO.  *)
Begin(c, op, n) ==
  /\ At(c, "idle", Entry(c))
  /\ \/ /\ op = "add" /\ uses[c][n] < MaxUse
        /\ \A d \in Client \ {c} : uses[d][n] = 0
        /\ uses' = [uses EXCEPT ![c][n] = @ + 1]
     \/ op = "remove" /\ uses[c][n] > 0 /\ UNCHANGED uses
  /\ call' = [call EXCEPT ![c] = [op |-> op, nio |-> n]]
  /\ UNCHANGED <<lock, listVars, receive, workVars, ctlVars>>

CallerLocks(c) ==
  /\ lock[c] = "free"
  /\ At(c, "lock", IF call[c].op = "remove" /\ c \in Switch THEN "unlock" ELSE "mutex")
  /\ lock' = [lock EXCEPT ![c] = "caller"]
  /\ UNCHANGED <<call, uses, listVars, receive, workVars, ctlVars>>

CallerUnlocks(c) ==
  /\ At(c, "unlock", "mutex")
  /\ lock' = [lock EXCEPT ![c] = "free"]
  /\ UNCHANGED <<call, uses, listVars, receive, workVars, ctlVars>>

(* Listeners with a receive operation.                                      *)
Receiving == receive.waiting \cup Seqs!ToSet(receive.ready)

(* Listeners to which neither the map nor an operation points.              *)
Unused == {l \in Listener : /\ l \notin active /\ l # current /\ l \notin Receiving
                            /\ \A n \in Nio : listeners[n] # l}

(* receivers::add.  The clients ignore a failure.                           *)
Add(c) ==
  /\ call[c].op = "add" /\ MutexFree
  /\ At(c, "mutex", "done")
  /\ LET n == call[c].nio
         l == listeners[n]
     IN \/ /\ started /\ l # 0 /\ l \in active
           /\ references' = [references EXCEPT ![l] = @ + 1]
           /\ UNCHANGED <<listeners, endpoint, owner, active, receive>>
        \/ /\ started /\ l = 0 /\ Unused # {}
           /\ LET new == CHOOSE k \in Unused : \A j \in Unused : k <= j
              IN /\ listeners' = [listeners EXCEPT ![n] = new]
                 /\ endpoint' = [endpoint EXCEPT ![new] = n]
                 /\ owner' = [owner EXCEPT ![new] = c]
                 /\ references' = [references EXCEPT ![new] = 1]
                 /\ active' = active \cup {new}
                 /\ receive' = [receive EXCEPT !.waiting = @ \cup {new}]
        \/ /\ ~started \/ l \notin active
           /\ UNCHANGED <<listVars, receive>>
  /\ UNCHANGED <<call, uses, lock, workVars, ctlVars>>

(* cancel: the socket is closed.  A receive that was waiting ends with an   *)
(* error, whose handler finds the listener inactive.                        *)
Cancelled(S) == {[waiting |-> receive.waiting \ S, ready |-> receive.ready \o s] :
                   s \in Seqs!SetToSeqs(S \cap receive.waiting)}

(* receivers::remove.                                                       *)
Remove(c) ==
  /\ call[c].op = "remove" /\ MutexFree
  /\ At(c, "mutex", "done")
  /\ LET n == call[c].nio
         l == listeners[n]
     IN \/ l = 0 /\ UNCHANGED <<listeners, references, active, receive>>
        \/ /\ l # 0 /\ references[l] > 1
           /\ references' = [references EXCEPT ![l] = @ - 1]
           /\ UNCHANGED <<listeners, active, receive>>
        \/ /\ l # 0 /\ references[l] = 1
           /\ references' = [references EXCEPT ![l] = 0]
           /\ listeners' = [listeners EXCEPT ![n] = 0]
           /\ active' = active \ {l} /\ receive' \in Cancelled({l})
  /\ UNCHANGED <<call, uses, lock, endpoint, owner, workVars, ctlVars>>

Return(c) ==
  /\ At(c, "done", "idle")
  /\ uses' = IF call[c].op = "remove"
             THEN [uses EXCEPT ![c][call[c].nio] = @ - 1] ELSE uses
  /\ lock' = IF lock[c] = "caller" THEN [lock EXCEPT ![c] = "free"] ELSE lock
  /\ call' = [call EXCEPT ![c] = NoCall]
  /\ UNCHANGED <<listVars, receive, workVars, ctlVars>>

-----------------------------------------------------------------------------
(* The worker thread, and stop() while it polls.                            *)

Runs == worker = "idle" /\ ~stopped

(* A packet or an error arrives.                                            *)
Arrive(l) ==
  /\ Runs /\ l \in receive.waiting
  /\ receive' = [waiting |-> receive.waiting \ {l}, ready |-> Append(receive.ready, l)]
  /\ UNCHANGED <<callVars, lock, listVars, workVars, ctlVars>>

Take ==
  /\ Runs /\ receive.ready # <<>>
  /\ worker' = "taken" /\ current' = Head(receive.ready)
  /\ receive' = [receive EXCEPT !.ready = Tail(@)]
  /\ UNCHANGED <<callVars, lock, listVars, burst, ctlVars>>

(* Under the mutex: an inactive listener is left alone; after an error the  *)
(* handler is not called; a filter may drop the packet.                     *)
Dispatch ==
  /\ worker = "taken" /\ (MutexFree \/ stopper = "poll")
  /\ \/ current \notin active /\ worker' = "idle" /\ current' = 0
     \/ current \in active /\ worker' \in {"dispatch", "next"} /\ UNCHANGED current
  /\ burst' = 0
  /\ UNCHANGED <<callVars, lock, listVars, receive, ctlVars>>

(* The handler waits for its client's lock, or drops the packet.            *)
HandlerLocks ==
  /\ worker = "dispatch"
  /\ LET c == owner[current]
     IN \/ lock[c] = "free" /\ worker' = "locked" /\ lock' = [lock EXCEPT ![c] = "worker"]
        \/ lock[c] # "free" /\ c \in Switch /\ worker' = "next" /\ UNCHANGED lock
  /\ UNCHANGED <<callVars, listVars, receive, current, burst, ctlVars>>

HandlerEnds ==
  /\ worker = "locked"
  /\ worker' = "next" /\ lock' = [lock EXCEPT ![owner[current]] = "free"]
  /\ UNCHANGED <<callVars, listVars, receive, current, burst, ctlVars>>

(* Another packet is there, and the burst is not used up.                   *)
NextPacket ==
  /\ worker = "next" /\ current \in active /\ burst < MaxBurst - 1
  /\ worker' = "dispatch" /\ burst' = burst + 1
  /\ UNCHANGED <<callVars, lock, listVars, receive, current, ctlVars>>

(* Mutant of Rearm: no receive operation follows.                           *)
RearmForgotten ==
  /\ worker = "next"
  /\ worker' = "idle" /\ current' = 0 /\ burst' = 0
  /\ UNCHANGED <<callVars, lock, listVars, receive, ctlVars>>

(* The next receive operation begins, or cannot: the listener is cancelled, *)
(* and stays in the map until it is removed.                                *)
Rearm ==
  /\ worker = "next"
  /\ \/ receive' = [receive EXCEPT !.waiting = @ \cup {current}] /\ UNCHANGED active
     \/ active' = active \ {current} /\ UNCHANGED receive
  /\ worker' = "idle" /\ current' = 0 /\ burst' = 0
  /\ UNCHANGED <<callVars, lock, listeners, endpoint, owner, references, ctlVars>>

WorkerEnds ==
  /\ worker = "idle" /\ stopped
  /\ worker' = "ended"
  /\ UNCHANGED <<callVars, lock, listVars, receive, current, burst, ctlVars>>

-----------------------------------------------------------------------------
(* Start and stop.                                                          *)

Start ==
  /\ ~started /\ stopper = "idle"
  /\ started' = TRUE /\ stopped' = FALSE /\ worker' = "idle"
  /\ UNCHANGED <<callVars, lock, listVars, receive, current, burst, stopper>>

Stop ==
  /\ started /\ stopper = "idle" /\ MutexFree
  /\ active' = active \ {listeners[n] : n \in Nio}
  /\ receive' \in Cancelled({listeners[n] : n \in Nio})
  /\ listeners' = [n \in Nio |-> 0]
  /\ stopped' = TRUE /\ stopper' = "join"
  /\ UNCHANGED <<callVars, lock, endpoint, owner, references, workVars, started>>

(* After the join the stopping thread runs what is left in the context.     *)
StopJoined ==
  /\ stopper = "join" /\ worker = "ended" /\ MutexFree
  /\ stopped' = FALSE /\ worker' = "idle" /\ stopper' = "poll"
  /\ UNCHANGED <<callVars, lock, listVars, receive, current, burst, started>>

StopPolled ==
  /\ stopper = "poll" /\ worker = "idle"
  /\ receive.ready = <<>>
  /\ worker' = "none" /\ started' = FALSE /\ stopper' = "idle"
  /\ UNCHANGED <<callVars, lock, listVars, receive, current, burst, stopped>>

Caller(c) ==
  CallerLocks(c) \/ CallerUnlocks(c) \/ Add(c) \/ Remove(c) \/ Return(c)

Handling == Take \/ Dispatch \/ HandlerLocks \/ HandlerEnds \/ NextPacket \/ Rearm \/ WorkerEnds

Next ==
  \/ \E c \in Client : \/ \E op \in {"add", "remove"}, n \in Nio : Begin(c, op, n)
                       \/ Caller(c)
  \/ \E l \in Listener : Arrive(l)
  \/ Handling
  \/ Start \/ Stop \/ StopJoined \/ StopPolled

Spec == Init /\ [][Next]_vars

(* Threads run and handlers return; a lock or a mutex that is given up again *)
(* and again is got by whoever waits for it; a poll runs out of packets.     *)
(* The steps of a thread exclude each other, so it is treated fairly as one. *)
FairSpec ==
  /\ Spec /\ SF_vars(Handling) /\ SF_vars(StopJoined \/ StopPolled)
  /\ \A c \in Client : SF_vars(Caller(c))

-----------------------------------------------------------------------------
(* A handler runs on behalf of a client that still uses the NIO: a client    *)
(* whose removal has returned may free what its handler uses                 *)
(* (net_io_udp.cpp, arm's handler and remove).                               *)
HandlerOwned ==
  worker \in {"dispatch", "locked"} => uses[owner[current]][endpoint[current]] > 0

(* An active listener has one receive operation, begun, ready or in its      *)
(* handler: it neither goes deaf nor hands one buffer to two handlers        *)
(* (net_io_udp.cpp, arm).                                                    *)
OneReceive ==
  \A l \in active :
    l \notin Receiving <=> current = l /\ worker \in {"taken", "dispatch", "locked", "next"}

(* Every addition and removal returns (net_io_udp.cpp, add and remove, with  *)
(* the mutex held over handlers).                                            *)
CallsReturn == \A c \in Client : pc[c] # "idle" ~> pc[c] = "idle"
=============================================================================
