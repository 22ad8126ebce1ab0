----------------------------- MODULE RxListener -----------------------------
(***************************************************************************)
(* The receive listeners of network_io (net_io.c): a general thread that   *)
(* selects on the NIOs that have a file descriptor, one dedicated thread   *)
(* per other NIO (FIFO, null), and the clients that add and remove NIOs.   *)
(* A client has a lock of its own, which its handler takes on a listener   *)
(* thread.  Three kinds of client differ in how they use it:               *)
(*   - the Ethernet switch keeps its lock while it adds a NIO, not while   *)
(*     it removes one; its handler tries the lock and drops the packet;    *)
(*   - the bridge keeps it in both, and its handler waits for it (as do    *)
(*     the Frame Relay and ATM switches, which keep it in additions);      *)
(*   - a network device binds and unbinds without its lock, and its        *)
(*     handler waits for it.                                               *)
(*                                                                         *)
(* A client's caller hands its request to the general thread and waits     *)
(* until the list it put it in is empty.  netio_rxq_mutex (rxq) is held by *)
(* the general thread while it empties the lists; a caller holds it only   *)
(* between two waits, which is one step here.                              *)
(***************************************************************************)
EXTENDS Naturals, Sequences

CONSTANTS
  Nio,       \* NIO descriptors (other than UDP)
  FdNio,     \* the ones with a file descriptor
  Client,    \* the objects whose handlers receive packets
  Switch,    \* the Ethernet switches among them
  Bridge,    \* the bridges among them
  Sharing,   \* a client may add a NIO that another client listens to
  NoNio

RxAssumption == /\ FdNio \subseteq Nio
                /\ Switch \subseteq Client /\ Bridge \subseteq Client
                /\ Switch \cap Bridge = {}
                /\ Sharing \in BOOLEAN /\ NoNio \notin Nio

Rxl == Nio \X Client   \* a listener: the NIO and the client that added it

VARIABLES
  call,      \* call[c]: the request of c's caller, <<"none", NoNio>> if none
  pc,        \* pc[c]: where c's caller is
  used,      \* used[c]: NIOs c added and has not finished removing
  lock,      \* lock[c]: who holds the lock of c
  add_list,  \* netio_rxl_add_list, newest first
  remove_head, rxl_next,  \* netio_rxl_remove_list, linked through the NIOs
  listed,    \* NIOs in netio_rxl_list
  owner,     \* owner[n]: the client whose handler the listener of n calls
  refs,      \* ref_count of the listener of n
  running,   \* rxl->running
  freed,     \* listeners whose structure was freed
  spec,      \* where the dedicated thread of a listener is
  gen,       \* where the general thread is
  ready,     \* NIOs the last select reported
  current    \* the NIO the general thread works on

callVars == <<call, pc, used>>
listVars == <<add_list, remove_head, rxl_next, listed, owner, refs>>
specVars == <<running, freed, spec>>
genVars  == <<gen, ready, current>>
vars == <<callVars, lock, listVars, specVars, genVars>>

TypeOK ==
  /\ call \in [Client -> {"none", "add", "remove"} \X (Nio \cup {NoNio})]
  /\ pc \in [Client -> {"idle", "lock", "unlock", "push", "wait", "done"}]
  /\ used \in [Client -> SUBSET Nio]
  /\ lock \in [Client -> {"free", "caller", "gen", "spec"}]
  /\ add_list \in Seq(Rxl)
  /\ remove_head \in Nio \cup {NoNio}
  /\ rxl_next \in [Nio -> Nio \cup {NoNio}]
  /\ listed \in SUBSET Nio
  /\ owner \in [Nio -> Client] /\ refs \in [Nio -> Nat]
  /\ running \in [Rxl -> BOOLEAN] /\ freed \in SUBSET Rxl
  /\ spec \in [Rxl -> {"none", "check", "handler", "locked"}]
  /\ gen \in {"drain", "join", "select", "dispatch", "handler", "locked"}
  /\ ready \in SUBSET Nio /\ current \in Nio \cup {NoNio}

Init ==
  /\ call = [c \in Client |-> <<"none", NoNio>>]
  /\ pc = [c \in Client |-> "idle"]
  /\ used = [c \in Client |-> {}]
  /\ lock = [c \in Client |-> "free"]
  /\ add_list = <<>> /\ remove_head = NoNio
  /\ rxl_next = [n \in Nio |-> NoNio]
  /\ listed = {}
  /\ owner \in [Nio -> {CHOOSE c \in Client : TRUE}]
  /\ refs = [n \in Nio |-> 0]
  /\ running = [r \in Rxl |-> FALSE] /\ freed = {}
  /\ spec = [r \in Rxl |-> "none"]
  /\ gen = "dispatch" /\ ready = {} /\ current = NoNio

\* The general thread does not hold netio_rxq_mutex.
RxqFree == gen \notin {"drain", "join"}

-----------------------------------------------------------------------------
\* The callers.

At(c, a, b) == pc[c] = a /\ pc' = [pc EXCEPT ![c] = b]

\* Where the caller of a client begins: a device takes no lock.
Entry(c) == IF c \in Switch \cup Bridge THEN "lock" ELSE "push"

\* ethsw_add_netio, netio_bridge_add_netio, dev_am79c971_set_nio and their
\* like; nothing stops two clients from adding the same NIO.  A device has one
\* NIO at most.  Here a client adds a NIO once and not again before its last
\* listener's thread ended.
Add(c, n) ==
  /\ At(c, "idle", Entry(c))
  /\ n \notin used[c]
  /\ c \in Switch \cup Bridge \/ used[c] = {}
  /\ Sharing \/ \A d \in Client : n \notin used[d]
  /\ spec[<<n, c>>] = "none"
  /\ call' = [call EXCEPT ![c] = <<"add", n>>]
  /\ used' = [used EXCEPT ![c] = @ \cup {n}]
  /\ UNCHANGED <<lock, listVars, specVars, genVars>>

Remove(c, n) ==
  /\ At(c, "idle", Entry(c))
  /\ n \in used[c]
  /\ call' = [call EXCEPT ![c] = <<"remove", n>>]
  /\ UNCHANGED <<used, lock, listVars, specVars, genVars>>

\* The caller takes the client's lock and changes the client's tables.
CallerLocks(c) ==
  /\ lock[c] = "free"
  /\ At(c, "lock", IF call[c][1] = "remove" /\ c \in Switch
                   THEN "unlock" ELSE "push")
  /\ lock' = [lock EXCEPT ![c] = "caller"]
  /\ UNCHANGED <<call, used, listVars, specVars, genVars>>

\* ethsw_remove_netio unlocks before it removes the listener.
CallerUnlocks(c) ==
  /\ At(c, "unlock", "push")
  /\ lock' = [lock EXCEPT ![c] = "free"]
  /\ UNCHANGED <<call, used, listVars, specVars, genVars>>

\* netio_rxl_add: a dedicated thread starts at once.
RxlAdd(c) ==
  /\ call[c][1] = "add" /\ RxqFree
  /\ At(c, "push", "wait")
  /\ LET r == <<call[c][2], c>>
     IN /\ add_list' = <<r>> \o add_list
        /\ running' = [running EXCEPT ![r] = TRUE]
        /\ freed' = freed \ {r}
        /\ spec' = [spec EXCEPT ![r] =
                      IF call[c][2] \in FdNio THEN "none" ELSE "check"]
  /\ UNCHANGED <<call, used, lock, remove_head, rxl_next, listed, owner, refs,
                 genVars>>

\* The dedicated thread cannot be created; the switch keeps the NIO.
RxlAddFails(c) ==
  /\ call[c][1] = "add" /\ RxqFree
  /\ call[c][2] \notin FdNio
  /\ At(c, "push", "done")
  /\ UNCHANGED <<call, used, lock, listVars, specVars, genVars>>

\* netio_rxl_remove
RxlRemove(c) ==
  /\ call[c][1] = "remove" /\ RxqFree
  /\ At(c, "push", "wait")
  /\ rxl_next' = [rxl_next EXCEPT ![call[c][2]] = remove_head]
  /\ remove_head' = call[c][2]
  /\ UNCHANGED <<call, used, lock, add_list, listed, owner, refs, specVars,
                 genVars>>

\* The general thread has signalled and the list is empty.
RxlDone(c) ==
  /\ RxqFree
  /\ IF call[c][1] = "add" THEN add_list = <<>> ELSE remove_head = NoNio
  /\ At(c, "wait", "done")
  /\ UNCHANGED <<call, used, lock, listVars, specVars, genVars>>

Return(c) ==
  /\ At(c, "done", "idle")
  /\ used' = IF call[c][1] = "remove"
             THEN [used EXCEPT ![c] = @ \ {call[c][2]}] ELSE used
  /\ call' = [call EXCEPT ![c] = <<"none", NoNio>>]
  /\ lock' = IF lock[c] = "caller" THEN [lock EXCEPT ![c] = "free"] ELSE lock
  /\ UNCHANGED <<listVars, specVars, genVars>>

-----------------------------------------------------------------------------
\* The general thread, netio_rxl_gen_thread.

GenAt(a, b) == gen = a /\ gen' = b

\* The loop begins again, with netio_rxq_mutex.
GenTop ==
  /\ GenAt("dispatch", "drain") /\ ready = {}
  /\ UNCHANGED <<callVars, lock, listVars, specVars, ready, current>>

\* netio_rxl_add_internal: a second listener of the same NIO is only counted.
DrainAdd ==
  /\ GenAt("drain", "drain") /\ add_list # <<>>
  /\ LET r == Head(add_list)
         n == r[1]
     IN \/ /\ n \in listed
           /\ refs' = [refs EXCEPT ![n] = @ + 1]
           /\ freed' = freed \cup {r}
           /\ UNCHANGED <<listed, owner>>
        \/ /\ n \notin listed
           /\ refs' = [refs EXCEPT ![n] = 1]
           /\ listed' = listed \cup {n}
           /\ owner' = [owner EXCEPT ![n] = r[2]]
           /\ UNCHANGED freed
  /\ add_list' = Tail(add_list)
  /\ UNCHANGED <<callVars, lock, remove_head, rxl_next, running, spec, ready,
                 current>>

\* Mutant: the dedicated thread is told to end and not waited for.
DrainRemoveUnjoined ==
  /\ GenAt("drain", "drain") /\ add_list = <<>> /\ remove_head # NoNio
  /\ LET n == remove_head
         r == <<n, owner[n]>>
     IN /\ remove_head' = rxl_next[n]
        /\ refs' = [refs EXCEPT ![n] = 0]
        /\ listed' = listed \ {n}
        /\ running' = [running EXCEPT ![r] = FALSE]
        /\ freed' = freed \cup {r}
  /\ UNCHANGED <<callVars, lock, add_list, rxl_next, owner, spec, ready,
                 current>>

\* netio_rxl_remove_internal
DrainRemove ==
  /\ gen = "drain" /\ add_list = <<>> /\ remove_head # NoNio
  /\ remove_head' = rxl_next[remove_head]
  /\ LET n == remove_head
         r == <<n, owner[n]>>
     IN \/ /\ n \notin listed
           /\ UNCHANGED <<refs, listed, specVars, gen, current>>
        \/ /\ n \in listed /\ refs[n] > 1
           /\ refs' = [refs EXCEPT ![n] = @ - 1]
           /\ UNCHANGED <<listed, specVars, gen, current>>
        \/ /\ n \in listed /\ refs[n] = 1
           /\ refs' = [refs EXCEPT ![n] = 0]
           /\ listed' = listed \ {n}
           /\ \/ /\ n \in FdNio
                 /\ freed' = freed \cup {r}
                 /\ UNCHANGED <<running, spec, gen, current>>
              \/ /\ n \notin FdNio
                 /\ running' = [running EXCEPT ![r] = FALSE]
                 /\ gen' = "join" /\ current' = n
                 /\ UNCHANGED <<freed, spec>>
  /\ UNCHANGED <<callVars, lock, add_list, rxl_next, owner, ready>>

\* pthread_join of the dedicated thread
GenJoin ==
  /\ GenAt("join", "drain")
  /\ spec[<<current, owner[current]>>] = "none"
  /\ freed' = freed \cup {<<current, owner[current]>>}
  /\ current' = NoNio
  /\ UNCHANGED <<callVars, lock, listVars, running, spec, ready>>

DrainDone ==
  /\ GenAt("drain", "select") /\ add_list = <<>> /\ remove_head = NoNio
  /\ UNCHANGED <<callVars, lock, listVars, specVars, ready, current>>

GenSelect ==
  /\ GenAt("select", "dispatch")
  /\ ready' \in SUBSET (listed \cap FdNio)
  /\ UNCHANGED <<callVars, lock, listVars, specVars, current>>

\* netio_recv of a reported NIO; without a packet there is nothing to do.
GenDispatch ==
  \/ /\ GenAt("dispatch", "handler")
     /\ current' \in ready /\ ready' = ready \ {current'}
     /\ UNCHANGED <<callVars, lock, listVars, specVars>>
  \/ /\ gen = "dispatch"
     /\ \E n \in ready : ready' = ready \ {n}
     /\ UNCHANGED <<callVars, lock, listVars, specVars, gen, current>>

\* The handler: it waits for the client's lock or drops the packet.
GenHandler ==
  LET c == owner[current]
  IN /\ \/ /\ GenAt("handler", "locked")
           /\ lock[c] = "free" /\ lock' = [lock EXCEPT ![c] = "gen"]
           /\ UNCHANGED current
        \/ /\ GenAt("handler", "dispatch")
           /\ lock[c] # "free" /\ c \in Switch /\ UNCHANGED lock
           /\ current' = NoNio
     /\ UNCHANGED <<callVars, listVars, specVars, ready>>

GenUnlock ==
  /\ GenAt("locked", "dispatch")
  /\ lock' = [lock EXCEPT ![owner[current]] = "free"]
  /\ current' = NoNio
  /\ UNCHANGED <<callVars, listVars, specVars, ready>>

-----------------------------------------------------------------------------
\* The dedicated threads, netio_rxl_spec_thread.

SpecAt(r, a, b) == spec[r] = a /\ spec' = [spec EXCEPT ![r] = b]

\* The flag is read, and netio_recv ends with a packet; without one after
\* 50 ms the flag is read again.  A flag that changes while netio_recv waits
\* is one that changes before the handler begins.
SpecCheck(r) ==
  /\ SpecAt(r, "check", IF running[r] THEN "handler" ELSE "none")
  /\ UNCHANGED <<callVars, lock, listVars, running, freed, genVars>>

SpecHandler(r) ==
  /\ \/ /\ SpecAt(r, "handler", "locked")
        /\ lock[r[2]] = "free" /\ lock' = [lock EXCEPT ![r[2]] = "spec"]
     \/ /\ SpecAt(r, "handler", "check")
        /\ lock[r[2]] # "free" /\ r[2] \in Switch /\ UNCHANGED lock
  /\ UNCHANGED <<callVars, listVars, running, freed, genVars>>

SpecUnlock(r) ==
  /\ SpecAt(r, "locked", "check")
  /\ lock' = [lock EXCEPT ![r[2]] = "free"]
  /\ UNCHANGED <<callVars, listVars, running, freed, genVars>>

-----------------------------------------------------------------------------
Caller(c) == \/ CallerLocks(c) \/ CallerUnlocks(c) \/ RxlAdd(c) \/ RxlAddFails(c)
             \/ RxlRemove(c) \/ RxlDone(c) \/ Return(c)
Gen == \/ GenTop \/ DrainAdd \/ DrainRemove \/ GenJoin \/ DrainDone
       \/ GenSelect \/ GenDispatch \/ GenHandler \/ GenUnlock
SpecThread(r) == SpecCheck(r) \/ SpecHandler(r) \/ SpecUnlock(r)

Next == \/ \E c \in Client : Caller(c)
        \/ \E c \in Client, n \in Nio : Add(c, n) \/ Remove(c, n)
        \/ Gen
        \/ \E r \in Rxl : SpecThread(r)

Spec == Init /\ [][Next]_vars

\* Every thread is scheduled, and a mutex that is free again and again is
\* obtained by each caller that waits for it, and by the general thread.  A
\* dedicated thread may be starved of its client's lock by the others.
Fairness ==
  /\ \A c \in Client : SF_vars(Caller(c))
  /\ SF_vars(Gen)
  /\ \A r \in (Nio \ FdNio) \X Client : WF_vars(SpecThread(r))

FairSpec == Spec /\ Fairness

-----------------------------------------------------------------------------
\* Listeners whose handler is being called.
Handling == {r \in Rxl : spec[r] \in {"handler", "locked"}}
              \cup {<<n, owner[n]>> : n \in
                      IF gen \in {"handler", "locked"} THEN {current} ELSE {}}

\* A handler is called only for a client that uses the NIO: once
\* netio_rxl_remove has returned, the client and the NIO may be freed.
HandlerOwned == \A r \in Handling : r[1] \in used[r[2]]

\* No thread works with a listener structure that was freed.
ListenerAlive == \A r \in freed : spec[r] = "none" /\ r \notin Handling
=============================================================================
