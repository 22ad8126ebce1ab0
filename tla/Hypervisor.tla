------------------------------ MODULE Hypervisor ------------------------------
(***************************************************************************)
(* The hypervisor (stable/hypervisor.c): a server thread that accepts      *)
(* connections and frees the dead ones, and one thread per connection that *)
(* executes the commands of its client (HvCommands, HvVms) on the objects  *)
(* of the registry, which the threads share.                               *)
(*                                                                         *)
(* Only what the commands do to the life of objects is kept: the name and  *)
(* the reference count the registry has for an object, and the NIOs an     *)
(* object has acquired.  Every step is one call under the registry's mutex *)
(* or touches nothing shared.                                              *)
(***************************************************************************)
EXTENDS HvVms, Integers, FiniteSets

CONSTANTS
  Conn,         \* connections; each is accepted once
  Name,         \* names of objects
  MaxObj,       \* bound on the objects there are memory for
  NoConn,
  Scopes,       \* bounds of a behaviour: the modules whose commands are used,
                \* on which names, the clients that connect and whether
                \* they may leave or stop the server
  OtherPlatform,\* a platform whose commands nobody uses
  MaxUse,       \* bound on how often one object binds one NIO
  RenameAlone   \* is a renaming command executed alone?

Obj == 1 .. MaxObj
NoObj == 0

ASSUME HypervisorAssumption ==
  /\ MaxObj \in Nat
  /\ \A s \in Scopes : /\ s.modules \subseteq DOMAIN Modules
                       /\ s.names \subseteq Name
                       /\ s.clients \subseteq Conn
                       /\ s.leave \in BOOLEAN
  /\ RenameAlone \in BOOLEAN
  /\ MaxUse \in Nat /\ MaxUse >= 2
  /\ NoConn \notin Conn

VARIABLES
  scope,
  entry,      \* object |-> its type, name, platform and reference count
  uses,       \* object |-> how often it binds each NIO
  forgotten,  \* object |-> references handlers ended without giving up
  conn,       \* "new", "listed" in hypervisor_conn_list or "freed"
  active,     \* conn->active
  open,       \* the socket: neither shut down nor left by the client
  thread,     \* hypervisor_thread: at the "top" of its loop, in the "body" or "ended"
  prog,       \* what is left of the command being executed
  args,       \* its arguments
  ptr,        \* the objects it holds
  answer,     \* last lines sent for it: "none", "one", "many", or "never"
  renamer,    \* the connection that executes a renaming command
  running,    \* hypervisor_running
  server,     \* hypervisor_tcp_server: "accept", "closing" or "done"
  joining     \* the connection hypervisor_close_conn waits for

vars == <<scope, entry, uses, forgotten, conn, active, open, thread, prog, args,
          ptr, answer, renamer, running, server, joining>>
objects == <<entry, uses, forgotten>>
server_side == <<scope, conn, active, open, running, server, joining>>
connections == <<server_side, thread>>

ObjType == {"vm", "nio", "nio_bridge", "frsw", "atmsw", "atm_bridge", "ethsw", "store"}
Free == [type |-> "none", name |-> CHOOSE n \in Name : TRUE,
         platform |-> OtherPlatform, refs |-> 0]
Platforms == (scope.modules \cap {"c7200", "c3600", "c2691", "c3725", "c3745", "c2600", "c1700"})
               \cup {OtherPlatform}

Init ==
  /\ scope \in Scopes
  /\ entry = [o \in Obj |-> Free]
  /\ uses = [o \in Obj |-> [n \in Obj |-> 0]]
  /\ forgotten = [o \in Obj |-> 0]
  /\ conn = [c \in Conn |-> "new"]
  /\ active = [c \in Conn |-> FALSE]
  /\ open = [c \in Conn |-> FALSE]
  /\ thread = [c \in Conn |-> "none"]
  /\ prog = [c \in Conn |-> << >>]
  /\ args = [c \in Conn |-> << >>]
  /\ ptr = [c \in Conn |-> [n \in 1 .. 2 |-> NoObj]]
  /\ answer = [c \in Conn |-> "one"]
  /\ renamer = NoConn
  /\ running = TRUE
  /\ server = "accept"
  /\ joining = NoConn
-----------------------------------------------------------------------------
(* The object registered under a name. *)
Found(t, n) == IF \E o \in Obj : entry[o].type = t /\ entry[o].name = n
                 THEN CHOOSE o \in Obj : entry[o].type = t /\ entry[o].name = n
                 ELSE NoObj

Live(o) == entry[o].type # "none"

(* What the count of an object counts: the handlers that work on it, and what *)
(* the objects in S bind of it.                                               *)
Holders(o) == {h \in Conn \X (1 .. 2) : ptr[h[1]][h[2]] = o}
Bindings(S, o) == {b \in S \X (1 .. MaxUse) : b[2] <= uses[b[1]][o]}

(* Nothing points to o: its memory may be used again.  Which memory an        *)
(* object gets says nothing: the first of it.                                *)
Unused(o) == /\ ~Live(o)
             /\ \A c \in Conn, n \in 1 .. 2 : ptr[c][n] # o
             /\ \A s \in Obj : uses[s][o] = 0

Rest(c) == Tail(prog[c])
At(c, op) == prog[c] # << >> /\ Head(prog[c]).op = op
Continue(c, p) == prog' = [prog EXCEPT ![c] = p]
Hold(c, n, o) == ptr' = [ptr EXCEPT ![c][n] = o]
Count(o, d) == entry' = [entry EXCEPT ![o].refs = @ + d]

(* Of a step that only looks at the objects. *)
Looks(c) == UNCHANGED <<connections, objects, args, ptr, answer, renamer>>
-----------------------------------------------------------------------------
(* hypervisor_thread: the next line of the client.  Whether it is refused or  *)
(* executed, tokens are the arguments the command uses.                       *)
Renames(p) == \E i \in DOMAIN p : p[i].op = "rename"

Arity(p) ==
  LET step(s) == IF s.op \in {"bind", "unbind", "configure"}
                   THEN IF 3 \in s.nios THEN 3 ELSE 2
                   ELSE IF s.op = "rename" THEN 2
                   ELSE IF s.op \in {"find", "make", "find_vm"} THEN s.arg
                   ELSE IF s.op = "delete" THEN 1 ELSE 0
  IN  CHOOSE k \in 0 .. 3 : /\ \A i \in DOMAIN p : step(p[i]) <= k
                            /\ k = 0 \/ \E i \in DOMAIN p : step(p[i]) = k

Lines == {refused_line} \cup UNION {Modules[m] : m \in scope.modules}

(* Bound: once a reference is forgotten, no command that may forget one. *)
Forgets(p) == \E i \in DOMAIN p :
                \/ p[i].op = "configure"
                \/ p[i].op = "attempt" /\ \E j \in DOMAIN p[i].other : p[i].other[j].op = "forget"

Read(c, p, a) ==
  /\ thread[c] = "body" /\ prog[c] = << >> /\ open[c]
  /\ Forgets(p) => \A o \in Obj : forgotten[o] = 0
  /\ RenameAlone => /\ renamer = NoConn
                    /\ Renames(p) => \A d \in Conn : prog[d] = << >>
  /\ Continue(c, p)
  /\ args' = [args EXCEPT ![c] = a]
  /\ answer' = [answer EXCEPT ![c] = "none"]
  /\ renamer' = IF RenameAlone /\ Renames(p) THEN c ELSE renamer
  /\ UNCHANGED <<connections, objects, ptr>>

(* The command is over: what it holds it holds for good. *)
Over(c) == /\ renamer' = IF renamer = c /\ prog'[c] = << >> THEN NoConn ELSE renamer
           /\ args' = IF prog'[c] = << >> THEN [args EXCEPT ![c] = << >>] ELSE args
           /\ thread' = IF prog'[c] = << >> THEN [thread EXCEPT ![c] = "top"] ELSE thread
-----------------------------------------------------------------------------
FindObject(c) ==
  LET s == Head(prog[c])
      o == Found(s.type, args[c][s.arg]) IN
  /\ At(c, "find") \/ At(c, "find_vm")
  /\ IF o = NoObj
       THEN /\ Continue(c, s.other)
            /\ UNCHANGED <<entry, ptr>>
       ELSE /\ Count(o, 1)
            /\ Hold(c, s.arg, o)
            /\ IF s.op = "find_vm" /\ entry[o].platform # s.platform
                 THEN Continue(c, VmRefused)
                 ELSE Continue(c, Rest(c))
  /\ UNCHANGED <<connections, uses, forgotten, args, answer, renamer>>

NameExists(c) ==
  LET s == Head(prog[c]) IN
  /\ At(c, "exists")
  /\ Continue(c, IF Found(s.type, args[c][s.arg]) # NoObj THEN s.other ELSE Rest(c))
  /\ Looks(c)

AttemptStep(c) ==
  /\ At(c, "attempt")
  /\ \E p \in {Rest(c), Head(prog[c]).other} : Continue(c, p)
  /\ Looks(c)

(* A creation that fails, because the name is taken or for another reason,    *)
(* ends with a reply.                                                         *)
Register(c) ==
  LET s == Head(prog[c])
      nm == args[c][s.arg]
      free == {x \in Obj : Unused(x)} IN
  /\ At(c, "make")
  /\ \/ /\ Continue(c, <<Err>>)
        /\ UNCHANGED <<entry, ptr>>
     \/ /\ Found(s.type, nm) = NoObj
        /\ \E p \in IF s.type = "vm" THEN Platforms ELSE {OtherPlatform} :
             \E o \in {x \in free : \A y \in free : x <= y} :
               /\ entry' = [entry EXCEPT ![o] = [type |-> s.type, name |-> nm,
                                                 platform |-> p, refs |-> 1]]
               /\ Hold(c, s.arg, o)
        /\ Continue(c, Rest(c))
  /\ UNCHANGED <<connections, uses, forgotten, args, answer, renamer>>

(* registry_unref by name: of whatever has that name now. *)
Unreference(c) ==
  LET s == Head(prog[c])
      o == Found(s.type, args[c][s.name]) IN
  /\ At(c, "unref")
  /\ IF o = NoObj THEN UNCHANGED entry ELSE Count(o, -1)
  /\ Hold(c, s.arg, NoObj)
  /\ Continue(c, Rest(c))
  /\ UNCHANGED <<connections, uses, forgotten, args, answer, renamer>>

UnreferenceOwn(c) ==
  LET s == Head(prog[c]) IN
  /\ At(c, "unref_own")
  /\ Count(ptr[c][s.arg], -1)
  /\ Hold(c, s.arg, NoObj)
  /\ Continue(c, Rest(c))
  /\ Over(c)
  /\ UNCHANGED <<server_side, uses, forgotten, answer>>
-----------------------------------------------------------------------------
(* The NIOs the arguments name, as a bag. *)
Named(c, nios) == [o \in Obj |-> Cardinality({i \in nios : Found("nio", args[c][i]) = o})]

AllThere(c, nios) == \A i \in nios : Found("nio", args[c][i]) # NoObj

(* The count of an NIO follows what object s binds. *)
Rebind(s, bag) ==
  /\ uses' = [uses EXCEPT ![s] = bag]
  /\ entry' = [o \in Obj |-> [entry[o] EXCEPT !.refs = @ + bag[o] - uses[s][o]]]

BindNios(c) ==
  LET s == Head(prog[c])
      b == ptr[c][1]
      bag == Named(c, s.nios) IN
  /\ At(c, "bind")
  /\ \/ /\ AllThere(c, s.nios)
        /\ \A o \in Obj : uses[b][o] + bag[o] <= MaxUse
        /\ Rebind(b, [o \in Obj |-> uses[b][o] + bag[o]])
        /\ Continue(c, Rest(c))
     \/ /\ Continue(c, s.other)
        /\ UNCHANGED <<entry, uses>>
  /\ UNCHANGED <<connections, forgotten, args, ptr, answer, renamer>>

(* A circuit or a port may not be bound to the NIO that is. *)
UnbindNios(c) ==
  LET s == Head(prog[c])
      b == ptr[c][1]
      bag == Named(c, s.nios)
      bound == AllThere(c, s.nios) /\ \A o \in Obj : uses[b][o] >= bag[o] IN
  /\ At(c, "unbind")
  /\ \/ /\ bound
        /\ Rebind(b, [o \in Obj |-> uses[b][o] - bag[o]])
        /\ Continue(c, Rest(c))
     \/ /\ ~bound \/ entry[b].type \in {"frsw", "atmsw", "vm"}
        /\ Continue(c, s.other)
        /\ UNCHANGED <<entry, uses>>
  /\ UNCHANGED <<connections, forgotten, args, ptr, answer, renamer>>

UnbindEverything(c) ==
  /\ At(c, "unbind_all")
  /\ Rebind(ptr[c][1], [o \in Obj |-> 0])
  /\ Continue(c, Rest(c))
  /\ UNCHANGED <<connections, forgotten, args, ptr, answer, renamer>>

(* atm_bridge_configure: of two NIOs of which one is missing, the other one   *)
(* keeps the reference just taken.                                            *)
ConfigureBridge(c) ==
  LET s == Head(prog[c])
      b == ptr[c][1]
      bag == Named(c, s.nios)
      idle == \A o \in Obj : uses[b][o] = 0 IN
  /\ At(c, "configure")
  /\ IF idle /\ AllThere(c, s.nios)
       THEN /\ Rebind(b, bag)
            /\ Continue(c, Rest(c))
            /\ UNCHANGED forgotten
       ELSE /\ Continue(c, s.other)
            /\ IF idle
                 THEN /\ entry' = [o \in Obj |-> [entry[o] EXCEPT !.refs = @ + bag[o]]]
                      /\ forgotten' = [o \in Obj |-> forgotten[o] + bag[o]]
                 ELSE UNCHANGED <<entry, forgotten>>
            /\ UNCHANGED uses
  /\ UNCHANGED <<connections, args, ptr, answer, renamer>>
-----------------------------------------------------------------------------
RenameObject(c) ==
  LET s == Head(prog[c])
      o == Found(s.type, args[c][1]) IN
  /\ At(c, "rename")
  /\ IF o # NoObj /\ Found(s.type, args[c][2]) = NoObj
       THEN /\ entry' = [entry EXCEPT ![o].name = args[c][2]]
            /\ Continue(c, Rest(c))
       ELSE /\ Continue(c, s.other)
            /\ UNCHANGED entry
  /\ UNCHANGED <<connections, uses, forgotten, args, ptr, answer, renamer>>

(* The destructors of the objects in D give up the NIOs these bind. *)
BoundBy(D, n) == Cardinality(Bindings(D, n))

Destroy(D) ==
  /\ entry' = [o \in Obj |-> IF o \in D THEN Free
                             ELSE [entry[o] EXCEPT !.refs = @ - BoundBy(D, o)]]
  /\ uses' = [o \in Obj |-> IF o \in D THEN [n \in Obj |-> 0] ELSE uses[o]]
  /\ forgotten' = [o \in Obj |-> IF o \in D THEN 0 ELSE forgotten[o]]

\* Mutant: the reference count is not looked at.
DeletableReferenced(o) == o # NoObj /\ Live(o)

(* registry_delete_if_unused. *)
Deletable(o) == o # NoObj /\ Live(o) /\ entry[o].refs <= 0

(* The destructor of a VM refuses when its CPUs do not stop. *)
Refuses(t) == t = "vm"

DeleteObject(c) ==
  LET s == Head(prog[c])
      o == Found(s.type, args[c][1]) IN
  /\ At(c, "delete")
  /\ \/ /\ Deletable(o)
        /\ Destroy({o})
        /\ Continue(c, Rest(c))
     \/ /\ ~Deletable(o) \/ Refuses(s.type)
        /\ Continue(c, IF o = NoObj THEN s.absent ELSE s.inUse)
        /\ UNCHANGED objects
  /\ UNCHANGED <<connections, args, ptr, answer, renamer>>

(* registry_delete_type passes over the objects that are referenced. *)
DeleteAll(c) ==
  LET s == Head(prog[c])
      D == {o \in Obj : entry[o].type = s.type /\ entry[o].refs = 0} IN
  /\ At(c, "delete_type")
  /\ \E E \in SUBSET D : /\ Refuses(s.type) \/ E = D
                         /\ Destroy(E)
  /\ Continue(c, Rest(c))
  /\ UNCHANGED <<connections, args, ptr, answer, renamer>>

WalkType(c) ==
  /\ At(c, "walk")
  /\ Continue(c, Rest(c))
  /\ Looks(c)

(* The end of a path with a pointer that is not given up. *)
ForgetPointer(c) ==
  /\ At(c, "forget")
  /\ forgotten' = [forgotten EXCEPT ![ptr[c][1]] = @ + 1]
  /\ Hold(c, 1, NoObj)
  /\ Continue(c, Rest(c))
  /\ Over(c)
  /\ UNCHANGED <<server_side, entry, uses, answer>>

Silent(c) ==
  /\ At(c, "silence")
  /\ answer' = [answer EXCEPT ![c] = "never"]
  /\ Continue(c, Rest(c))
  /\ Over(c)
  /\ UNCHANGED <<server_side, objects, ptr>>

(* The last line of an answer. *)
Reply(c) ==
  /\ At(c, "reply")
  /\ answer' = [answer EXCEPT ![c] = IF @ = "none" THEN "one" ELSE "many"]
  /\ Continue(c, Rest(c))
  /\ Over(c)
  /\ UNCHANGED <<server_side, objects, ptr>>

CloseCommand(c) ==
  /\ At(c, "deactivate")
  /\ active' = [active EXCEPT ![c] = FALSE]
  /\ Continue(c, Rest(c))
  /\ Over(c)
  /\ UNCHANGED <<scope, conn, open, running, server, joining, objects, ptr, answer>>

StopCommand(c) ==
  /\ At(c, "halt")
  /\ running' = FALSE
  /\ Continue(c, Rest(c))
  /\ Over(c)
  /\ UNCHANGED <<scope, conn, active, open, server, joining, objects, ptr, answer>>
-----------------------------------------------------------------------------
(* conn->active is looked at between two lines; fgets waits for the next one. *)
LoopTop(c) ==
  /\ thread[c] = "top"
  /\ thread' = [thread EXCEPT ![c] = IF active[c] THEN "body" ELSE "ended"]
  /\ UNCHANGED <<server_side, objects, prog, args, ptr, answer, renamer>>

(* fgets fails: the socket was shut down, or the client left. *)
EndOfFile(c) ==
  /\ thread[c] = "body" /\ prog[c] = << >> /\ ~open[c]
  /\ thread' = [thread EXCEPT ![c] = "ended"]
  /\ UNCHANGED <<server_side, objects, prog, args, ptr, answer, renamer>>

(* The client goes away. *)
Disconnect(c) ==
  /\ scope.leave
  /\ open[c]
  /\ open' = [open EXCEPT ![c] = FALSE]
  /\ UNCHANGED <<scope, conn, active, thread, running, server, joining, objects,
                 prog, args, ptr, answer, renamer>>

(* hypervisor_stopsig *)
StopSignal ==
  /\ scope.leave
  /\ running
  /\ running' = FALSE
  /\ UNCHANGED <<scope, conn, active, open, thread, server, joining, objects,
                 prog, args, ptr, answer, renamer>>

(* hypervisor_create_conn *)
Accept(c) ==
  /\ server = "accept" /\ joining = NoConn
  /\ conn[c] = "new" /\ c \in scope.clients
  /\ conn' = [conn EXCEPT ![c] = "listed"]
  /\ active' = [active EXCEPT ![c] = TRUE]
  /\ open' = [open EXCEPT ![c] = TRUE]
  /\ thread' = [thread EXCEPT ![c] = "top"]
  /\ UNCHANGED <<scope, running, server, joining, objects, prog, args, ptr, answer, renamer>>

\* Mutant: the socket is not shut down before the join.
CloseConnOpen(c) ==
  /\ server # "done" /\ joining = NoConn
  /\ conn[c] = "listed"
  /\ server = "accept" => ~active[c]
  /\ active' = [active EXCEPT ![c] = FALSE]
  /\ joining' = c
  /\ UNCHANGED <<scope, conn, open, thread, running, server, objects, prog, args, ptr,
                 answer, renamer>>

(* hypervisor_close_conn_list: the dead connections while the server runs,    *)
(* every connection at its end; hypervisor_close_conn up to pthread_join.     *)
CloseConn(c) ==
  /\ server # "done" /\ joining = NoConn
  /\ conn[c] = "listed"
  /\ server = "accept" => ~active[c]
  /\ active' = [active EXCEPT ![c] = FALSE]
  /\ open' = [open EXCEPT ![c] = FALSE]
  /\ joining' = c
  /\ UNCHANGED <<scope, conn, thread, running, server, objects, prog, args, ptr, answer, renamer>>

\* Mutant: the connection is freed without waiting for its thread.
FreeConnUnjoined(c) ==
  /\ joining = c
  /\ conn' = [conn EXCEPT ![c] = "freed"]
  /\ joining' = NoConn
  /\ UNCHANGED <<scope, active, open, thread, running, server, objects, prog, args, ptr,
                 answer, renamer>>

FreeConn(c) ==
  /\ joining = c
  /\ thread[c] = "ended"
  /\ conn' = [conn EXCEPT ![c] = "freed"]
  /\ joining' = NoConn
  /\ UNCHANGED <<scope, active, open, thread, running, server, objects, prog, args, ptr,
                 answer, renamer>>

LeaveLoop ==
  /\ server = "accept" /\ joining = NoConn
  /\ ~running
  /\ server' = "closing"
  /\ UNCHANGED <<scope, conn, active, open, thread, running, joining, objects,
                 prog, args, ptr, answer, renamer>>

ServerReturns ==
  /\ server = "closing" /\ joining = NoConn
  /\ \A c \in Conn : conn[c] # "listed"
  /\ server' = "done"
  /\ UNCHANGED <<scope, conn, active, open, thread, running, joining, objects,
                 prog, args, ptr, answer, renamer>>
-----------------------------------------------------------------------------
Step(c) ==
  \/ FindObject(c) \/ NameExists(c) \/ AttemptStep(c)
  \/ Register(c)
  \/ Unreference(c) \/ UnreferenceOwn(c)
  \/ BindNios(c) \/ UnbindNios(c) \/ UnbindEverything(c) \/ ConfigureBridge(c)
  \/ RenameObject(c) \/ DeleteObject(c) \/ DeleteAll(c) \/ WalkType(c)
  \/ ForgetPointer(c) \/ Silent(c) \/ Reply(c)
  \/ CloseCommand(c) \/ StopCommand(c)
  \/ LoopTop(c) \/ EndOfFile(c)

ServerStep ==
  \/ \E c \in Conn : CloseConn(c) \/ FreeConn(c)
  \/ LeaveLoop \/ ServerReturns

Next ==
  \/ \E c \in Conn : \E p \in Lines : \E a \in [1 .. Arity(p) -> scope.names] : Read(c, p, a)
  \/ \E c \in Conn : Step(c)
  \/ \E c \in Conn : Accept(c) \/ Disconnect(c)
  \/ StopSignal
  \/ ServerStep

(* The threads and the server go on: neither is ever without time.           *)
Fairness == /\ \A c \in Conn : WF_vars(Step(c))
            /\ WF_vars(ServerStep)

Spec == Init /\ [][Next]_vars /\ Fairness
-----------------------------------------------------------------------------
(* An object a handler works on is not freed, nor is an NIO that a bridge, a  *)
(* switch or a VM has acquired: every registry_delete_if_unused and           *)
(* registry_delete_type of another client, or of the reset command, finds     *)
(* them referenced (the handlers of common/hv_*.c and stable/hv_vm.c).        *)
PointersLive ==
  /\ \A c \in Conn, n \in 1 .. 2 : ptr[c][n] # NoObj => Live(ptr[c][n])
  /\ \A s, o \in Obj : uses[s][o] > 0 => Live(s) /\ Live(o)

(* Every path of every handler gives up what it took: the count of an object *)
(* is the number of handlers that work on it and of bindings to it, but for   *)
(* the four paths that forget a reference (hv_vm.c, cmd_rename,               *)
(* cmd_show_cpu_usage, cmd_send_con_msg; atm_bridge.c, atm_bridge_configure). *)
ReferencesBalanced ==
  /\ \A o \in Obj : Live(o) =>
        entry[o].refs = Cardinality(Holders(o)) + Cardinality(Bindings(Obj, o)) + forgotten[o]
  /\ \A c \in Conn : prog[c] = << >> => \A n \in 1 .. 2 : ptr[c][n] = NoObj

(* A command gets one last line, whatever path it takes, and none before the  *)
(* previous one is over: a client matches answers to commands by counting     *)
(* them (hypervisor_send_reply with done set).                                *)
AnsweredOnce ==
  \A c \in Conn : /\ answer[c] # "many"
                  /\ prog[c] = << >> => answer[c] # "none"

(* A connection is freed after its thread (hypervisor_close_conn), also when  *)
(* the client closes it, goes away or stops the server in the middle of a     *)
(* command of another client.                                                 *)
ConnectionOwned == \A c \in Conn : thread[c] \in {"top", "body"} => conn[c] = "listed"

(* A command is answered, a connection its client closed is freed, and the    *)
(* server ends when it is told to (hypervisor_tcp_server).                    *)
HypervisorServes ==
  /\ \A c \in Conn : prog[c] # << >> ~> prog[c] = << >>
  /\ \A c \in Conn : conn[c] = "listed" /\ ~active[c] ~> conn[c] = "freed"
  /\ ~running ~> server = "done"

-----------------------------------------------------------------------------
(* The instances checked: two clients on one name in the modules that   *)
(* work on each other's objects, on two names where objects are renamed;    *)
(* one client on two names for the circuits and bridges between two NIOs    *)
(* and for the platforms, whose handlers have the same shapes.              *)
CONSTANTS n1, n2, c1, c2

Scope(modules, names, clients, leave) ==
  [modules |-> modules, names |-> names, clients |-> clients, leave |-> leave]

OneName == {Scope({"nio", m}, {n1}, {c1, c2}, FALSE) :
              m \in {"nio_bridge", "frsw", "atmsw", "atm_bridge", "ethsw", "vm"}}
             \cup {Scope({"vm", "c7200"}, {n1}, {c1, c2}, FALSE)}

TwoNames == {Scope({m}, {n1, n2}, {c1, c2}, FALSE) : m \in {"ethsw", "store"}}

OneClient ==
  {Scope({"nio", m}, {n1, n2}, {c1}, FALSE) : m \in {"frsw", "atm_bridge"}}
    \cup {Scope({"vm"}, {n1, n2}, {c1}, FALSE)}
    \cup {Scope({"vm", "vm_debug", p}, {n1}, {c1}, FALSE) :
            p \in {"c3600", "c2691", "c3725", "c3745", "c2600", "c1700"}}

Leaving == {Scope({"store", "hypervisor"}, {n1}, {c1, c2}, TRUE)}

AllScopes == OneName \cup TwoNames \cup OneClient \cup Leaving
RenameScopes == {Scope({"ethsw"}, {n1, n2}, {c1, c2}, FALSE)}
=============================================================================
