------------------------------ MODULE Console ------------------------------
(***************************************************************************)
(* Virtual terminals on TCP: the asio side (vtty_io.cpp) that accepts      *)
(* connections and queues their input and output, and the console thread   *)
(* (dev_vtty.c) that greets connections and hands input to the guest.      *)
(*                                                                         *)
(* Handlers of the asio context take the mutex of vtty_io.cpp and are one  *)
(* step; they are run by whoever runs the context: the console thread      *)
(* waiting for an event, a caller that drains the output of a terminal it  *)
(* detaches, or a CPU thread whose output is held up.  Two more locks are  *)
(* held over several steps: list_lock (vtty_list_mutex) and the lock of a  *)
(* terminal.  One controller creates, quiesces and deletes terminals and   *)
(* starts and stops the console thread.                                    *)
(*                                                                         *)
(* A terminal is its address, used again after it was freed; its endpoint  *)
(* has a generation.  The characters the guest writes are numbered, and a  *)
(* connection is described by the numbers it was sent.  Input is not told  *)
(* apart: what matters is the connection it comes from.                    *)
(***************************************************************************)
EXTENDS Naturals, Sequences, FiniteSets

CONSTANTS
  Tty,        \* addresses of terminals
  Client,     \* TCP connections
  Replay,     \* VTTY_BUFFER_SIZE, of the replay buffer
  Limit,      \* queue_limit, in characters
  MaxOut,     \* bound: characters written to a terminal
  MaxGen,     \* bound: terminals created at an address
  MaxStart,   \* bound: starts of the console thread
  NoTty, NoClient

ConsoleAssumption ==
  /\ Replay \in Nat \ {0} /\ Limit \in Nat /\ Replay <= Limit
  /\ MaxOut \in Nat /\ MaxGen \in Nat /\ MaxStart \in Nat
  /\ NoTty \notin Tty /\ NoClient \notin Client

VARIABLES
  started, starts,        \* terminals.started; how often it was set
  running,                \* vtty_thread_running
  thread,                 \* where the console thread is
  event,                  \* the event it has taken
  events,                 \* terminals.events
  list_lock,              \* who holds vtty_list_mutex
  lock,                   \* lock[t]: who holds the lock of t
  exists, listed,         \* terminals allocated, and in vtty_list
  endpoint, gen,          \* state and generation of the endpoint of t
  out,                    \* out[t]: characters in the replay buffer so far
  todo,                   \* todo[t]: connections a held-up write has to serve
  owner,                  \* owner[c]: the endpoint of connection c
  active, ready,          \* flags of a channel
  reading,                \* an asynchronous read is under way
  pending,                \* characters in the output queue
  stream,                 \* characters queued for c since it was accepted
  ctl                     \* the controller: what it does and to which terminal

threadVars == <<thread, event, events>>
lifeVars   == <<started, starts, running>>
ttyVars    == <<exists, listed, endpoint, gen>>
chanVars   == <<owner, active, ready, reading, pending, stream>>
vars == <<lifeVars, threadVars, list_lock, lock, ttyVars, out, todo, chanVars, ctl>>

NoEvent == [client |-> NoClient, connected |-> FALSE]
Event == [client : Client, connected : BOOLEAN]
NoOwner == <<NoTty, 0>>
Idle == [pc |-> "idle", op |-> "none", tty |-> NoTty]

TypeOK ==
  /\ started \in BOOLEAN /\ running \in BOOLEAN /\ starts \in 0..MaxStart
  /\ thread \in {"off", "take", "lock", "greet", "complete", "input"}
  /\ event \in Event \cup {NoEvent}
  /\ events \in Seq(Event)
  /\ list_lock \in {"none", "thread", "ctl"}
  /\ lock \in [Tty -> {"none", "thread", "cpu"}]
  /\ exists \in SUBSET Tty /\ listed \in SUBSET exists
  /\ endpoint \in [Tty -> {"none", "active", "closing"}]
  /\ gen \in [Tty -> 0..MaxGen]
  /\ out \in [Tty -> 0..MaxOut]
  /\ todo \in [Tty -> SUBSET Client]
  /\ owner \in [Client -> (Tty \X (1..MaxGen)) \cup {NoOwner}]
  /\ active \in [Client -> BOOLEAN] /\ ready \in [Client -> BOOLEAN]
  /\ reading \in [Client -> BOOLEAN]
  /\ pending \in [Client -> 0..Limit]
  /\ stream \in [Client -> Seq(1..MaxOut)]
  /\ ctl \in [pc : {"idle", "list", "drain", "stop", "join"},
              op : {"none", "create", "quiesce", "delete", "shutdown"},
              tty : Tty \cup {NoTty}]

Init ==
  /\ started = FALSE /\ starts = 0 /\ running = FALSE
  /\ thread = "off" /\ event = NoEvent /\ events = <<>>
  /\ list_lock = "none" /\ lock = [t \in Tty |-> "none"]
  /\ exists = {} /\ listed = {}
  /\ endpoint = [t \in Tty |-> "none"] /\ gen = [t \in Tty |-> 0]
  /\ out = [t \in Tty |-> 0] /\ todo = [t \in Tty |-> {}]
  /\ owner = [c \in Client |-> NoOwner]
  /\ active = [c \in Client |-> FALSE] /\ ready = [c \in Client |-> FALSE]
  /\ reading = [c \in Client |-> FALSE]
  /\ pending = [c \in Client |-> 0] /\ stream = [c \in Client |-> <<>>]
  /\ ctl = Idle

-----------------------------------------------------------------------------
\* The endpoint a channel belongs to, and the channels of a terminal.
Current(c) == owner[c][1] # NoTty /\ owner[c][2] = gen[owner[c][1]]
State(c) == IF Current(c) THEN endpoint[owner[c][1]] ELSE "none"
Channels(t) == {c \in Client : active[c] /\ Current(c) /\ owner[c][1] = t}

\* terminals::cancel of channels
Cancel(S) ==
  /\ active' = [c \in Client |-> active[c] /\ c \notin S]
  /\ reading' = [c \in Client |-> reading[c] /\ c \notin S]
  /\ pending' = [c \in Client |-> IF c \in S THEN 0 ELSE pending[c]]
  /\ UNCHANGED <<owner, ready, stream>>

\* terminals::enqueue of one character for the channels in S
Enqueue(S, ch) ==
  /\ pending' = [c \in Client |-> IF c \in S THEN pending[c] + 1 ELSE pending[c]]
  /\ stream' = [c \in Client |-> IF c \in S THEN Append(stream[c], ch)
                                 ELSE stream[c]]
  /\ UNCHANGED <<owner, active, ready, reading>>

\* Someone runs the context.
Runs == started /\ \/ thread = "take"
                   \/ ctl.pc = "drain"
                   \/ \E t \in Tty : todo[t] # {}

-----------------------------------------------------------------------------
(* Handlers of the context.                                                *)

\* The handler of accept; a connection to an endpoint that closes is dropped.
Accepted(c, t) ==
  /\ Runs /\ owner[c] = NoOwner /\ endpoint[t] = "active"
  /\ owner' = [owner EXCEPT ![c] = <<t, gen[t]>>]
  /\ active' = [active EXCEPT ![c] = TRUE]
  /\ events' = Append(events, [client |-> c, connected |-> TRUE])
  /\ UNCHANGED <<lifeVars, thread, event, list_lock, lock, ttyVars, out, todo,
                 ready, reading, pending, stream, ctl>>

\* Mutant: the next read begins at once.
ReceivedRearms(c) ==
  /\ Runs /\ reading[c] /\ active[c]
  /\ events' = IF State(c) = "active"
               THEN Append(events, [client |-> c, connected |-> FALSE])
               ELSE events
  /\ Len(events) < 2
  /\ UNCHANGED <<lifeVars, thread, event, list_lock, lock, ttyVars, out, todo,
                 owner, active, ready, reading, pending, stream, ctl>>

\* The handler of read, with data; nothing happens once the endpoint closes.
Received(c) ==
  /\ Runs /\ reading[c] /\ active[c]
  /\ reading' = [reading EXCEPT ![c] = FALSE]
  /\ events' = IF State(c) = "active"
               THEN Append(events, [client |-> c, connected |-> FALSE])
               ELSE events
  /\ UNCHANGED <<lifeVars, thread, event, list_lock, lock, ttyVars, out, todo,
                 owner, active, ready, pending, stream, ctl>>

\* The handlers of read and send when the peer has gone.
Disconnected(c) ==
  /\ Runs /\ active[c]
  /\ pending[c] > 0 \/ (reading[c] /\ State(c) = "active")
  /\ Cancel({c})
  /\ UNCHANGED <<lifeVars, threadVars, list_lock, lock, ttyVars, out, todo, ctl>>

\* The handler of send; what was queued meanwhile follows.
Sent(c) ==
  /\ Runs /\ active[c] /\ pending[c] > 0
  /\ \E n \in 1..pending[c] : pending' = [pending EXCEPT ![c] = @ - n]
  /\ UNCHANGED <<lifeVars, threadVars, list_lock, lock, ttyVars, out, todo,
                 owner, active, ready, reading, stream, ctl>>

-----------------------------------------------------------------------------
(* The console thread.                                                     *)

\* vtty_io_take: an event, none within 50 ms, or the end.
Take ==
  /\ thread = "take"
  /\ thread' = "lock"
  /\ IF started /\ events # <<>>
     THEN event' = Head(events) /\ events' = Tail(events)
     ELSE event' = NoEvent /\ UNCHANGED events
  /\ UNCHANGED <<lifeVars, list_lock, lock, ttyVars, out, todo, chanVars, ctl>>

EventActive == event # NoEvent /\ active[event.client] /\ State(event.client) = "active"
EventTty == owner[event.client][1]

\* Whether the event is handled: vtty_io_active and the search in vtty_list.
Handles == EventActive /\ EventTty \in listed

\* vtty_io_complete: a connection is ready for output, the next read begins.
CompleteEvent ==
  /\ IF EventActive
     THEN /\ ready' = [ready EXCEPT ![event.client] = @ \/ event.connected]
          /\ reading' = [reading EXCEPT ![event.client] = TRUE]
          /\ UNCHANGED <<owner, active, pending, stream>>
     ELSE UNCHANGED chanVars
  /\ event' = NoEvent

\* The thread has the list; an event that is not handled is only completed.
LockList ==
  /\ thread = "lock" /\ list_lock = "none"
  /\ \/ /\ running /\ Handles
        /\ thread' = IF event.connected THEN "greet" ELSE "input"
        /\ list_lock' = "thread"
        /\ UNCHANGED <<event, chanVars>>
     \/ /\ ~(running /\ Handles)
        /\ CompleteEvent
        /\ thread' = IF running THEN "take" ELSE "off"
        /\ UNCHANGED list_lock
  /\ UNCHANGED <<lifeVars, events, lock, ttyVars, out, todo, ctl>>

\* The last characters of the replay buffer.
Replayed(n) ==
  IF n <= Replay THEN [i \in 1..n |-> i] ELSE [i \in 1..Replay |-> n - Replay + i]

\* Mutant: the lock of the terminal is given up before the completion.
GreetUnlocked ==
  /\ thread = "greet" /\ lock[EventTty] = "none"
  /\ thread' = "complete"
  /\ LET c == event.client
         s == Replayed(out[EventTty])
     IN IF active[c]
        THEN /\ stream' = [stream EXCEPT ![c] = s]
             /\ pending' = [pending EXCEPT ![c] = Len(s)]
        ELSE UNCHANGED <<stream, pending>>
  /\ UNCHANGED <<lifeVars, event, events, list_lock, lock, ttyVars, out, todo,
                 owner, active, ready, reading, ctl>>

\* vtty_tcp_connected with the lock of the terminal: a connection that is
\* still there gets the old text, from the oldest character on.
Greet ==
  /\ thread = "greet" /\ lock[EventTty] = "none"
  /\ lock' = [lock EXCEPT ![EventTty] = "thread"]
  /\ thread' = "complete"
  /\ LET c == event.client
         s == Replayed(out[EventTty])
     IN IF active[c]
        THEN /\ stream' = [stream EXCEPT ![c] = s]
             /\ pending' = [pending EXCEPT ![c] = Len(s)]
        ELSE UNCHANGED <<stream, pending>>
  /\ UNCHANGED <<lifeVars, event, events, list_lock, ttyVars, out, todo,
                 owner, active, ready, reading, ctl>>

Unlocked(t) == IF lock[t] = "thread" THEN [lock EXCEPT ![t] = "none"] ELSE lock

\* The completion, and both locks.
Complete ==
  /\ thread = "complete"
  /\ CompleteEvent
  /\ lock' = Unlocked(EventTty)
  /\ list_lock' = "none"
  /\ thread' = "take"
  /\ UNCHANGED <<lifeVars, events, ttyVars, out, todo, ctl>>

\* vtty_process_input for the characters of the event; options of the telnet
\* client are answered through the terminal (Put).
Input ==
  /\ thread = "input" /\ lock[EventTty] = "none"
  /\ CompleteEvent
  /\ list_lock' = "none" /\ thread' = "take"
  /\ UNCHANGED <<lifeVars, events, lock, ttyVars, out, todo, ctl>>

-----------------------------------------------------------------------------
(* Output: vtty_put_char and vtty_put_buffer, by the CPU or by the thread.  *)

\* vtty_record_output and the unlock.
Record(t) ==
  /\ out' = [out EXCEPT ![t] = @ + 1]
  /\ lock' = [lock EXCEPT ![t] = "none"]

\* The channels that get the output of t.
Listeners(t) == {c \in Channels(t) : ready[c]}

\* vtty_put_char gets the lock and calls write, which queues the character
\* unless a queue is full.
Put(t, who) ==
  /\ t \in exists /\ lock[t] = "none" /\ out[t] < MaxOut
  /\ who = "cpu" => ctl.tty # t \/ ctl.op = "quiesce"
  /\ who = "thread" => thread = "input" /\ EventTty = t
  /\ LET held_up == \E c \in Listeners(t) : pending[c] = Limit
     IN IF endpoint[t] = "active" /\ held_up
        THEN /\ todo' = [todo EXCEPT ![t] = Listeners(t)]
             /\ lock' = [lock EXCEPT ![t] = who]
             /\ UNCHANGED <<chanVars, out>>
        ELSE /\ IF endpoint[t] = "active"
                THEN Enqueue(Listeners(t), out[t] + 1) ELSE UNCHANGED chanVars
             /\ out' = [out EXCEPT ![t] = @ + 1]
             /\ UNCHANGED <<todo, lock>>
  /\ UNCHANGED <<lifeVars, threadVars, list_lock, ttyVars, ctl>>

\* The next connection of a write that was held up: the character is queued,
\* or the connection given up after 250 ms, or left alone if it has gone.
PutWait(t, c) ==
  /\ c \in todo[t]
  /\ CASE active[c] /\ State(c) = "active" /\ pending[c] < Limit ->
            Enqueue({c}, out[t] + 1)
       [] active[c] /\ State(c) = "active" /\ pending[c] = Limit -> Cancel({c})
       [] OTHER -> UNCHANGED chanVars
  /\ todo' = [todo EXCEPT ![t] = @ \ {c}]
  /\ IF todo'[t] = {} THEN Record(t) ELSE UNCHANGED <<out, lock>>
  /\ UNCHANGED <<lifeVars, threadVars, list_lock, ttyVars, ctl>>

-----------------------------------------------------------------------------
(* The controller.                                                         *)

\* vtty_create up to vtty_io_attach; if that fails the terminal is freed.
Create(t) ==
  /\ ctl = Idle /\ t \notin exists /\ gen[t] < MaxGen
  /\ started /\ endpoint[t] = "none"
  /\ exists' = exists \cup {t}
  /\ endpoint' = [endpoint EXCEPT ![t] = "active"]
  /\ gen' = [gen EXCEPT ![t] = @ + 1]
  /\ out' = [out EXCEPT ![t] = 0]
  /\ ctl' = [pc |-> "list", op |-> "create", tty |-> t]
  /\ UNCHANGED <<lifeVars, threadVars, list_lock, lock, listed, todo, chanVars>>

CreateListed ==
  /\ ctl.pc = "list" /\ list_lock = "none"
  /\ listed' = listed \cup {ctl.tty}
  /\ ctl' = Idle
  /\ UNCHANGED <<lifeVars, threadVars, list_lock, lock, exists, endpoint, gen,
                 out, todo, chanVars>>

\* vtty_quiesce and vtty_delete up to the wait in terminals::remove.  A
\* terminal is deleted when no CPU writes to it any more.
Detach(t, op) ==
  /\ ctl = Idle /\ t \in listed /\ list_lock = "none"
  /\ op = "delete" => lock[t] = "none"
  /\ list_lock' = "ctl"
  /\ endpoint' = [endpoint EXCEPT ![t] = IF @ = "none" THEN @ ELSE "closing"]
  /\ ctl' = [pc |-> "drain", op |-> op, tty |-> t]
  /\ UNCHANGED <<lifeVars, threadVars, lock, exists, listed, gen, out, todo,
                 chanVars>>

\* The rest: the queues are empty or 250 ms have passed.
Detached ==
  /\ ctl.pc = "drain"
  /\ Cancel(Channels(ctl.tty))
  /\ endpoint' = [endpoint EXCEPT ![ctl.tty] = "none"]
  /\ IF ctl.op = "delete"
     THEN listed' = listed \ {ctl.tty} /\ exists' = exists \ {ctl.tty}
     ELSE UNCHANGED <<listed, exists>>
  /\ list_lock' = "none" /\ ctl' = Idle
  /\ UNCHANGED <<lifeVars, threadVars, lock, gen, out, todo>>

\* vtty_init
Start ==
  /\ ctl = Idle /\ thread = "off" /\ ~started /\ starts < MaxStart
  /\ started' = TRUE /\ starts' = starts + 1 /\ running' = TRUE
  /\ thread' = "take"
  /\ UNCHANGED <<event, events, list_lock, lock, ttyVars, out, todo, chanVars, ctl>>

\* vtty_shutdown: the flag, terminals::stop and the join.
Shutdown ==
  /\ ctl = Idle /\ started /\ list_lock = "none"
  /\ running' = FALSE
  /\ ctl' = [pc |-> "stop", op |-> "shutdown", tty |-> NoTty]
  /\ UNCHANGED <<started, starts, threadVars, list_lock, lock, ttyVars, out,
                 todo, chanVars>>

Stop ==
  /\ ctl.pc = "stop"
  /\ started' = FALSE
  /\ Cancel({c \in Client : State(c) # "none"})
  /\ endpoint' = [t \in Tty |-> "none"]
  /\ events' = <<>>
  /\ ctl' = [ctl EXCEPT !.pc = "join"]
  /\ UNCHANGED <<starts, running, thread, event, list_lock, lock, exists, listed,
                 gen, out, todo>>

Join ==
  /\ ctl.pc = "join" /\ thread = "off"
  /\ ctl' = Idle
  /\ UNCHANGED <<lifeVars, threadVars, list_lock, lock, ttyVars, out, todo,
                 chanVars>>

-----------------------------------------------------------------------------
Thread == Take \/ LockList \/ Greet \/ Complete \/ Input
Held == \E t \in Tty, c \in Client : PutWait(t, c)
Controller == CreateListed \/ Detached \/ Stop \/ Join

Next ==
  \/ Thread \/ Held \/ Controller
  \/ \E c \in Client : Received(c) \/ Disconnected(c) \/ Sent(c)
  \/ \E c \in Client, t \in Tty : Accepted(c, t)
  \/ \E t \in Tty : Put(t, "cpu") \/ Put(t, "thread") \/ Create(t)
  \/ \E t \in Tty, op \in {"quiesce", "delete"} : Detach(t, op)
  \/ Start \/ Shutdown

Spec == Init /\ [][Next]_vars

(* The console thread, the CPU threads and the controller go on.  list_lock  *)
(* is free while the thread waits for an event, up to 50 ms, and the lock of *)
(* a terminal between two characters of the guest: who waits for one of them *)
(* gets it in the end.                                                       *)
FairSpec ==
  /\ Spec /\ SF_vars(Thread) /\ WF_vars(Held) /\ SF_vars(Controller)

-----------------------------------------------------------------------------
(* While the console thread works on an event, the terminal is there and is  *)
(* the one the connection was made to, not another one that was created at   *)
(* its address (vtty_thread_main, vtty_io_active).                           *)
EventOwned ==
  thread \in {"greet", "complete", "input"} =>
    /\ EventTty \in exists
    /\ owner[event.client] = <<EventTty, gen[EventTty]>>

(* A channel has one input buffer.  As long as the connection and its        *)
(* terminal are open it is in use once: by a read under way, by an event in  *)
(* the queue, or by the event that is worked on (terminals::read,            *)
(* vtty_io_complete).  So it is not overwritten, and the terminal not deaf.  *)
Uses(c) ==
  {<<"read", 0>> : x \in {x \in {c} : reading[x]}}
    \cup {<<"queued", i>> : i \in {i \in DOMAIN events : events[i].client = c}}
    \cup {<<"taken", 0>> : x \in {x \in {c} : event.client = x}}
OneInput ==
  \A c \in Client :
    /\ Cardinality(Uses(c)) <= 1
    /\ active[c] /\ State(c) = "active" => Uses(c) # {}

(* What a connection is sent, the old text and what the guest writes from    *)
(* then on, has no gap and no repetition, and nothing the guest wrote is     *)
(* missing (vtty_tcp_connected, vtty_put_char, write), until vtty_shutdown.  *)
Seen(c) == IF stream[c] = <<>> THEN 0 ELSE stream[c][Len(stream[c])]
OutputContiguous ==
  \A c \in Client :
    /\ \A i \in 1..(Len(stream[c]) - 1) : stream[c][i + 1] = stream[c][i] + 1
    /\ \A t \in Tty :
         running /\ c \in Listeners(t) /\ endpoint[t] = "active" =>
           Seen(c) = IF todo[t] = {} \/ c \in todo[t] THEN out[t] ELSE out[t] + 1
=============================================================================
