---------------------------- MODULE WorkersProofs ----------------------------
(***************************************************************************)
(* Proofs about the threads that call back (Workers): the worker of the    *)
(* UDP receivers, the worker of the periodic tasks and the receive threads *)
(* of the other NIOs, for any number of clients, NIOs, listeners and       *)
(* tasks.  Each has an inductive invariant of its own, since none touches  *)
(* the state of another.                                                   *)
(***************************************************************************)
EXTENDS Workers, FiniteSetTheorems, SequenceTheorems, WellFoundedInduction, TLAPS

-----------------------------------------------------------------------------
(* Numbers and sequences.                                                  *)

\* A set of numbers has a least one.
LEMMA LeastNat ==
  ASSUME NEW S, S \subseteq Nat, S # {}
  PROVE  \E x \in S : \A y \in S : x <= y
<1> DEFINE R1 == {ss \in Nat \X Nat : ss[1] < ss[2]}
<1>1. IsWellFoundedOn(R1, Nat)
  BY NatLessThanWellFounded DEF OpToRel
<1> HIDE DEF R1
<1>2. PICK x \in S : \A y \in S : ~ (<<y, x>> \in R1)
  BY <1>1, WFMin
<1>3. ASSUME NEW y \in S PROVE x <= y
  <2>1. <<y, x>> \in Nat \X Nat /\ ~ (<<y, x>>[1] < <<y, x>>[2])
    BY <1>2 DEF R1
  <2> QED
    BY <2>1
<1> QED
  BY <1>3

\* What a concatenation has at each index.
LEMMA ConcatSeq ==
  ASSUME NEW S, NEW a \in Seq(S), NEW b \in Seq(S)
  PROVE  /\ a \o b \in Seq(S)
         /\ Len(a \o b) = Len(a) + Len(b)
         /\ DOMAIN (a \o b) = 1 .. Len(a) + Len(b)
         /\ \A i \in 1 .. Len(a) : (a \o b)[i] = a[i]
         /\ \A i \in Len(a) + 1 .. Len(a) + Len(b) :
               (a \o b)[i] = b[i - Len(a)]
  OBVIOUS

Without(s, k) == SubSeq(s, 1, k - 1) \o SubSeq(s, k + 1, Len(s))

\* What is left when the element at an index is removed.
LEMMA WithoutAt ==
  ASSUME NEW S, NEW s \in Seq(S), NEW k \in DOMAIN s
  PROVE  LET t == Without(s, k) IN
         /\ t \in Seq(S)
         /\ \A i \in DOMAIN t : \E j \in DOMAIN s :
              j # k /\ t[i] = s[j] /\ j = IF i < k THEN i ELSE i + 1
<1> DEFINE t == Without(s, k)
           a == SubSeq(s, 1, k - 1)
           b == SubSeq(s, k + 1, Len(s))
<1>1. /\ Len(s) \in Nat /\ DOMAIN s = 1 .. Len(s) /\ k \in 1 .. Len(s)
      /\ a \in Seq(S) /\ b \in Seq(S)
      /\ Len(a) = k - 1 /\ Len(b) = Len(s) - k
      /\ \A i \in 1 .. k - 1 : a[i] = s[i]
      /\ \A i \in 1 .. Len(s) - k : b[i] = s[i + k]
  OBVIOUS
<1>2. t = a \o b
  BY DEF Without
<1> HIDE DEF a, b, t
<1>n. Len(a) \in Nat /\ Len(b) \in Nat /\ Len(s) \in Nat /\ k \in Nat /\ Len(a) = k - 1
      /\ Len(b) = Len(s) - k /\ DOMAIN s = 1 .. Len(s)
  BY <1>1
<1>3. t \in Seq(S) /\ DOMAIN t = 1 .. Len(a) + Len(b)
  BY <1>1, <1>2, ConcatSeq
<1>4. \A i \in 1 .. Len(a) : t[i] = a[i]
  BY <1>1, <1>2, ConcatSeq
<1>5. \A i \in Len(a) + 1 .. Len(a) + Len(b) : t[i] = b[i - Len(a)]
  BY <1>1, <1>2, ConcatSeq
<1>6. \A i \in DOMAIN t : \E j \in DOMAIN s :
        j # k /\ t[i] = s[j] /\ j = IF i < k THEN i ELSE i + 1
  <2> SUFFICES ASSUME NEW i \in DOMAIN t
               PROVE  \E j \in DOMAIN s :
                        j # k /\ t[i] = s[j] /\ j = IF i < k THEN i ELSE i + 1
    OBVIOUS
  <2>0. i \in 1 .. Len(s) - 1
    BY <1>n, <1>3
  <2>1. CASE i < k
    <3>1. i \in 1 .. Len(a) /\ i \in 1 .. k - 1
      BY <1>n, <2>0, <2>1
    <3>2. t[i] = s[i]
      BY <3>1, <1>1, <1>4
    <3> QED
      BY <3>2, <2>0, <2>1, <1>n
  <2>2. CASE ~(i < k)
    <3>1. i \in Len(a) + 1 .. Len(a) + Len(b)
      BY <1>n, <2>2, <2>0
    <3>2. i - Len(a) \in 1 .. Len(s) - k /\ (i - Len(a)) + k = i + 1
      BY <1>n, <2>2, <2>0
    <3>3. t[i] = b[i - Len(a)]
      BY <3>1, <1>5
    <3>4. b[i - Len(a)] = s[(i - Len(a)) + k]
      BY <3>2, <1>1
    <3>5. t[i] = s[i + 1] /\ i + 1 \in DOMAIN s /\ i + 1 # k
      BY <3>2, <3>3, <3>4, <2>0, <2>2, <1>n
    <3> QED
      BY <3>5, <2>2
  <2> QED
    BY <2>1, <2>2
<1> QED
  BY <1>3, <1>6 DEF t

-----------------------------------------------------------------------------
(* The periodic tasks.                                                     *)

\* Every task has an owner, and identifiers are not used again.
TasksInv ==
  /\ next_id \in Nat /\ id \in [Client -> Nat] /\ t_call \in [Client -> {"idle", "add", "remove"}]
  /\ tasks \in Seq(Nat \ {0})
  /\ \A k \in DOMAIN tasks : tasks[k] <= next_id /\ \E d \in Client : id[d] = tasks[k]
  /\ \A j, k \in DOMAIN tasks : tasks[j] = tasks[k] => j = k
  /\ \A d \in Client : t_call[d] = "add" => id[d] = 0

\* The sweep in progress is of the current cycle and calls owned tasks.
TodoInv ==
  /\ todo \in Seq(Nat \ {0})
  /\ t_worker = "sweep" => /\ t_running /\ cycle = generation
                           /\ \A k \in DOMAIN todo : \E d \in Client : id[d] = todo[k]

\* Where the worker and the controller are.
CycleInv ==
  /\ generation \in Nat /\ cycle \in Nat /\ cycle <= generation
  /\ queue \in Seq(Nat) /\ \A k \in DOMAIN queue : queue[k] <= generation
  /\ waiting \subseteq Nat /\ \A c \in waiting : c <= generation
  /\ t_running => t_started
  /\ ~t_started => t_worker = "none"
  /\ t_stopper = "relock" => t_worker = "none"
  /\ t_stopper \notin {"idle", "lock"} => ~t_running
  /\ t_worker = "ended" => t_stopped

Sweeping == t_worker \in {"lock", "sweep"} /\ cycle = generation

\* The sweep of the current cycle is in one place.
SweepPlace ==
  t_running /\ ~t_stopped =>
    \/ /\ \E k \in DOMAIN queue : /\ queue[k] = generation
                                  /\ \A j \in DOMAIN queue : queue[j] = generation => j = k
       /\ generation \notin waiting /\ ~Sweeping
    \/ /\ \A k \in DOMAIN queue : queue[k] # generation
       /\ generation \in waiting /\ ~Sweeping
    \/ /\ \A k \in DOMAIN queue : queue[k] # generation
       /\ generation \notin waiting /\ Sweeping

PtaskInv == TasksInv /\ TodoInv /\ CycleInv /\ SweepPlace

\* At the start.
LEMMA PtaskInit == P!Init => PtaskInv
<1> SUFFICES ASSUME P!Init PROVE PtaskInv
  OBVIOUS
<1>1. TasksInv
  BY DEF P!Init, TasksInv
<1>2. TodoInv
  BY DEF P!Init, TodoInv
<1>3. CycleInv
  BY DEF P!Init, CycleInv
<1>4. SweepPlace
  BY DEF P!Init, SweepPlace
<1> QED
  BY <1>1, <1>2, <1>3, <1>4 DEF PtaskInv

\* The tasks and the identifiers of the devices.
LEMMA TasksStep ==
  ASSUME TasksInv, P!Next
  PROVE  TasksInv'
<1> USE DEF TasksInv
<1>1. ASSUME UNCHANGED <<next_id, id, t_call, tasks>> PROVE TasksInv'
  BY <1>1
<1>2. ASSUME NEW d \in Client, P!Begin(d) PROVE TasksInv'
  BY <1>2 DEF P!Begin
<1>3. ASSUME NEW d \in Client, P!Add(d) PROVE TasksInv'
  <2>0. /\ t_call[d] = "add" /\ id[d] = 0
        /\ t_call' = [t_call EXCEPT ![d] = "idle"]
    BY <1>3 DEF P!Add
  <2>1. CASE UNCHANGED <<next_id, tasks, id>>
    BY <2>0, <2>1
  <2>2. CASE /\ next_id' = next_id + 1
             /\ tasks' = <<next_id + 1>> \o tasks
             /\ id' = [id EXCEPT ![d] = next_id + 1]
    <3>1. /\ tasks' \in Seq(Nat \ {0})
          /\ DOMAIN tasks' = 1 .. Len(tasks) + 1
          /\ tasks'[1] = next_id + 1
          /\ \A k \in 2 .. Len(tasks) + 1 : tasks'[k] = tasks[k - 1]
          /\ DOMAIN tasks = 1 .. Len(tasks) /\ Len(tasks) \in Nat
      BY <2>2
    <3>2. ASSUME NEW k \in DOMAIN tasks'
          PROVE  tasks'[k] <= next_id + 1 /\ \E e \in Client : id'[e] = tasks'[k]
      <4>1. CASE k = 1
        BY <4>1, <3>1, <2>2
      <4>2. CASE k # 1
        <5>1. k - 1 \in DOMAIN tasks /\ tasks'[k] = tasks[k - 1]
          BY <4>2, <3>1, <3>2
        <5>2. PICK e \in Client : id[e] = tasks[k - 1]
          BY <5>1
        <5>3. e # d /\ tasks[k - 1] \in Nat \ {0} /\ tasks[k - 1] <= next_id
          BY <5>1, <5>2, <2>0
        <5> QED
          BY <5>1, <5>2, <5>3, <2>2
      <4> QED
        BY <4>1, <4>2
    <3>3. ASSUME NEW j \in DOMAIN tasks', NEW k \in DOMAIN tasks', tasks'[j] = tasks'[k]
          PROVE  j = k
      <4>1. \A i \in DOMAIN tasks' : i # 1 => i - 1 \in DOMAIN tasks /\ tasks'[i] = tasks[i - 1]
                                              /\ tasks'[i] # next_id + 1
        <5> SUFFICES ASSUME NEW i \in DOMAIN tasks', i # 1
                     PROVE  i - 1 \in DOMAIN tasks /\ tasks'[i] = tasks[i - 1]
                            /\ tasks'[i] # next_id + 1
          OBVIOUS
        <5>1. i - 1 \in DOMAIN tasks /\ tasks'[i] = tasks[i - 1]
          BY <3>1
        <5>2. tasks[i - 1] \in Nat /\ tasks[i - 1] <= next_id
          BY <5>1
        <5> QED
          BY <5>1, <5>2
      <4>2. j \in Nat /\ k \in Nat
        BY <3>1
      <4>3. CASE j = 1 \/ k = 1
        BY <4>1, <4>3, <3>1, <3>3
      <4>4. CASE j # 1 /\ k # 1
        <5>1. tasks[j - 1] = tasks[k - 1] /\ j - 1 \in DOMAIN tasks /\ k - 1 \in DOMAIN tasks
          BY <4>1, <4>4, <3>3
        <5>2. j - 1 = k - 1
          BY <5>1
        <5> QED
          BY <5>2, <4>2
      <4> QED
        BY <4>3, <4>4
    <3>4. \A e \in Client : t_call'[e] = "add" => id'[e] = 0
      BY <2>0, <2>2
    <3>5. next_id' \in Nat /\ id' \in [Client -> Nat]
          /\ t_call' \in [Client -> {"idle", "add", "remove"}]
      BY <2>0, <2>2
    <3> QED
      BY <3>1, <3>2, <3>3, <3>4, <3>5, <2>2
  <2> QED
    BY <1>3, <2>1, <2>2 DEF P!Add
<1>4. ASSUME NEW d \in Client, P!RemoveTask(d) PROVE TasksInv'
  <2>0. /\ t_call' = [t_call EXCEPT ![d] = "idle"] /\ id' = [id EXCEPT ![d] = 0]
        /\ next_id' = next_id
    BY <1>4 DEF P!RemoveTask
  <2>1. ASSUME \A k \in DOMAIN tasks : tasks[k] # id[d], tasks' = tasks PROVE TasksInv'
    BY <2>0, <2>1
  <2>2. ASSUME NEW k \in DOMAIN tasks, tasks[k] = id[d], tasks' = P!RemoveAt(tasks, k)
        PROVE  TasksInv'
    <3>1. /\ tasks' \in Seq(Nat \ {0})
          /\ \A i \in DOMAIN tasks' : \E j \in DOMAIN tasks :
               j # k /\ tasks'[i] = tasks[j] /\ j = IF i < k THEN i ELSE i + 1
      <4>1. tasks' = Without(tasks, k)
        BY Zenon, <2>2 DEF P!RemoveAt, Without
      <4>2. tasks \in Seq(Nat \ {0}) /\ k \in DOMAIN tasks
        OBVIOUS
      <4> HIDE DEF TasksInv
      <4>3. tasks' \in Seq(Nat \ {0})
        BY <4>1, <4>2, WithoutAt
      <4>4. \A i \in DOMAIN tasks' : \E j \in DOMAIN tasks :
               j # k /\ tasks'[i] = tasks[j] /\ j = IF i < k THEN i ELSE i + 1
        BY <4>1, <4>2, WithoutAt
      <4> QED
        BY <4>3, <4>4
    <3>2. ASSUME NEW i \in DOMAIN tasks'
          PROVE  tasks'[i] <= next_id /\ \E e \in Client : id'[e] = tasks'[i]
      <4>1. PICK j \in DOMAIN tasks : j # k /\ tasks'[i] = tasks[j]
        BY <3>1
      <4>2. PICK e \in Client : id[e] = tasks[j]
        BY <4>1
      <4>3. e # d
        BY <4>1, <4>2, <2>2
      <4> QED
        BY <4>1, <4>2, <4>3, <2>0
    <3>3. ASSUME NEW i \in DOMAIN tasks', NEW j \in DOMAIN tasks', tasks'[i] = tasks'[j]
          PROVE  i = j
      <4>1. PICK p \in DOMAIN tasks : p # k /\ tasks'[i] = tasks[p]
                                      /\ p = IF i < k THEN i ELSE i + 1
        BY <3>1
      <4>2. PICK q \in DOMAIN tasks : q # k /\ tasks'[j] = tasks[q]
                                      /\ q = IF j < k THEN j ELSE j + 1
        BY <3>1
      <4>3. p = q
        BY <4>1, <4>2, <3>3
      <4>4. i \in Nat /\ j \in Nat /\ k \in Nat
        <5>1. DOMAIN tasks' = 1 .. Len(tasks') /\ DOMAIN tasks = 1 .. Len(tasks)
          BY <3>1
        <5> QED
          BY <5>1
      <4> QED
        BY <4>1, <4>2, <4>3, <4>4
    <3> QED
      BY <2>0, <3>1, <3>2, <3>3
  <2> QED
    <3>1. \/ \E k \in DOMAIN tasks : tasks[k] = id[d] /\ tasks' = P!RemoveAt(tasks, k)
          \/ id[d] \notin P!ToSet(tasks) /\ tasks' = tasks
      BY Zenon, <1>4 DEF P!RemoveTask
    <3>2. id[d] \notin P!ToSet(tasks) => \A k \in DOMAIN tasks : tasks[k] # id[d]
      BY DEF P!ToSet
    <3> QED
      BY Zenon, <3>1, <3>2, <2>1, <2>2
<1>5. ASSUME ~(\E d \in Client : P!Begin(d) \/ P!Add(d) \/ P!RemoveTask(d)) PROVE TasksInv'
  <2>1. UNCHANGED <<next_id, id, t_call, tasks>>
    BY <1>5 DEF P!Next, P!Start, P!Stop, P!StopLocked, P!StopContext, P!StopJoin, P!StopDone,
       P!Expire, P!Worker, P!TakeSweep, P!SweepBegins, P!SweepNext, P!SweepEnds, P!SweepFails,
       P!WorkerEnds, P!devVars
  <2> QED
    BY <2>1, <1>1
<1> QED
  BY <1>2, <1>3, <1>4, <1>5

\* The sweep in progress.
LEMMA TodoStep ==
  ASSUME TasksInv, TodoInv, CycleInv, P!Next
  PROVE  TodoInv'
<1> USE DEF TodoInv, CycleInv
<1>1. ASSUME t_worker # "sweep", t_worker' # "sweep", UNCHANGED todo PROVE TodoInv'
  BY <1>1
<1>2. ASSUME UNCHANGED <<t_worker, t_running, cycle, generation, todo, id>> PROVE TodoInv'
  BY <1>2
<1>3. CASE P!SweepBegins
  BY <1>3 DEF P!SweepBegins, P!Outdated, P!Free, TasksInv, P!schedVars, P!devVars
<1>4. CASE P!SweepNext
  <2>1. /\ todo # <<>> /\ todo' = Tail(todo)
        /\ UNCHANGED <<t_worker, t_running, cycle, generation, id>>
    BY <1>4 DEF P!SweepNext, P!schedVars, P!devVars
  <2>2. /\ todo' \in Seq(Nat \ {0})
        /\ \A k \in DOMAIN todo' : k + 1 \in DOMAIN todo /\ todo'[k] = todo[k + 1]
    BY <2>1
  <2> QED
    BY <2>1, <2>2
<1>5. CASE P!SweepEnds \/ P!SweepFails \/ P!WorkerEnds
  BY <1>5 DEF P!SweepEnds, P!SweepFails, P!WorkerEnds
<1>6. CASE P!TakeSweep \/ P!StopJoin
  BY <1>6 DEF P!TakeSweep, P!StopJoin, P!workVars
<1>7. CASE \E ok \in BOOLEAN : P!Start(ok)
  BY <1>7 DEF P!Start
<1>8. CASE P!StopLocked
  <2>1. t_worker # "sweep" /\ UNCHANGED <<t_worker, todo>>
    BY <1>8 DEF P!StopLocked, P!Free, P!workVars
  <2> QED
    BY <2>1
<1>9. CASE P!Stop \/ P!StopContext \/ P!StopDone \/ (\E c \in waiting : P!Expire(c))
           \/ (\E d \in Client : P!Begin(d))
  BY <1>9, <1>2 DEF P!Stop, P!StopContext, P!StopDone, P!Expire, P!Begin, P!schedVars,
     P!workVars, P!devVars
<1>10. CASE \E d \in Client : P!Add(d) \/ P!RemoveTask(d)
  <2>1. t_worker # "sweep" /\ UNCHANGED <<t_worker, todo>>
    BY <1>10 DEF P!Add, P!RemoveTask, P!Free, P!workVars
  <2> QED
    BY <2>1
<1> QED
  BY Zenon, <1>3, <1>4, <1>5, <1>6, <1>7, <1>8, <1>9, <1>10 DEF P!Next, P!Worker

\* The worker thread, the controller and the cycles.
LEMMA CycleStep ==
  ASSUME CycleInv, P!Next
  PROVE  CycleInv'
<1>t. /\ generation \in Nat /\ cycle \in Nat /\ cycle <= generation
      /\ queue \in Seq(Nat) /\ \A k \in DOMAIN queue : queue[k] <= generation
      /\ waiting \subseteq Nat /\ \A c \in waiting : c <= generation
      /\ t_running => t_started
      /\ ~t_started => t_worker = "none"
      /\ t_stopper = "relock" => t_worker = "none"
      /\ t_stopper \notin {"idle", "lock"} => ~t_running
      /\ t_worker = "ended" => t_stopped
  BY DEF CycleInv
<1>a. ASSUME UNCHANGED <<generation, cycle, queue>>, waiting' \subseteq waiting \cup {cycle},
             t_running' => t_started',
             ~t_started' => t_worker' = "none",
             t_stopper' = "relock" => t_worker' = "none",
             t_stopper' \notin {"idle", "lock"} => ~t_running',
             t_worker' = "ended" => t_stopped'
      PROVE  CycleInv'
  BY <1>a, <1>t DEF CycleInv
<1>1. ASSUME NEW ok \in BOOLEAN, P!Start(ok) PROVE CycleInv'
  <2>1. /\ t_stopper = "idle" /\ ~t_started /\ generation' = generation + 1
        /\ queue' = Append(queue, generation + 1) \/ queue' = queue
        /\ t_running' = ok /\ t_started' = ok /\ t_stopped' = ~ok
        /\ t_worker' = IF ok THEN "idle" ELSE "none"
        /\ waiting' = waiting /\ cycle' = cycle /\ t_stopper' = t_stopper
    BY <1>1 DEF P!Start
  <2>2. queue' \in Seq(Nat) /\ \A k \in DOMAIN queue' : queue'[k] <= generation'
    <3>1. CASE queue' = queue
      BY <3>1, <2>1, <1>t
    <3>2. CASE queue' = Append(queue, generation + 1)
      <4>1. /\ queue' \in Seq(Nat) /\ DOMAIN queue = 1 .. Len(queue)
            /\ DOMAIN queue' = 1 .. Len(queue) + 1 /\ Len(queue) \in Nat
            /\ queue'[Len(queue) + 1] = generation + 1
            /\ \A k \in 1 .. Len(queue) : queue'[k] = queue[k]
        BY <3>2, <1>t
      <4>2. \A k \in 1 .. Len(queue) : queue[k] \in Nat /\ queue[k] <= generation
        <5>1. \A k \in DOMAIN queue : queue[k] \in Nat
          BY <1>t
        <5> QED
          BY Zenon, <4>1, <5>1, <1>t
      <4> QED
        BY <4>1, <4>2, <2>1, <1>t
    <3> QED
      BY <3>1, <3>2, <2>1
  <2>3. /\ generation' \in Nat /\ cycle' \in Nat /\ cycle' <= generation'
        /\ waiting' \subseteq Nat /\ \A c \in waiting' : c <= generation'
    BY <2>1, <1>t
  <2>4. /\ t_running' => t_started'
        /\ ~t_started' => t_worker' = "none"
        /\ t_stopper' = "relock" => t_worker' = "none"
        /\ t_stopper' \notin {"idle", "lock"} => ~t_running'
        /\ t_worker' = "ended" => t_stopped'
    BY <2>1
  <2> QED
    BY <2>2, <2>3, <2>4 DEF CycleInv
<1>2. CASE P!Stop
  BY <1>2, <1>a, <1>t DEF P!Stop, P!schedVars, P!asioVars, P!workVars
<1>3. CASE P!StopLocked
  BY <1>3, <1>a, <1>t DEF P!StopLocked, P!asioVars, P!workVars
<1>4. CASE P!StopContext
  BY <1>4, <1>a, <1>t DEF P!StopContext, P!schedVars, P!workVars
<1>5. CASE P!StopJoin
  BY <1>5, <1>a, <1>t DEF P!StopJoin, P!schedVars
<1>6. CASE P!StopDone
  BY <1>6, <1>a, <1>t DEF P!StopDone, P!asioVars, P!workVars
<1>7. ASSUME NEW c \in waiting, P!Expire(c) PROVE CycleInv'
  <2>1. /\ waiting' = waiting \ {c} /\ queue' = Append(queue, c)
        /\ t_running' = t_running /\ t_started' = t_started /\ generation' = generation
        /\ t_stopped' = t_stopped /\ t_worker' = t_worker /\ cycle' = cycle
        /\ t_stopper' = t_stopper
    BY <1>7 DEF P!Expire, P!schedVars, P!workVars
  <2>2. queue' \in Seq(Nat) /\ \A k \in DOMAIN queue' : queue'[k] <= generation'
    BY <2>1, <1>t
  <2> QED
    BY <2>1, <2>2, <1>t DEF CycleInv
<1>8. CASE P!TakeSweep
  <2>1. /\ t_worker = "idle" /\ t_worker' = "lock" /\ queue # <<>>
        /\ cycle' = Head(queue) /\ queue' = Tail(queue)
        /\ t_running' = t_running /\ t_started' = t_started /\ generation' = generation
        /\ t_stopped' = t_stopped /\ waiting' = waiting /\ t_stopper' = t_stopper
    BY <1>8 DEF P!TakeSweep, P!schedVars
  <2>2. /\ queue' \in Seq(Nat) /\ cycle' \in Nat /\ cycle' <= generation
        /\ \A k \in DOMAIN queue' : queue'[k] <= generation
    BY <2>1, <1>t
  <2> QED
    BY <2>1, <2>2, <1>t DEF CycleInv
<1>9. CASE P!SweepBegins
  BY <1>9, <1>a, <1>t DEF P!SweepBegins, P!schedVars, P!asioVars
<1>10. CASE P!SweepNext
  BY <1>10, <1>a, <1>t DEF P!SweepNext, P!schedVars, P!asioVars
<1>11. CASE P!SweepEnds
  BY <1>11, <1>a, <1>t DEF P!SweepEnds, P!schedVars
<1>12. CASE P!SweepFails
  BY <1>12, <1>a, <1>t DEF P!SweepFails, P!schedVars
<1>13. CASE P!WorkerEnds
  BY <1>13, <1>a, <1>t DEF P!WorkerEnds, P!schedVars, P!asioVars
<1>14. ASSUME NEW d \in Client, P!Begin(d) \/ P!Add(d) \/ P!RemoveTask(d) PROVE CycleInv'
  <2>1. UNCHANGED <<P!schedVars, P!asioVars, P!workVars, t_stopper>>
    BY Zenon, <1>14 DEF P!Begin, P!Add, P!RemoveTask
  <2> QED
    BY <2>1, <1>a, <1>t DEF P!schedVars, P!asioVars, P!workVars
<1> QED
  BY Zenon, <1>1, <1>2, <1>3, <1>4, <1>5, <1>6, <1>7, <1>8, <1>9, <1>10, <1>11, <1>12,
     <1>13, <1>14 DEF P!Next, P!Worker

\* The place of the sweep of the current cycle.
LEMMA SweepPlaceStep ==
  ASSUME CycleInv, TodoInv, SweepPlace, P!Next
  PROVE  SweepPlace'
<1> USE DEF SweepPlace, Sweeping
<1>t. /\ generation \in Nat /\ cycle \in Nat /\ cycle <= generation
      /\ queue \in Seq(Nat) /\ \A k \in DOMAIN queue : queue[k] <= generation
      /\ waiting \subseteq Nat /\ \A c \in waiting : c <= generation
      /\ ~t_started => t_worker = "none"
      /\ t_stopper \notin {"idle", "lock"} => ~t_running
      /\ t_worker = "ended" => t_stopped
      /\ DOMAIN queue = 1 .. Len(queue) /\ Len(queue) \in Nat
  BY DEF CycleInv
<1>1. ASSUME NEW ok \in BOOLEAN, P!Start(ok) PROVE SweepPlace'
  <2>1. /\ ~t_started /\ generation' = generation + 1
        /\ queue' = Append(queue, generation + 1) \/ ~ok
        /\ t_running' = ok /\ waiting' = waiting
        /\ t_worker' = IF ok THEN "idle" ELSE "none"
    BY <1>1 DEF P!Start
  <2>2. CASE ok
    <3>1. /\ DOMAIN queue' = 1 .. Len(queue) + 1
          /\ queue'[Len(queue) + 1] = generation + 1
          /\ \A k \in 1 .. Len(queue) : queue'[k] = queue[k]
      BY <2>1, <2>2, <1>t
    <3>2. \A j \in DOMAIN queue' : queue'[j] = generation' => j = Len(queue) + 1
      BY <3>1, <2>1, <1>t
    <3>3. generation' \notin waiting'
      BY <2>1, <1>t
    <3> QED
      BY <3>1, <3>2, <3>3, <2>1, <2>2, <1>t
  <2> QED
    BY <2>1, <2>2
<1>a. ASSUME UNCHANGED <<generation, cycle, queue, waiting, t_worker>>,
             t_running' /\ ~t_stopped' => t_running /\ ~t_stopped
      PROVE  SweepPlace'
  BY <1>a
<1>2. CASE P!Stop
  BY <1>2, <1>a DEF P!Stop, P!schedVars, P!asioVars, P!workVars
<1>11. CASE P!StopLocked
  BY <1>11, <1>a DEF P!StopLocked, P!asioVars, P!workVars
<1>12. CASE P!StopContext
  BY <1>12 DEF P!StopContext
<1>13. CASE P!StopDone
  BY <1>13, <1>a DEF P!StopDone, P!asioVars, P!workVars
<1>3. CASE P!StopJoin
  BY <1>3, <1>t DEF P!StopJoin, P!schedVars
<1>4. ASSUME NEW c \in waiting, P!Expire(c) PROVE SweepPlace'
  <2>1. /\ t_worker = "idle" /\ waiting' = waiting \ {c} /\ queue' = Append(queue, c)
        /\ UNCHANGED <<t_running, generation, t_stopped, t_worker, cycle>>
    BY <1>4 DEF P!Expire, P!schedVars, P!workVars
  <2>2. /\ DOMAIN queue' = 1 .. Len(queue) + 1
        /\ queue'[Len(queue) + 1] = c
        /\ \A k \in 1 .. Len(queue) : queue'[k] = queue[k]
    BY <2>1, <1>t
  <2>3. CASE c = generation
    <3>1. t_running /\ ~t_stopped => \A k \in DOMAIN queue : queue[k] # generation
      BY <2>3
    <3> QED
      BY <3>1, <2>1, <2>2, <2>3, <1>t
  <2>4. CASE c # generation
    <3>1. ASSUME NEW k \in DOMAIN queue, queue[k] = generation,
                 \A j \in DOMAIN queue : queue[j] = generation => j = k
          PROVE  k \in DOMAIN queue' /\ queue'[k] = generation'
                 /\ \A j \in DOMAIN queue' : queue'[j] = generation' => j = k
      BY <3>1, <2>1, <2>2, <2>4, <1>t
    <3>2. ASSUME \A k \in DOMAIN queue : queue[k] # generation
          PROVE  \A k \in DOMAIN queue' : queue'[k] # generation'
      BY <3>2, <2>1, <2>2, <2>4, <1>t
    <3> QED
      BY <3>1, <3>2, <2>1, <2>4
  <2> QED
    BY <2>3, <2>4
<1>5. CASE P!TakeSweep
  <2>1. /\ t_worker = "idle" /\ t_worker' = "lock" /\ queue # <<>>
        /\ cycle' = Head(queue) /\ queue' = Tail(queue)
        /\ UNCHANGED <<t_running, generation, t_stopped, waiting>>
    BY <1>5 DEF P!TakeSweep, P!schedVars
  <2>2. /\ DOMAIN queue' = 1 .. Len(queue) - 1 /\ 1 \in DOMAIN queue /\ cycle' = queue[1]
        /\ \A k \in 1 .. Len(queue) - 1 : queue'[k] = queue[k + 1]
    BY <2>1, <1>t
  <2>3. CASE queue[1] = generation
    <3>1. ASSUME NEW k \in DOMAIN queue,
                 \A j \in DOMAIN queue : queue[j] = generation => j = k
          PROVE  \A j \in DOMAIN queue' : queue'[j] # generation'
      <4>1. k = 1
        BY <3>1, <2>2, <2>3
      <4>2. \A j \in DOMAIN queue' : j + 1 \in DOMAIN queue /\ j + 1 # 1
        BY <2>2, <1>t
      <4> QED
        BY <3>1, <4>1, <4>2, <2>1, <2>2
    <3> QED
      BY <3>1, <2>1, <2>2, <2>3
  <2>4. CASE queue[1] # generation
    <3>1. ASSUME NEW k \in DOMAIN queue, queue[k] = generation,
                 \A j \in DOMAIN queue : queue[j] = generation => j = k
          PROVE  /\ k - 1 \in DOMAIN queue' /\ queue'[k - 1] = generation'
                 /\ \A j \in DOMAIN queue' : queue'[j] = generation' => j = k - 1
      <4>1. k \in 2 .. Len(queue)
        BY <3>1, <2>4, <1>t
      <4>2. k - 1 \in DOMAIN queue' /\ queue'[k - 1] = generation'
        BY <3>1, <4>1, <2>1, <2>2, <1>t
      <4>3. ASSUME NEW j \in DOMAIN queue', queue'[j] = generation' PROVE j = k - 1
        <5>1. j + 1 \in DOMAIN queue /\ queue[j + 1] = generation /\ j \in Nat
          BY <4>3, <2>1, <2>2, <1>t
        <5>2. j + 1 = k
          BY <5>1, <3>1
        <5> QED
          BY <5>1, <5>2
      <4> QED
        BY <4>2, <4>3
    <3>2. ASSUME \A k \in DOMAIN queue : queue[k] # generation
          PROVE  \A k \in DOMAIN queue' : queue'[k] # generation'
      BY <3>2, <2>1, <2>2, <1>t
    <3> QED
      BY <3>1, <3>2, <2>1, <2>2, <2>4
  <2> QED
    BY <2>3, <2>4
<1>6. CASE P!SweepBegins
  BY <1>6 DEF P!SweepBegins, P!Outdated, P!schedVars, P!asioVars
<1>7. CASE P!SweepNext
  BY <1>7 DEF P!SweepNext, P!schedVars, P!asioVars
<1>8. CASE P!SweepEnds
  BY <1>8 DEF P!SweepEnds, P!schedVars, TodoInv
<1>9. CASE P!SweepFails \/ P!WorkerEnds
  BY <1>9 DEF P!SweepFails, P!WorkerEnds, P!schedVars, P!asioVars
<1>10. ASSUME NEW d \in Client, P!Begin(d) \/ P!Add(d) \/ P!RemoveTask(d) PROVE SweepPlace'
  <2>1. UNCHANGED <<P!schedVars, P!asioVars, P!workVars>>
    BY Zenon, <1>10 DEF P!Begin, P!Add, P!RemoveTask
  <2> QED
    BY <2>1, <1>a DEF P!schedVars, P!asioVars, P!workVars
<1> QED
  BY Zenon, <1>1, <1>2, <1>3, <1>4, <1>5, <1>6, <1>7, <1>8, <1>9, <1>10, <1>11, <1>12,
     <1>13 DEF P!Next, P!Worker

\* A step of the periodic tasks.
LEMMA PtaskStepInv == PtaskInv /\ P!Next => PtaskInv'
  BY Zenon, TasksStep, TodoStep, CycleStep, SweepPlaceStep DEF PtaskInv

\* The invariant is made of these variables only.
LEMMA PtaskRests == PtaskInv /\ UNCHANGED taskVars => PtaskInv'
<1> SUFFICES ASSUME PtaskInv, UNCHANGED taskVars PROVE PtaskInv'
  OBVIOUS
<1>1. UNCHANGED <<t_running, t_started, generation, next_id, tasks, t_stopped, queue,
                  waiting, t_worker, cycle, todo, t_stopper, t_call, id>>
  BY Zenon DEF taskVars
<1>2. TasksInv'
  BY <1>1 DEF PtaskInv, TasksInv
<1>3. TodoInv'
  BY <1>1 DEF PtaskInv, TodoInv
<1>4. CycleInv'
  BY <1>1 DEF PtaskInv, CycleInv
<1>5. SweepPlace'
  BY <1>1 DEF PtaskInv, SweepPlace, Sweeping
<1> QED
  BY Zenon, <1>2, <1>3, <1>4, <1>5 DEF PtaskInv

\* What it says of the sweeps.
LEMMA PtaskSafe == PtaskInv => P!SweepOwned /\ P!OneSweep
<1> SUFFICES ASSUME PtaskInv PROVE P!SweepOwned /\ P!OneSweep
  OBVIOUS
<1>1. P!SweepOwned
  BY DEF PtaskInv, TodoInv, P!SweepOwned
<1> DEFINE queued == {k \in DOMAIN queue : queue[k] = generation}
<1>2. ASSUME NEW k \in DOMAIN queue, queue[k] = generation,
             \A j \in DOMAIN queue : queue[j] = generation => j = k
      PROVE  Cardinality(queued) = 1
  <2>1. queued = {k}
    BY <1>2
  <2> QED
    BY <2>1, FS_Singleton
<1>3. ASSUME \A k \in DOMAIN queue : queue[k] # generation
      PROVE  Cardinality(queued) = 0
  <2>1. queued = {}
    BY <1>3
  <2> QED
    BY <2>1, FS_EmptySet
<1>4. t_running /\ ~t_stopped =>
        Cardinality(queued) + (IF generation \in waiting THEN 1 ELSE 0)
          + (IF t_worker \in {"lock", "sweep"} /\ cycle = generation THEN 1 ELSE 0) = 1
  <2> HIDE DEF queued
  <2> QED
    BY <1>2, <1>3 DEF PtaskInv, SweepPlace, Sweeping
<1>5. P!OneSweep
  <2>1. P!Cardinality(queued) = Cardinality(queued)
    BY DEF P!Cardinality, Cardinality, P!IsFiniteSet, IsFiniteSet
  <2> QED
    BY <1>4, <2>1 DEF P!OneSweep
<1> QED
  BY <1>1, <1>5

-----------------------------------------------------------------------------
(* The receivers of UDP NIOs.                                              *)

\* A caller works on a NIO its client uses, and nobody else uses.
CallsInv ==
  /\ pc \in [Client -> {"idle", "lock", "unlock", "mutex", "done"}]
  /\ call = [c \in Client |-> call[c]]
  /\ uses \in [Client -> [Nio -> Nat]]
  /\ \A c \in Client : pc[c] # "idle" => /\ call[c].op \in {"add", "remove"}
                                         /\ call[c].nio \in Nio
                                         /\ uses[c][call[c].nio] > 0
  /\ \A c, d \in Client, n \in Nio : uses[c][n] > 0 /\ uses[d][n] > 0 => c = d

\* A use that the map does not count: before an addition, after a removal.
Uncounted(c, n) ==
  /\ call[c].nio = n
  /\ \/ call[c].op = "add" /\ pc[c] \in {"lock", "unlock", "mutex"}
     \/ call[c].op = "remove" /\ pc[c] = "done"

\* The references of a listener in the map are uses of its owner.
Counted(l, n) ==
  /\ l \in Listener /\ endpoint[l] = n /\ owner[l] \in Client /\ references[l] > 0
  /\ references[l] + (IF Uncounted(owner[l], n) THEN 1 ELSE 0) <= uses[owner[l]][n]

\* The map and the listeners that were not cancelled.
MapInv ==
  /\ listeners \in [Nio -> 0..MaxListener]
  /\ endpoint = [l \in Listener |-> endpoint[l]] /\ owner = [l \in Listener |-> owner[l]]
  /\ references \in [Listener -> Nat]
  /\ \A n \in Nio : listeners[n] # 0 => Counted(listeners[n], n)
  /\ active \subseteq Listener
  /\ \A l \in active : endpoint[l] \in Nio /\ listeners[endpoint[l]] = l

\* Receive operations: a listener has one at most.
QueueInv ==
  /\ receive \in [waiting : SUBSET Listener, ready : Seq(Listener)]
  /\ \A i, j \in DOMAIN receive.ready : receive.ready[i] = receive.ready[j] => i = j
  /\ \A i \in DOMAIN receive.ready : receive.ready[i] \notin receive.waiting

\* The worker has a listener, which has no operation then, or has none.
Busy == worker \in {"taken", "dispatch", "locked", "next"}

BusyInv ==
  /\ worker \in {"none", "idle", "taken", "dispatch", "locked", "next", "ended"}
  /\ Busy => current \in Listener /\ current \notin Receiving
  /\ ~Busy => current = 0
  /\ worker \in {"dispatch", "locked", "next"} => current \in active
  /\ \A l \in active : l \in Receiving \/ (current = l /\ Busy)
  /\ ~started => worker = "none"

UdpInv == CallsInv /\ MapInv /\ QueueInv /\ BusyInv

\* At the start.
LEMMA UdpInit == Init => UdpInv
<1> SUFFICES ASSUME Init PROVE UdpInv
  OBVIOUS
<1>1. CallsInv
  BY DEF Init, CallsInv
<1>2. MapInv
  <2>1. \A n \in Nio : listeners[n] = 0
    BY DEF Init
  <2>2. /\ listeners \in [Nio -> 0..MaxListener] /\ references \in [Listener -> Nat]
        /\ active = {}
    BY UdpAssumption DEF Init
  <2>3. endpoint = [l \in Listener |-> endpoint[l]] /\ owner = [l \in Listener |-> owner[l]]
    BY DEF Init
  <2> QED
    BY <2>1, <2>2, <2>3 DEF MapInv
<1>3. QueueInv
  BY DEF Init, QueueInv
<1>4. BusyInv
  BY DEF Init, BusyInv, Busy
<1> QED
  BY Zenon, <1>1, <1>2, <1>3, <1>4 DEF UdpInv

\* Steps that leave the map and the cancellations alone.
LEMMA MapKept ==
  ASSUME MapInv, UNCHANGED listVars,
         \A l, n : n \in Nio /\ Counted(l, n) => Counted(l, n)'
  PROVE  MapInv'
  BY DEF MapInv, listVars

\* Steps of callers that leave the worker alone.
LEMMA BusyKept ==
  ASSUME BusyInv, UNCHANGED <<receive, workVars, ctlVars>>, active' = active
  PROVE  BusyInv'
<1>1. Receiving' = Receiving
  BY DEF Receiving
<1> QED
  BY <1>1 DEF BusyInv, Busy, workVars, ctlVars

\* A caller begins.
LEMMA UdpBegin ==
  ASSUME UdpInv, NEW c \in Client, NEW op \in {"add", "remove"}, NEW n \in Nio, Begin(c, op, n)
  PROVE  UdpInv'
<1>u. CallsInv /\ MapInv /\ QueueInv /\ BusyInv
  BY Zenon DEF UdpInv
<1>0. /\ pc[c] = "idle" /\ pc' = [pc EXCEPT ![c] = Entry(c)] /\ Entry(c) \in {"lock", "mutex"}
      /\ call' = [call EXCEPT ![c] = [op |-> op, nio |-> n]]
      /\ \/ /\ op = "add" /\ \A d \in Client \ {c} : uses[d][n] = 0
            /\ uses' = [uses EXCEPT ![c][n] = @ + 1]
         \/ op = "remove" /\ uses[c][n] > 0 /\ uses' = uses
      /\ UNCHANGED <<listVars, receive, workVars, ctlVars>>
  BY DEF Begin, At, Entry
<1>c. /\ \A d \in Client : d # c => pc'[d] = pc[d] /\ call'[d] = call[d] /\ uses'[d] = uses[d]
      /\ pc'[c] \in {"lock", "mutex"} /\ call'[c].op = op /\ call'[c].nio = n
      /\ uses' \in [Client -> [Nio -> Nat]]
      /\ \A m \in Nio : m # n => uses'[c][m] = uses[c][m]
      /\ uses'[c][n] > 0
      /\ uses'[c][n] = uses[c][n] + (IF op = "add" THEN 1 ELSE 0)
  BY <1>0, <1>u DEF CallsInv
<1>1. CallsInv'
  <2>1. \A d, e \in Client, m \in Nio : uses'[d][m] > 0 /\ uses'[e][m] > 0 => d = e
    <3>1. \A d \in Client, m \in Nio : uses[d][m] \in Nat
      BY <1>u DEF CallsInv
    <3>2. \A d \in Client, m \in Nio : uses'[d][m] > 0 => uses[d][m] > 0 \/ (d = c /\ m = n)
      BY <1>c, <3>1
    <3>3. (\A d \in Client : uses[d][n] > 0 => d = c)
      BY <1>0, <3>1, <1>u DEF CallsInv
    <3> QED
      BY <3>2, <3>3, <1>u DEF CallsInv
  <2>2. /\ pc' \in [Client -> {"idle", "lock", "unlock", "mutex", "done"}]
        /\ call' = [d \in Client |-> call'[d]]
    BY <1>0, <1>u DEF CallsInv
  <2>3. \A d \in Client : pc'[d] # "idle" => /\ call'[d].op \in {"add", "remove"}
                                             /\ call'[d].nio \in Nio
                                             /\ uses'[d][call'[d].nio] > 0
    BY <1>c, <1>u DEF CallsInv
  <2> QED
    BY <2>1, <2>2, <2>3, <1>c DEF CallsInv
<1>2. MapInv'
  <2>1. ASSUME NEW l, NEW m \in Nio, Counted(l, m) PROVE Counted(l, m)'
    <3>1. UNCHANGED <<endpoint, owner, references>>
      BY <1>0 DEF listVars
    <3>2. CASE owner[l] # c
      BY <3>1, <3>2, <2>1, <1>c DEF Counted, Uncounted
    <3>3. CASE owner[l] = c /\ m # n
      <4>1. uses'[c][m] = uses[c][m]
        BY <1>c, <3>3
      <4>2. ~Uncounted(c, m)'
        BY <1>c, <3>3 DEF Uncounted
      <4>3. uses[c][m] \in Nat /\ references[l] \in Nat
        BY <2>1, <3>3, <1>u DEF Counted, CallsInv, MapInv
      <4> QED
        BY <4>1, <4>2, <4>3, <3>1, <3>3, <2>1 DEF Counted
    <3>4. CASE owner[l] = c /\ m = n
      <4>1. ~Uncounted(c, n)
        BY <1>0 DEF Uncounted
      <4>2. Uncounted(c, n)' <=> op = "add"
        BY <1>c DEF Uncounted
      <4>3. uses[c][n] \in Nat
        BY <1>u DEF CallsInv
      <4>4. references[l] \in Nat
        BY <2>1, <1>u DEF Counted, MapInv
      <4> QED
        BY <4>1, <4>2, <4>3, <4>4, <3>1, <3>4, <2>1, <1>c DEF Counted
    <3> QED
      BY <3>2, <3>3, <3>4
  <2> QED
    BY Zenon, <2>1, <1>0, <1>u, MapKept
<1>3. QueueInv'
  BY <1>0, <1>u DEF QueueInv
<1>4. BusyInv'
  BY <1>0, <1>u, BusyKept DEF listVars
<1> QED
  BY Zenon, <1>1, <1>2, <1>3, <1>4 DEF UdpInv

\* A caller takes or gives up its client's lock.
LEMMA UdpLocks ==
  ASSUME UdpInv, NEW c \in Client, CallerLocks(c) \/ CallerUnlocks(c)
  PROVE  UdpInv'
<1>u. CallsInv /\ MapInv /\ QueueInv /\ BusyInv
  BY Zenon DEF UdpInv
<1>0. /\ pc[c] \in {"lock", "unlock"}
      /\ \E p \in {"unlock", "mutex"} : pc' = [pc EXCEPT ![c] = p]
      /\ UNCHANGED <<call, uses, listVars, receive, workVars, ctlVars>>
  BY DEF CallerLocks, CallerUnlocks, At
<1>c. pc'[c] \in {"unlock", "mutex"} /\ \A d \in Client : d # c => pc'[d] = pc[d]
  BY <1>0, <1>u DEF CallsInv
<1>1. CallsInv'
  BY <1>0, <1>u DEF CallsInv
<1>2. MapInv'
  <2>1. \A d \in Client : \A m : Uncounted(d, m)' <=> Uncounted(d, m)
    BY <1>0, <1>c DEF Uncounted
  <2>2. UNCHANGED <<endpoint, owner, references, uses>>
    BY <1>0 DEF listVars
  <2>3. \A l, m : Counted(l, m) => Counted(l, m)'
    BY <2>1, <2>2 DEF Counted
  <2> QED
    BY Zenon, <2>3, <1>0, <1>u, MapKept
<1>3. QueueInv'
  BY <1>0, <1>u DEF QueueInv
<1>4. BusyInv'
  BY <1>0, <1>u, BusyKept DEF listVars
<1> QED
  BY Zenon, <1>1, <1>2, <1>3, <1>4 DEF UdpInv

\* A call returns.
LEMMA UdpReturn ==
  ASSUME UdpInv, NEW c \in Client, Return(c)
  PROVE  UdpInv'
<1>u. CallsInv /\ MapInv /\ QueueInv /\ BusyInv
  BY Zenon DEF UdpInv
<1> DEFINE n == call[c].nio
<1>0. /\ pc[c] = "done" /\ pc' = [pc EXCEPT ![c] = "idle"]
      /\ uses' = IF call[c].op = "remove" THEN [uses EXCEPT ![c][n] = @ - 1] ELSE uses
      /\ call' = [call EXCEPT ![c] = NoCall]
      /\ UNCHANGED <<listVars, receive, workVars, ctlVars>>
  BY DEF Return, At
<1>n. n \in Nio /\ uses[c][n] > 0 /\ uses[c][n] \in Nat
  BY <1>0, <1>u DEF CallsInv
<1> HIDE DEF n
<1>c. /\ \A d \in Client : d # c => pc'[d] = pc[d] /\ call'[d] = call[d] /\ uses'[d] = uses[d]
      /\ pc'[c] = "idle"
      /\ uses' \in [Client -> [Nio -> Nat]]
      /\ \A m \in Nio : m # n => uses'[c][m] = uses[c][m]
      /\ uses'[c][n] = IF call[c].op = "remove" THEN uses[c][n] - 1 ELSE uses[c][n]
  BY <1>0, <1>n, <1>u DEF CallsInv
<1>1. CallsInv'
  <2>1. \A d \in Client, m \in Nio : uses'[d][m] > 0 => uses[d][m] > 0
    BY <1>c, <1>n
  <2>2. \A d, e \in Client, m \in Nio : uses'[d][m] > 0 /\ uses'[e][m] > 0 => d = e
    BY <2>1, <1>u DEF CallsInv
  <2>3. /\ pc' \in [Client -> {"idle", "lock", "unlock", "mutex", "done"}]
        /\ call' = [d \in Client |-> call'[d]]
    BY <1>0, <1>u DEF CallsInv
  <2>4. \A d \in Client : pc'[d] # "idle" => /\ call'[d].op \in {"add", "remove"}
                                             /\ call'[d].nio \in Nio
                                             /\ uses'[d][call'[d].nio] > 0
    BY <1>c, <1>u DEF CallsInv
  <2> QED
    BY <2>2, <2>3, <2>4, <1>c DEF CallsInv
<1>2. MapInv'
  <2>1. ASSUME NEW l, NEW m \in Nio, Counted(l, m) PROVE Counted(l, m)'
    <3>1. UNCHANGED <<endpoint, owner, references>>
      BY <1>0 DEF listVars
    <3>2. CASE owner[l] # c
      BY <3>1, <3>2, <2>1, <1>c DEF Counted, Uncounted
    <3>3. CASE owner[l] = c
      <4>1. ~Uncounted(c, m)'
        BY <1>c DEF Uncounted
      <4>2. m = n => (Uncounted(c, m) <=> call[c].op = "remove")
        <5>1. call[c].op \in {"add", "remove"}
          BY <1>0, <1>u DEF CallsInv
        <5> QED
          BY <5>1, <1>0 DEF Uncounted, n
      <4>3. uses[c][m] \in Nat /\ references[l] \in Nat
        BY <2>1, <1>u DEF CallsInv, Counted, MapInv
      <4>4. references[l] <= uses'[c][m]
        BY <4>2, <4>3, <3>3, <2>1, <1>c DEF Counted
      <4> QED
        BY <4>1, <4>3, <4>4, <3>1, <3>3, <2>1 DEF Counted
    <3> QED
      BY <3>2, <3>3
  <2>2. UNCHANGED <<listeners, endpoint, owner, references, active>>
    BY <1>0 DEF listVars
  <2> QED
    BY <2>1, <2>2, <1>u DEF MapInv
<1>3. QueueInv'
  BY <1>0, <1>u DEF QueueInv
<1>4. BusyInv'
  BY <1>0, <1>u, BusyKept DEF listVars
<1> QED
  BY Zenon, <1>1, <1>2, <1>3, <1>4 DEF UdpInv

\* What receivers::add does to the callers.
LEMMA CallsSettle ==
  ASSUME CallsInv, NEW c \in Client, pc[c] = "mutex", pc' = [pc EXCEPT ![c] = "done"],
         UNCHANGED <<call, uses>>
  PROVE  /\ CallsInv'
         /\ \A d \in Client : \A m : d # c \/ m # call[c].nio
               => (Uncounted(d, m)' <=> Uncounted(d, m))
         /\ Uncounted(c, call[c].nio) <=> call[c].op = "add"
         /\ Uncounted(c, call[c].nio)' <=> call[c].op = "remove"
<1>1. /\ \A d \in Client : d # c => pc'[d] = pc[d]
      /\ pc'[c] = "done" /\ call[c].op \in {"add", "remove"}
  BY DEF CallsInv
<1>2. CallsInv'
  BY DEF CallsInv
<1>3. \A d \in Client : \A m : d # c \/ m # call[c].nio
        => (Uncounted(d, m)' <=> Uncounted(d, m))
  BY <1>1 DEF Uncounted
<1>4. Uncounted(c, call[c].nio) <=> call[c].op = "add"
  BY <1>1 DEF Uncounted
<1>5. Uncounted(c, call[c].nio)' <=> call[c].op = "remove"
  BY <1>1 DEF Uncounted
<1> QED
  BY Zenon, <1>2, <1>3, <1>4, <1>5

\* An addition.
LEMMA UdpAdd ==
  ASSUME UdpInv, NEW c \in Client, Add(c)
  PROVE  UdpInv'
<1>u. CallsInv /\ MapInv /\ QueueInv /\ BusyInv
  BY Zenon DEF UdpInv
<1>n. PICK n \in Nio : n = call[c].nio /\ uses[c][n] \in Nat /\ uses[c][n] > 0
  BY <1>u DEF Add, At, CallsInv
<1>0. /\ call[c].op = "add" /\ pc[c] = "mutex" /\ pc' = [pc EXCEPT ![c] = "done"]
      /\ call' = call /\ uses' = uses /\ workVars' = workVars /\ ctlVars' = ctlVars
  BY DEF Add, At
<1>1. CallsInv'
  BY Zenon, <1>0, <1>u, CallsSettle
<1>s. /\ \A d \in Client, m \in Nio : d # c \/ m # n => (Uncounted(d, m)' <=> Uncounted(d, m))
      /\ Uncounted(c, n) /\ ~Uncounted(c, n)'
  <2>1. "add" # "remove"
    OBVIOUS
  <2> QED
    BY Zenon, <2>1, <1>0, <1>n, <1>u, CallsSettle
<1>t. \A d \in Client, m \in Nio : uses[d][m] \in Nat /\ uses'[d][m] = uses[d][m]
  BY <1>0, <1>u DEF CallsInv
<1>k. \A l, m : m \in Nio /\ Counted(l, m) /\ endpoint'[l] = endpoint[l] /\ owner'[l] = owner[l]
        /\ (\/ references'[l] = references[l]
            \/ owner[l] = c /\ m = n /\ references'[l] = references[l] + 1)
        => Counted(l, m)'
  <2> SUFFICES ASSUME NEW l, NEW m \in Nio, Counted(l, m), endpoint'[l] = endpoint[l],
                      owner'[l] = owner[l],
                      \/ references'[l] = references[l]
                      \/ owner[l] = c /\ m = n /\ references'[l] = references[l] + 1
               PROVE  Counted(l, m)'
    OBVIOUS
  <2>1. /\ l \in Listener /\ endpoint[l] = m /\ owner[l] \in Client /\ references[l] \in Nat \ {0}
        /\ references[l] + (IF Uncounted(owner[l], m) THEN 1 ELSE 0) <= uses[owner[l]][m]
    BY <1>u DEF Counted, MapInv
  <2>2. CASE owner[l] = c /\ m = n
    BY <2>1, <2>2, <1>s, <1>t DEF Counted
  <2>3. CASE ~(owner[l] = c /\ m = n)
    BY <2>1, <2>3, <1>s, <1>t DEF Counted
  <2> QED
    BY <2>2, <2>3
<1>2. CASE UNCHANGED <<listVars, receive>>
  <2>1. MapInv'
    <3>1. \A l, m : m \in Nio /\ Counted(l, m) => Counted(l, m)'
      BY <1>k, <1>2 DEF listVars
    <3> QED
      BY Zenon, <3>1, <1>2, <1>u, MapKept
  <2>2. QueueInv'
    BY <1>2, <1>u DEF QueueInv
  <2>3. BusyInv'
    BY <1>0, <1>2, <1>u, BusyKept DEF listVars
  <2> QED
    BY Zenon, <1>1, <2>1, <2>2, <2>3 DEF UdpInv
<1>3. ASSUME NEW l, l = listeners[n], l # 0, l \in active,
             references' = [references EXCEPT ![l] = @ + 1],
             UNCHANGED <<listeners, endpoint, owner, active, receive>>
      PROVE  UdpInv'
  <2>1. Counted(l, n) /\ references[l] \in Nat
    BY <1>3, <1>u DEF MapInv
  <2>2. owner[l] = c
    <3>1. owner[l] \in Client /\ uses[owner[l]][n] > 0
      BY <2>1, <1>t DEF Counted
    <3> QED
      BY <3>1, <1>n, <1>u DEF CallsInv
  <2>3. MapInv'
    <3>1. /\ references' \in [Listener -> Nat] /\ references'[l] = references[l] + 1
          /\ \A k \in Listener : k # l => references'[k] = references[k]
      BY <1>3, <2>1, <1>u DEF MapInv, Counted
    <3>2. \A m \in Nio : listeners[m] # 0 => Counted(listeners[m], m)'
      <4> SUFFICES ASSUME NEW m \in Nio, listeners[m] # 0 PROVE Counted(listeners[m], m)'
        OBVIOUS
      <4>0. PICK k : k = listeners[m]
        OBVIOUS
      <4>1. Counted(k, m) /\ k \in Listener /\ endpoint[k] = m
        BY <4>0, <1>u DEF MapInv, Counted
      <4>2. \/ references'[k] = references[k]
            \/ owner[k] = c /\ m = n /\ references'[k] = references[k] + 1
        BY <4>1, <3>1, <2>1, <2>2 DEF Counted
      <4>3. Counted(k, m)'
        BY <4>1, <4>2, <1>k, <1>3
      <4>4. listeners' = listeners
        BY <1>3
      <4> QED
        BY <4>0, <4>3, <4>4
    <3> QED
      BY <3>1, <3>2, <1>3, <1>u DEF MapInv
  <2>4. QueueInv'
    BY <1>3, <1>u DEF QueueInv
  <2>5. BusyInv'
    BY <1>0, <1>3, <1>u, BusyKept
  <2> QED
    BY Zenon, <1>1, <2>3, <2>4, <2>5 DEF UdpInv
<1>4. ASSUME NEW new, new = (CHOOSE k \in Unused : \A j \in Unused : k <= j), Unused # {},
             listeners[n] = 0,
             listeners' = [listeners EXCEPT ![n] = new],
             endpoint' = [endpoint EXCEPT ![new] = n],
             owner' = [owner EXCEPT ![new] = c],
             references' = [references EXCEPT ![new] = 1],
             active' = active \cup {new},
             receive' = [receive EXCEPT !.waiting = @ \cup {new}]
      PROVE  UdpInv'
  <2>1. new \in Unused
    <3>1. Unused \subseteq Nat
      BY DEF Unused, Listener
    <3>2. \E k \in Unused : \A j \in Unused : k <= j
      BY <3>1, <1>4, LeastNat
    <3> QED
      BY <3>2, <1>4
  <2>2. /\ new \in Listener /\ new \notin active /\ new # current /\ new \notin Receiving
        /\ \A m \in Nio : listeners[m] # new
        /\ new # 0 /\ new \in 0..MaxListener
    BY <2>1, UdpAssumption DEF Unused, Listener
  <2>3. /\ listeners'[n] = new /\ \A m \in Nio : m # n => listeners'[m] = listeners[m]
        /\ endpoint'[new] = n /\ owner'[new] = c /\ references'[new] = 1
        /\ \A k \in Listener : k # new => /\ endpoint'[k] = endpoint[k] /\ owner'[k] = owner[k]
                                          /\ references'[k] = references[k]
    BY <1>4, <2>2, <1>u DEF MapInv
  <2>4. MapInv'
    <3>1. /\ listeners' \in [Nio -> 0..MaxListener] /\ references' \in [Listener -> Nat]
          /\ endpoint' = [k \in Listener |-> endpoint'[k]]
          /\ owner' = [k \in Listener |-> owner'[k]]
          /\ active' \subseteq Listener
      BY <1>4, <2>2, <1>u DEF MapInv
    <3>2. Counted(new, n)'
      BY <2>2, <2>3, <1>s, <1>t, <1>n DEF Counted
    <3>3. ASSUME NEW m \in Nio, m # n, listeners[m] # 0 PROVE Counted(listeners[m], m)'
      <4>0. PICK k : k = listeners[m]
        OBVIOUS
      <4>1. Counted(k, m) /\ k \in Listener /\ k # new
        BY <4>0, <3>3, <2>2, <1>u DEF MapInv, Counted
      <4>2. Counted(k, m)'
        BY <4>1, <2>3, <1>k
      <4>3. listeners'[m] = k
        BY <4>0, <3>3, <2>3
      <4> QED
        BY <4>2, <4>3
    <3>4. \A m \in Nio : listeners'[m] # 0 => Counted(listeners[m], m)'
      <4> SUFFICES ASSUME NEW m \in Nio, listeners'[m] # 0 PROVE Counted(listeners[m], m)'
        OBVIOUS
      <4>1. CASE m = n
        BY <4>1, <3>2, <2>3
      <4>2. CASE m # n
        BY <4>2, <3>3, <2>3
      <4> QED
        BY <4>1, <4>2
    <3>5. \A k \in active' : endpoint'[k] \in Nio /\ listeners'[endpoint'[k]] = k
      <4> SUFFICES ASSUME NEW k \in active'
                   PROVE  endpoint'[k] \in Nio /\ listeners'[endpoint'[k]] = k
        OBVIOUS
      <4>1. CASE k = new
        BY <4>1, <2>3
      <4>2. CASE k # new
        <5>1. /\ k \in active /\ k \in Listener /\ endpoint[k] \in Nio
              /\ listeners[endpoint[k]] = k /\ k # 0
          <6>1. k \in active
            BY <4>2, <1>4
          <6>2. k \in Listener /\ endpoint[k] \in Nio /\ listeners[endpoint[k]] = k
            BY <6>1, <1>u DEF MapInv
          <6> QED
            BY <6>1, <6>2 DEF Listener
        <5>2. endpoint[k] # n
          BY <5>1, <1>4
        <5> QED
          BY <5>1, <5>2, <4>2, <2>3
      <4> QED
        BY <4>1, <4>2
    <3> QED
      BY <3>1, <3>4, <3>5 DEF MapInv
  <2>5. /\ receive \in [waiting : SUBSET Listener, ready : Seq(Listener)]
        /\ receive' \in [waiting : SUBSET Listener, ready : Seq(Listener)]
        /\ receive'.waiting = receive.waiting \cup {new} /\ receive'.ready = receive.ready
    BY <1>4, <2>2, <1>u DEF QueueInv
  <2>6. \A i \in DOMAIN receive.ready : receive.ready[i] # new
    BY <2>2 DEF Receiving, Seqs!ToSet
  <2>7. QueueInv'
    BY <2>5, <2>6, <1>u DEF QueueInv
  <2>8. Receiving' = Receiving \cup {new}
    BY <2>5 DEF Receiving
  <2>9. BusyInv'
    <3>1. current' = current /\ worker' = worker /\ started' = started
      BY <1>0 DEF workVars, ctlVars
    <3>2. Busy' <=> Busy
      BY <3>1 DEF Busy
    <3> QED
      BY <3>1, <3>2, <2>2, <2>8, <1>4, <1>u DEF BusyInv
  <2> QED
    BY Zenon, <1>1, <2>4, <2>7, <2>9 DEF UdpInv
<1> QED
  BY <1>2, <1>3, <1>4, <1>n DEF Add

\* Operations that are cancelled are ready in some order.
LEMMA CancelledQueue ==
  ASSUME QueueInv, NEW S, receive' \in Cancelled(S)
  PROVE  /\ QueueInv' /\ Receiving' \subseteq Receiving
         /\ Receiving \ S \subseteq Receiving'
<1> DEFINE T == S \cap receive.waiting
           q == receive.ready
<1>t. /\ receive.waiting \subseteq Listener /\ q \in Seq(Listener)
      /\ \A i, j \in DOMAIN q : q[i] = q[j] => i = j
      /\ \A i \in DOMAIN q : q[i] \notin receive.waiting
  BY DEF QueueInv
<1>1. IsFiniteSet(T) /\ Cardinality(T) \in Nat
  <2>1. IsFiniteSet(Listener)
    BY FS_Interval, UdpAssumption DEF Listener
  <2>2. T \subseteq Listener
    BY <1>t
  <2>3. IsFiniteSet(T)
    BY Zenon, <2>1, <2>2, FS_Subset
  <2> QED
    BY Zenon, <2>3, FS_CardinalityType
<1>2. Seqs!Cardinality(T) = Cardinality(T)
  BY DEF Seqs!Cardinality, Cardinality, Seqs!IsFiniteSet, IsFiniteSet
<1>3. PICK s \in Seqs!SetToSeqs(T) :
        receive' = [waiting |-> receive.waiting \ S, ready |-> q \o s]
  BY DEF Cancelled
<1>4. /\ s \in [1..Cardinality(T) -> T]
      /\ \A i, j \in 1..Cardinality(T) : i # j => s[i] # s[j]
  <2>1. \A i, j \in 1..Seqs!Cardinality(T) : i # j => s[i] # s[j]
    BY Zenon, <1>3 DEF Seqs!SetToSeqs
  <2>2. s \in [1..Seqs!Cardinality(T) -> T]
    BY Zenon, <1>3 DEF Seqs!SetToSeqs
  <2> QED
    BY Zenon, <1>2, <2>1, <2>2
<1> HIDE DEF q
<1>5. s \in Seq(Listener) /\ Len(s) = Cardinality(T) /\ DOMAIN s = 1..Len(s)
  <2>1. s \in [1..Cardinality(T) -> Listener]
    BY <1>4, <1>t
  <2> HIDE DEF T
  <2> QED
    BY <2>1, <1>1
<1>6. receive'.waiting = receive.waiting \ S /\ receive'.ready = q \o s
  BY <1>3
<1>7. /\ q \o s \in Seq(Listener) /\ DOMAIN (q \o s) = 1 .. Len(q) + Len(s)
      /\ DOMAIN q = 1 .. Len(q) /\ Len(q) \in Nat /\ Len(s) \in Nat
      /\ \A i \in 1 .. Len(q) : (q \o s)[i] = q[i]
      /\ \A i \in Len(q) + 1 .. Len(q) + Len(s) : (q \o s)[i] = s[i - Len(q)]
  <2>1. q \in Seq(Listener) /\ s \in Seq(Listener)
    BY Zenon, <1>5, <1>t
  <2>2. /\ q \o s \in Seq(Listener) /\ DOMAIN (q \o s) = 1 .. Len(q) + Len(s)
        /\ \A i \in 1 .. Len(q) : (q \o s)[i] = q[i]
        /\ \A i \in Len(q) + 1 .. Len(q) + Len(s) : (q \o s)[i] = s[i - Len(q)]
    BY Zenon, <2>1, ConcatSeq
  <2>3. DOMAIN q = 1 .. Len(q) /\ Len(q) \in Nat /\ Len(s) \in Nat
    BY <2>1
  <2> QED
    BY Zenon, <2>2, <2>3
<1>8. \A i \in DOMAIN s : s[i] \in S /\ s[i] \in receive.waiting
  BY <1>4, <1>5
<1>9. ASSUME NEW i \in DOMAIN (q \o s)
      PROVE  \/ i \in DOMAIN q /\ (q \o s)[i] = q[i]
             \/ /\ i - Len(q) \in DOMAIN s /\ i \notin DOMAIN q
                /\ (q \o s)[i] = s[i - Len(q)]
  <2>1. CASE i <= Len(q)
    BY <2>1, <1>7
  <2>2. CASE ~(i <= Len(q))
    <3>1. i \in Len(q) + 1 .. Len(q) + Len(s) /\ i - Len(q) \in 1 .. Len(s)
      BY <2>2, <1>7
    <3> QED
      BY <3>1, <2>2, <1>5, <1>7
  <2> QED
    BY <2>1, <2>2
<1> HIDE DEF T
<1>10. QueueInv'
  <2>1. ASSUME NEW i \in DOMAIN (q \o s), NEW j \in DOMAIN (q \o s), (q \o s)[i] = (q \o s)[j]
        PROVE  i = j
    <3>1. i \in Nat /\ j \in Nat
      BY <1>7
    <3>2. CASE i \in DOMAIN q /\ j \in DOMAIN q
      BY <3>2, <2>1, <1>7, <1>t
    <3>3. CASE i \notin DOMAIN q /\ j \notin DOMAIN q
      <4>1. i - Len(q) \in DOMAIN s /\ j - Len(q) \in DOMAIN s /\ s[i - Len(q)] = s[j - Len(q)]
        BY <3>3, <2>1, <1>9
      <4>2. i - Len(q) = j - Len(q)
        BY <4>1, <1>4, <1>5
      <4> QED
        BY <4>2, <3>1, <1>7
    <3>4. CASE i \in DOMAIN q /\ j \notin DOMAIN q
      <4>1. (q \o s)[i] = q[i] /\ q[i] \notin receive.waiting
        BY <3>4, <1>7, <1>t
      <4>2. (q \o s)[j] \in receive.waiting
        BY <3>4, <1>9, <1>8
      <4> QED
        BY <4>1, <4>2, <2>1
    <3>5. CASE i \notin DOMAIN q /\ j \in DOMAIN q
      <4>1. (q \o s)[j] = q[j] /\ q[j] \notin receive.waiting
        BY <3>5, <1>7, <1>t
      <4>2. (q \o s)[i] \in receive.waiting
        BY <3>5, <1>9, <1>8
      <4> QED
        BY <4>1, <4>2, <2>1
    <3> QED
      BY <3>2, <3>3, <3>4, <3>5
  <2>2. ASSUME NEW i \in DOMAIN (q \o s) PROVE (q \o s)[i] \notin receive.waiting \ S
    BY <1>9, <1>8, <1>t
  <2>3. receive' \in [waiting : SUBSET Listener, ready : Seq(Listener)]
    BY <1>3, <1>7, <1>t
  <2> QED
    BY <2>1, <2>2, <2>3, <1>6 DEF QueueInv
<1>11. Receiving' \subseteq Receiving
  <2>1. \A i \in DOMAIN (q \o s) : (q \o s)[i] \in Receiving
    BY <1>9, <1>8 DEF Receiving, Seqs!ToSet, q
  <2> QED
    BY <2>1, <1>6 DEF Receiving, Seqs!ToSet
<1>12. ASSUME NEW l \in Receiving, l \notin S PROVE l \in Receiving'
  <2>1. CASE l \in receive.waiting
    BY <2>1, <1>12, <1>6 DEF Receiving
  <2>2. ASSUME NEW i \in DOMAIN q, l = q[i] PROVE l \in Receiving'
    <3>1. i \in DOMAIN (q \o s) /\ (q \o s)[i] = l
      BY <2>2, <1>7
    <3> QED
      BY <3>1, <1>6 DEF Receiving, Seqs!ToSet
  <2> QED
    BY <2>1, <2>2 DEF Receiving, Seqs!ToSet, q
<1> QED
  BY <1>10, <1>11, <1>12

\* Listeners are cancelled while the worker has none but one it will drop.
LEMMA CancelledBusy ==
  ASSUME QueueInv, BusyInv, NEW S, receive' \in Cancelled(S), active' = active \ S,
         MutexFree, UNCHANGED workVars, started' = started
  PROVE  BusyInv'
<1>1. /\ Receiving' \subseteq Receiving /\ Receiving \ S \subseteq Receiving'
  BY Zenon, CancelledQueue
<1>2. worker \notin {"dispatch", "locked", "next"} /\ worker' = worker /\ current' = current
  BY DEF MutexFree, workVars
<1>3. Busy' <=> Busy
  BY <1>2 DEF Busy
<1>4. \A l \in active' : l \in Receiving' \/ (current' = l /\ Busy')
  BY <1>1, <1>2, <1>3 DEF BusyInv
<1> QED
  BY <1>1, <1>2, <1>3, <1>4 DEF BusyInv

\* A removal.
LEMMA UdpRemove ==
  ASSUME UdpInv, NEW c \in Client, Remove(c)
  PROVE  UdpInv'
<1>u. CallsInv /\ MapInv /\ QueueInv /\ BusyInv
  BY Zenon DEF UdpInv
<1>n. PICK n \in Nio : n = call[c].nio /\ uses[c][n] \in Nat /\ uses[c][n] > 0
  BY <1>u DEF Remove, At, CallsInv
<1>0. /\ call[c].op = "remove" /\ MutexFree /\ pc[c] = "mutex"
      /\ pc' = [pc EXCEPT ![c] = "done"]
      /\ call' = call /\ uses' = uses /\ endpoint' = endpoint /\ owner' = owner
      /\ workVars' = workVars /\ ctlVars' = ctlVars
  BY DEF Remove, At
<1>1. CallsInv'
  BY Zenon, <1>0, <1>u, CallsSettle
<1>s. /\ \A d \in Client, m \in Nio : d # c \/ m # n => (Uncounted(d, m)' <=> Uncounted(d, m))
      /\ ~Uncounted(c, n)
  <2>1. "add" # "remove"
    OBVIOUS
  <2> QED
    BY Zenon, <2>1, <1>0, <1>n, <1>u, CallsSettle
<1>t. \A d \in Client, m \in Nio : uses[d][m] \in Nat /\ uses'[d][m] = uses[d][m]
  BY <1>0, <1>u DEF CallsInv
<1>o. \A l : Counted(l, n) => owner[l] = c
  <2> SUFFICES ASSUME NEW l, Counted(l, n) PROVE owner[l] = c
    OBVIOUS
  <2>1. owner[l] \in Client /\ uses[owner[l]][n] > 0
    BY <1>t, <1>u DEF Counted, MapInv
  <2> QED
    BY <2>1, <1>n, <1>u DEF CallsInv
<1>k. \A l, m : m \in Nio /\ m # n /\ Counted(l, m) /\ references'[l] = references[l]
                  => Counted(l, m)'
  BY <1>0, <1>s, <1>t DEF Counted
<1>2. CASE listeners[n] = 0 /\ UNCHANGED <<listeners, references, active, receive>>
  <2>1. MapInv'
    <3>1. ASSUME NEW m \in Nio, listeners[m] # 0 PROVE Counted(listeners[m], m)'
      <4>0. PICK k : k = listeners[m]
        OBVIOUS
      <4>1. m # n /\ Counted(k, m)
        BY <4>0, <3>1, <1>2, <1>u DEF MapInv
      <4>2. Counted(k, m)' /\ listeners' = listeners
        BY <4>1, <1>2, <1>k
      <4> QED
        BY <4>0, <4>2
    <3> QED
      BY <3>1, <1>0, <1>2, <1>u DEF MapInv
  <2>2. QueueInv'
    BY <1>2, <1>u DEF QueueInv
  <2>3. BusyInv'
    BY <1>0, <1>2, <1>u, BusyKept
  <2> QED
    BY Zenon, <1>1, <2>1, <2>2, <2>3 DEF UdpInv
<1>3. ASSUME NEW l, l = listeners[n], l # 0,
             \/ /\ references[l] > 1 /\ references' = [references EXCEPT ![l] = @ - 1]
                /\ UNCHANGED <<listeners, active, receive>>
             \/ /\ references[l] = 1 /\ references' = [references EXCEPT ![l] = 0]
                /\ listeners' = [listeners EXCEPT ![n] = 0]
                /\ active' = active \ {l} /\ receive' \in Cancelled({l})
      PROVE  UdpInv'
  <2>1. /\ Counted(l, n) /\ references[l] \in Nat /\ l \in Listener /\ endpoint[l] = n
        /\ owner[l] = c /\ references[l] <= uses[c][n]
    <3>1. Counted(l, n)
      BY <1>3, <1>u DEF MapInv
    <3>2. l \in Listener /\ endpoint[l] = n /\ owner[l] = c
      BY <3>1, <1>o DEF Counted
    <3>3. references[l] \in Nat
      BY <3>2, <1>u DEF MapInv
    <3>4. references[l] <= uses[c][n]
      BY <3>1, <3>2, <3>3, <1>s, <1>n DEF Counted
    <3> QED
      BY <3>1, <3>2, <3>3, <3>4
  <2>2. /\ references' \in [Listener -> Nat]
        /\ references'[l] = references[l] - 1
        /\ \A k \in Listener : k # l => references'[k] = references[k]
    BY <1>3, <2>1, <1>u DEF MapInv
  <2>3. ASSUME NEW m \in Nio, m # n, listeners[m] # 0 PROVE Counted(listeners[m], m)'
    <3>0. PICK k : k = listeners[m]
      OBVIOUS
    <3>1. Counted(k, m) /\ k \in Listener /\ k # l
      BY <3>0, <2>3, <2>1, <1>u DEF MapInv, Counted
    <3>2. Counted(k, m)'
      BY <3>1, <2>2, <2>3, <1>k
    <3>3. listeners'[m] = listeners[m]
      BY <1>3, <2>3, <1>u DEF MapInv
    <3> QED
      BY <3>0, <3>2, <3>3
  <2>4. CASE references[l] > 1 /\ UNCHANGED <<listeners, active, receive>>
    <3>1. Counted(l, n)'
      BY <2>1, <2>2, <2>4, <1>0, <1>n, <1>t DEF Counted
    <3>2. \A m \in Nio : listeners'[m] # 0 => Counted(listeners[m], m)'
      BY <2>3, <2>4, <3>1, <1>3
    <3>3. MapInv'
      BY <3>2, <2>2, <2>4, <1>0, <1>u DEF MapInv
    <3>4. QueueInv'
      BY <2>4, <1>u DEF QueueInv
    <3>5. BusyInv'
      BY <1>0, <2>4, <1>u, BusyKept
    <3> QED
      BY Zenon, <1>1, <3>3, <3>4, <3>5 DEF UdpInv
  <2>5. CASE /\ references[l] = 1 /\ listeners' = [listeners EXCEPT ![n] = 0]
             /\ active' = active \ {l} /\ receive' \in Cancelled({l})
    <3>1. /\ listeners'[n] = 0 /\ \A m \in Nio : m # n => listeners'[m] = listeners[m]
          /\ listeners' \in [Nio -> 0..MaxListener]
      BY <2>5, UdpAssumption, <1>u DEF MapInv
    <3>2. \A m \in Nio : listeners'[m] # 0 => Counted(listeners[m], m)'
      BY <3>1, <2>3
    <3>3. \A k \in active' : endpoint[k] \in Nio /\ listeners'[endpoint[k]] = k
      <4> SUFFICES ASSUME NEW k \in active'
                   PROVE  endpoint[k] \in Nio /\ listeners'[endpoint[k]] = k
        OBVIOUS
      <4>1. k \in active /\ k # l /\ endpoint[k] \in Nio /\ listeners[endpoint[k]] = k
        BY <2>5, <1>u DEF MapInv
      <4> QED
        BY <4>1, <3>1, <1>3
    <3>4. MapInv'
      BY <3>1, <3>2, <3>3, <2>2, <2>5, <1>0, <1>u DEF MapInv
    <3>5. QueueInv'
      BY Zenon, <2>5, <1>u, CancelledQueue
    <3>6. BusyInv'
      BY <1>0, <2>5, <1>u, CancelledBusy DEF ctlVars
    <3> QED
      BY Zenon, <1>1, <3>4, <3>5, <3>6 DEF UdpInv
  <2> QED
    BY <2>4, <2>5, <1>3
<1> QED
  BY <1>2, <1>3, <1>n DEF Remove

-----------------------------------------------------------------------------
\* Steps of the worker that leave the map, its counts and the callers alone.
LEMMA WorkerKept ==
  ASSUME UdpInv, UNCHANGED <<callVars, listeners, endpoint, owner, references>>,
         active' \subseteq active, QueueInv', BusyInv'
  PROVE  UdpInv'
<1>u. CallsInv /\ MapInv
  BY Zenon DEF UdpInv
<1>0. call' = call /\ pc' = pc /\ uses' = uses
  BY DEF callVars
<1>1. CallsInv'
  BY <1>0, <1>u DEF CallsInv
<1>2. \A l, n : Counted(l, n) => Counted(l, n)'
  BY <1>0 DEF Counted, Uncounted
<1>3. MapInv'
  <2>1. ASSUME NEW n \in Nio, listeners[n] # 0 PROVE Counted(listeners[n], n)'
    <3>0. PICK k : k = listeners[n]
      OBVIOUS
    <3>1. Counted(k, n)'
      BY <3>0, <2>1, <1>2, <1>u DEF MapInv
    <3>2. listeners' = listeners
      OBVIOUS
    <3> QED
      BY <3>0, <3>1, <3>2
  <2> QED
    BY <2>1, <1>u DEF MapInv
<1> QED
  BY Zenon, <1>1, <1>3 DEF UdpInv

\* A packet or an error arrives.
LEMMA UdpArrive ==
  ASSUME UdpInv, NEW l \in Listener, Arrive(l)
  PROVE  UdpInv'
<1>u. QueueInv /\ BusyInv
  BY Zenon DEF UdpInv
<1> DEFINE q == receive.ready
<1>0. /\ worker = "idle" /\ l \in receive.waiting
      /\ receive' = [waiting |-> receive.waiting \ {l}, ready |-> Append(q, l)]
      /\ UNCHANGED <<callVars, listVars, workVars, ctlVars>>
  BY DEF Arrive, Runs
<1>q. /\ q \in Seq(Listener) /\ receive.waiting \subseteq Listener
      /\ DOMAIN q = 1 .. Len(q) /\ Len(q) \in Nat
      /\ \A i, j \in DOMAIN q : q[i] = q[j] => i = j
      /\ \A i \in DOMAIN q : q[i] \notin receive.waiting
  BY <1>u DEF QueueInv
<1>r. receive'.waiting = receive.waiting \ {l} /\ receive'.ready = Append(q, l)
  BY <1>0
<1> HIDE DEF q
<1>a. /\ Append(q, l) \in Seq(Listener) /\ DOMAIN Append(q, l) = 1 .. Len(q) + 1
      /\ \A i \in 1 .. Len(q) : Append(q, l)[i] = q[i]
      /\ Append(q, l)[Len(q) + 1] = l
  BY <1>q
<1>b. ASSUME NEW i \in DOMAIN Append(q, l)
      PROVE  \/ i \in DOMAIN q /\ Append(q, l)[i] = q[i]
             \/ i = Len(q) + 1 /\ Append(q, l)[i] = l
  BY <1>a, <1>q
<1>1. QueueInv'
  <2>1. receive' \in [waiting : SUBSET Listener, ready : Seq(Listener)]
    BY <1>0, <1>a, <1>q DEF q
  <2>2. ASSUME NEW i \in DOMAIN Append(q, l), NEW j \in DOMAIN Append(q, l),
               Append(q, l)[i] = Append(q, l)[j]
        PROVE  i = j
    BY <2>2, <1>b, <1>q, <1>0
  <2>3. ASSUME NEW i \in DOMAIN Append(q, l)
        PROVE  Append(q, l)[i] \notin receive.waiting \ {l}
    BY <1>b, <1>q
  <2> QED
    BY <2>1, <2>2, <2>3, <1>r DEF QueueInv
<1>2. Receiving \subseteq Receiving'
  <2>1. receive.waiting \subseteq Receiving'
    <3>1. l \in Receiving'
      <4>1. Len(q) + 1 \in DOMAIN Append(q, l)
        BY <1>a, <1>q
      <4> QED
        BY <4>1, <1>a, <1>r DEF Receiving, Seqs!ToSet
    <3> QED
      BY <3>1, <1>r DEF Receiving
  <2>2. ASSUME NEW i \in DOMAIN q PROVE q[i] \in Receiving'
    <3>1. i \in DOMAIN Append(q, l) /\ Append(q, l)[i] = q[i]
      BY <1>a, <1>q
    <3> QED
      BY <3>1, <1>r DEF Receiving, Seqs!ToSet
  <2> QED
    BY <2>1, <2>2 DEF Receiving, Seqs!ToSet, q
<1>3. BusyInv'
  <2>1. worker' = worker /\ current' = current /\ started' = started /\ active' = active
    BY <1>0 DEF workVars, ctlVars, listVars
  <2>2. ~Busy /\ ~Busy'
    BY <2>1, <1>0 DEF Busy
  <2> QED
    BY <2>1, <2>2, <1>0, <1>2, <1>u DEF BusyInv
<1>4. UNCHANGED <<callVars, listeners, endpoint, owner, references>> /\ active' \subseteq active
  BY <1>0 DEF listVars
<1> QED
  BY Zenon, <1>1, <1>3, <1>4, WorkerKept

\* The worker takes the first operation that is done.
LEMMA UdpTake ==
  ASSUME UdpInv, Take
  PROVE  UdpInv'
<1>u. QueueInv /\ BusyInv
  BY Zenon DEF UdpInv
<1> DEFINE q == receive.ready
<1>0. /\ worker = "idle" /\ q # <<>> /\ worker' = "taken" /\ current' = Head(q)
      /\ receive' = [receive EXCEPT !.ready = Tail(@)]
      /\ UNCHANGED <<callVars, listVars, ctlVars>>
  BY DEF Take, Runs
<1>q. /\ q \in Seq(Listener) /\ receive.waiting \subseteq Listener
      /\ DOMAIN q = 1 .. Len(q) /\ Len(q) \in Nat
      /\ \A i, j \in DOMAIN q : q[i] = q[j] => i = j
      /\ \A i \in DOMAIN q : q[i] \notin receive.waiting
  BY <1>u DEF QueueInv
<1>r. receive'.waiting = receive.waiting /\ receive'.ready = Tail(q)
  BY <1>0, <1>u DEF QueueInv
<1>s. receive' \in [waiting : SUBSET Listener, ready : {Tail(q)}]
  BY <1>0, <1>u DEF QueueInv
<1> HIDE DEF q
<1>t. /\ Tail(q) \in Seq(Listener) /\ Head(q) = q[1] /\ 1 \in DOMAIN q
      /\ DOMAIN Tail(q) = 1 .. Len(q) - 1
      /\ \A i \in 1 .. Len(q) - 1 : Tail(q)[i] = q[i + 1]
  BY <1>0, <1>q
<1>1. QueueInv'
  <2>1. receive' \in [waiting : SUBSET Listener, ready : Seq(Listener)]
    BY <1>s, <1>t
  <2>2. ASSUME NEW i \in DOMAIN Tail(q), NEW j \in DOMAIN Tail(q), Tail(q)[i] = Tail(q)[j]
        PROVE  i = j
    <3>1. i + 1 \in DOMAIN q /\ j + 1 \in DOMAIN q /\ q[i + 1] = q[j + 1]
      BY <2>2, <1>t, <1>q
    <3>2. i + 1 = j + 1
      BY <3>1, <1>q
    <3> QED
      BY <3>2, <1>t
  <2>3. ASSUME NEW i \in DOMAIN Tail(q) PROVE Tail(q)[i] \notin receive.waiting
    <3>1. i + 1 \in DOMAIN q /\ Tail(q)[i] = q[i + 1]
      BY <1>t, <1>q
    <3> QED
      BY <3>1, <1>q
  <2> QED
    BY <2>1, <2>2, <2>3, <1>r DEF QueueInv
<1>2. Head(q) \in Listener /\ Head(q) \notin Receiving'
  <2>1. Head(q) \notin receive.waiting /\ Head(q) \in Listener
    BY <1>t, <1>q
  <2>2. ASSUME NEW i \in DOMAIN Tail(q) PROVE Tail(q)[i] # Head(q)
    <3>1. i + 1 \in DOMAIN q /\ Tail(q)[i] = q[i + 1] /\ i + 1 # 1
      BY <1>t, <1>q
    <3> QED
      BY <3>1, <1>t, <1>q
  <2> QED
    BY <2>1, <2>2, <1>r DEF Receiving, Seqs!ToSet
<1>3. ASSUME NEW l \in Receiving PROVE l \in Receiving' \/ l = Head(q)
  <2>1. CASE l \in receive.waiting
    BY <2>1, <1>r DEF Receiving
  <2>2. ASSUME NEW i \in DOMAIN q, l = q[i] PROVE l \in Receiving' \/ l = Head(q)
    <3>1. CASE i = 1
      BY <3>1, <2>2, <1>t
    <3>2. CASE i # 1
      <4>1. i - 1 \in DOMAIN Tail(q) /\ Tail(q)[i - 1] = l
        <5>1. i - 1 \in 1 .. Len(q) - 1 /\ (i - 1) + 1 = i
          BY <3>2, <1>q
        <5> QED
          BY <5>1, <2>2, <1>t
      <4> QED
        BY <4>1, <1>r DEF Receiving, Seqs!ToSet
    <3> QED
      BY <3>1, <3>2
  <2> QED
    BY <2>1, <2>2 DEF Receiving, Seqs!ToSet, q
<1>4. BusyInv'
  <2>1. started' = started /\ active' = active
    BY <1>0 DEF ctlVars, listVars
  <2>2. ~Busy /\ Busy'
    BY <1>0 DEF Busy
  <2> QED
    BY <2>1, <2>2, <1>0, <1>2, <1>3, <1>u DEF BusyInv
<1>5. UNCHANGED <<callVars, listeners, endpoint, owner, references>> /\ active' \subseteq active
  BY <1>0 DEF listVars
<1> QED
  BY Zenon, <1>1, <1>4, <1>5, WorkerKept

\* The worker looks at its listener, and calls its handler.
LEMMA UdpHandles ==
  ASSUME UdpInv, Dispatch \/ HandlerLocks \/ HandlerEnds \/ NextPacket
  PROVE  UdpInv'
<1>u. QueueInv /\ BusyInv
  BY Zenon DEF UdpInv
<1>0. UNCHANGED <<callVars, listVars, receive, ctlVars>>
  BY DEF Dispatch, HandlerLocks, HandlerEnds, NextPacket, workVars
<1>1. /\ Busy
      /\ \/ current \notin active /\ worker' = "idle" /\ current' = 0
         \/ /\ current \in active /\ worker' \in {"dispatch", "locked", "next"}
            /\ current' = current
  <2>1. CASE Dispatch
    BY <2>1 DEF Dispatch, Busy
  <2>2. CASE HandlerLocks
    BY <2>2, <1>u DEF HandlerLocks, Busy, BusyInv
  <2>3. CASE HandlerEnds
    BY <2>3, <1>u DEF HandlerEnds, Busy, BusyInv
  <2>4. CASE NextPacket
    BY <2>4, <1>u DEF NextPacket, Busy, BusyInv
  <2> QED
    BY <2>1, <2>2, <2>3, <2>4
<1>2. QueueInv' /\ Receiving' = Receiving
  BY <1>0, <1>u DEF QueueInv, Receiving
<1>3. active' = active /\ started' = started
  BY <1>0 DEF listVars, ctlVars
<1>4. BusyInv'
  BY <1>1, <1>2, <1>3, <1>u DEF BusyInv, Busy
<1>5. UNCHANGED <<callVars, listeners, endpoint, owner, references>> /\ active' \subseteq active
  BY <1>0 DEF listVars
<1> QED
  BY Zenon, <1>2, <1>4, <1>5, WorkerKept

\* The next receive operation of the listener.
LEMMA UdpRearm ==
  ASSUME UdpInv, Rearm
  PROVE  UdpInv'
<1>u. QueueInv /\ BusyInv
  BY Zenon DEF UdpInv
<1>0. /\ worker = "next" /\ worker' = "idle" /\ current' = 0
      /\ \/ /\ receive' = [receive EXCEPT !.waiting = @ \cup {current}] /\ active' = active
         \/ active' = active \ {current} /\ receive' = receive
      /\ UNCHANGED <<callVars, listeners, endpoint, owner, references, ctlVars>>
  BY DEF Rearm
<1>1. current \in Listener /\ current \notin Receiving
  BY <1>0, <1>u DEF BusyInv, Busy
<1>2. QueueInv' /\ Receiving \subseteq Receiving' /\ (active' = active => current \in Receiving')
  <2>1. CASE /\ receive' = [receive EXCEPT !.waiting = @ \cup {current}] /\ active' = active
    <3>1. /\ receive' \in [waiting : SUBSET Listener, ready : Seq(Listener)]
          /\ receive'.waiting = receive.waiting \cup {current}
          /\ receive'.ready = receive.ready
      BY <2>1, <1>1, <1>u DEF QueueInv
    <3>2. \A i \in DOMAIN receive.ready : receive.ready[i] # current
      BY <1>1 DEF Receiving, Seqs!ToSet
    <3>3. QueueInv'
      BY <3>1, <3>2, <1>u DEF QueueInv
    <3>4. Receiving' = Receiving \cup {current}
      BY <3>1 DEF Receiving
    <3> QED
      BY <3>3, <3>4
  <2>2. CASE active' = active \ {current} /\ receive' = receive
    <3>1. current \in active
      BY <1>0, <1>u DEF BusyInv
    <3>2. active' # active
      BY <2>2, <3>1
    <3>3. QueueInv'
      BY <2>2, <1>u DEF QueueInv
    <3>4. Receiving' = Receiving
      BY <2>2 DEF Receiving
    <3> QED
      BY <3>2, <3>3, <3>4
  <2> QED
    BY <2>1, <2>2, <1>0
<1>3. BusyInv'
  <2>1. started' = started /\ ~Busy'
    BY <1>0 DEF ctlVars, Busy
  <2>2. \A l \in active' : l \in Receiving'
    BY <1>0, <1>2, <1>u DEF BusyInv
  <2> QED
    BY <2>1, <2>2, <1>0, <1>u DEF BusyInv
<1>4. UNCHANGED <<callVars, listeners, endpoint, owner, references>> /\ active' \subseteq active
  BY <1>0
<1> QED
  BY Zenon, <1>2, <1>3, <1>4, WorkerKept

\* The worker begins and ends, and a stopping thread stands in for it.
LEMMA UdpTurns ==
  ASSUME UdpInv, WorkerEnds \/ Start \/ StopJoined \/ StopPolled
  PROVE  UdpInv'
<1>u. QueueInv /\ BusyInv
  BY Zenon DEF UdpInv
<1>0. /\ UNCHANGED <<callVars, listVars, receive, current, burst>>
      /\ worker \in {"none", "idle", "ended"} /\ worker' \in {"none", "idle", "ended"}
      /\ ~started' => worker' = "none"
  <2>1. CASE WorkerEnds
    BY <2>1, <1>u DEF WorkerEnds, BusyInv, ctlVars
  <2>2. CASE Start
    BY <2>2, <1>u DEF Start, BusyInv
  <2>3. CASE StopJoined
    BY <2>3, <1>u DEF StopJoined, BusyInv
  <2>4. CASE StopPolled
    BY <2>4, <1>u DEF StopPolled, BusyInv
  <2> QED
    BY <2>1, <2>2, <2>3, <2>4
<1>2. QueueInv' /\ Receiving' = Receiving
  BY <1>0, <1>u DEF QueueInv, Receiving
<1>3. ~Busy /\ ~Busy' /\ active' = active /\ current' = current
  BY <1>0 DEF Busy, listVars
<1>5. BusyInv'
  BY <1>0, <1>2, <1>3, <1>u DEF BusyInv
<1>6. UNCHANGED <<callVars, listeners, endpoint, owner, references>> /\ active' \subseteq active
  BY <1>0 DEF listVars
<1> QED
  BY Zenon, <1>2, <1>5, <1>6, WorkerKept

\* Every listener of the map is cancelled.
LEMMA UdpStop ==
  ASSUME UdpInv, Stop
  PROVE  UdpInv'
<1>u. CallsInv /\ MapInv /\ QueueInv /\ BusyInv
  BY Zenon DEF UdpInv
<1> DEFINE S == {listeners[n] : n \in Nio}
<1>0. /\ started /\ MutexFree /\ active' = active \ S /\ receive' \in Cancelled(S)
      /\ listeners' = [n \in Nio |-> 0]
      /\ UNCHANGED <<callVars, endpoint, owner, references, workVars, started>>
  BY DEF Stop
<1>1. CallsInv'
  BY <1>0, <1>u DEF CallsInv, callVars
<1>2. active' = {}
  BY <1>0, <1>u DEF MapInv
<1>3. MapInv'
  BY <1>0, <1>2, <1>u, UdpAssumption DEF MapInv
<1> HIDE DEF S
<1>4. QueueInv'
  BY Zenon, <1>0, <1>u, CancelledQueue
<1>5. BusyInv'
  BY Zenon, <1>0, <1>u, CancelledBusy
<1> QED
  BY Zenon, <1>1, <1>3, <1>4, <1>5 DEF UdpInv

\* A step of the receivers, and of something else.
LEMMA UdpStepInv == UdpInv /\ Next => UdpInv'
  BY Zenon, UdpBegin, UdpLocks, UdpAdd, UdpRemove, UdpReturn, UdpArrive, UdpTake, UdpHandles,
     UdpRearm, UdpTurns, UdpStop DEF Next, Caller, Handling

\* The state at rest.
LEMMA UdpRests == UdpInv /\ UNCHANGED vars => UdpInv'
<1> SUFFICES ASSUME UdpInv, UNCHANGED vars PROVE UdpInv'
  OBVIOUS
<1>0. /\ UNCHANGED <<callVars, listeners, endpoint, owner, references>>
      /\ UNCHANGED <<receive, workVars, ctlVars>> /\ active' = active
  BY DEF vars, listVars
<1>1. QueueInv'
  BY <1>0 DEF UdpInv, QueueInv
<1>2. BusyInv'
  BY Zenon, <1>0, BusyKept DEF UdpInv
<1> QED
  BY <1>0, <1>1, <1>2, WorkerKept

\* What the invariant says of handlers and operations.
LEMMA UdpSafe == UdpInv => HandlerOwned /\ OneReceive
<1> SUFFICES ASSUME UdpInv PROVE HandlerOwned /\ OneReceive
  OBVIOUS
<1>u. CallsInv /\ MapInv /\ QueueInv /\ BusyInv
  BY Zenon DEF UdpInv
<1>1. HandlerOwned
  <2> SUFFICES ASSUME worker \in {"dispatch", "locked"}
               PROVE  uses[owner[current]][endpoint[current]] > 0
    BY DEF HandlerOwned
  <2>0. PICK n : n = endpoint[current]
    OBVIOUS
  <2>1. n \in Nio /\ listeners[n] = current /\ current \in Listener
    BY <2>0, <1>u DEF BusyInv, MapInv
  <2>2. Counted(current, n)
    BY <2>1, <1>u DEF MapInv, Listener
  <2>3. /\ owner[current] \in Client /\ references[current] \in Nat \ {0}
        /\ references[current] <= uses[owner[current]][n]
    <3>1. /\ owner[current] \in Client /\ references[current] \in Nat \ {0}
          /\ uses[owner[current]][n] \in Nat
      BY <2>1, <2>2, <1>u DEF Counted, MapInv, CallsInv
    <3> QED
      BY <3>1, <2>2 DEF Counted
  <2>4. uses[owner[current]][n] \in Nat
    BY <2>1, <2>3, <1>u DEF CallsInv
  <2> QED
    BY <2>0, <2>3, <2>4
<1>2. OneReceive
  BY <1>u DEF OneReceive, BusyInv, Busy
<1> QED
  BY <1>1, <1>2

-----------------------------------------------------------------------------
(* The receive listeners of the other NIOs.                                *)

\* A caller works on a NIO its client uses, and nobody else uses.
UsesInv ==
  /\ r_pc \in [Client -> {"idle", "lock", "unlock", "push", "wait", "done"}]
  /\ r_call \in [Client -> {"none", "add", "remove"} \X (RxNio \cup {NoNio})]
  /\ used \in [Client -> SUBSET RxNio]
  /\ \A c \in Client : r_pc[c] # "idle" => /\ r_call[c][1] \in {"add", "remove"}
                                           /\ r_call[c][2] \in used[c]
  /\ \A c, d \in Client : \A n \in used[c] : n \in used[d] => c = d

\* A listener in the list, or about to enter it, is its client's and not freed.
ListInv ==
  /\ listed \subseteq RxNio /\ refs \in [RxNio -> Nat] /\ freed \subseteq RxNio \X Client
  /\ r_owner = [n \in RxNio |-> r_owner[n]]
  /\ add_list \in Seq(RxNio \X Client)
  /\ \A n \in listed : /\ refs[n] = 1 /\ r_owner[n] \in Client
                       /\ n \in used[r_owner[n]] /\ <<n, r_owner[n]>> \notin freed
  /\ \A i \in DOMAIN add_list :
       LET r == add_list[i] IN /\ r_call[r[2]] = <<"add", r[1]>> /\ r_pc[r[2]] = "wait"
                               /\ r[1] \notin listed /\ r \notin freed
  /\ \A i, j \in DOMAIN add_list : add_list[i] = add_list[j] => i = j
  /\ \A c \in Client : r_call[c][1] = "add" /\ r_pc[c] \in {"lock", "unlock", "push"}
                         => r_call[c][2] \notin listed

\* The general thread waits for the end of c's dedicated thread for n.
Joining(n, c) == gen = "join" /\ r_current = n /\ r_owner[n] = c

\* The listener of n is out of the list, and its thread ended or is awaited.
Gone(n, c) == n \notin listed /\ (spec[<<n, c>>] = "none" \/ Joining(n, c))

\* Client c waits until n is removed.
Leaving(c, n) == r_call[c] = <<"remove", n>> /\ r_pc[c] = "wait"

\* The list of removals has g[k] at its head, and g[1] at its end.
Chain(k, g) ==
  /\ g[0] = NoNio /\ remove_head = g[k]
  /\ \A i \in 1..k : /\ g[i] \in RxNio /\ rxl_next[g[i]] = g[i - 1]
                     /\ \E c \in Client : Leaving(c, g[i])
  /\ \A i, j \in 1..k : g[i] = g[j] => i = j
  /\ \A c \in Client, n \in RxNio :
       Leaving(c, n) => (\E i \in 1..k : g[i] = n) \/ Gone(n, c)

\* NIOs wait in the list of removals for their client; the others are gone.
ChainInv ==
  /\ rxl_next \in [RxNio -> RxNio \cup {NoNio}]
  /\ \E k \in Nat, g \in [Nat -> RxNio \cup {NoNio}] : Chain(k, g)

\* A dedicated thread runs for a client that uses the NIO.
ThreadInv ==
  /\ spec \in [RxNio \X Client -> {"none", "check", "handler", "locked"}]
  /\ \A n \in RxNio, c \in Client :
       spec[<<n, c>>] # "none" =>
         /\ n \notin FdNio /\ n \in used[c] /\ <<n, c>> \notin freed
         /\ \/ n \in listed /\ r_owner[n] = c
            \/ \E i \in DOMAIN add_list : add_list[i] = <<n, c>>
            \/ Joining(n, c)
  /\ \A c \in Client, n \in RxNio :
       r_call[c] = <<"remove", n>> /\ r_pc[c] = "done"
         => n \notin listed /\ spec[<<n, c>>] = "none"

\* The general thread works on listeners in the list, or on one it removes.
GenInv ==
  /\ gen \in {"drain", "join", "select", "dispatch", "handler", "locked"}
  /\ ready \subseteq listed
  /\ gen \in {"drain", "join", "select"} => ready = {}
  /\ gen \in {"handler", "locked"} => r_current \in listed
  /\ gen = "join" => /\ r_current \in RxNio \ listed /\ r_owner[r_current] \in Client
                     /\ Leaving(r_owner[r_current], r_current)

RxlInv == UsesInv /\ ListInv /\ ChainInv /\ ThreadInv /\ GenInv

\* At the start.
LEMMA RxlInit == R!Init => RxlInv
<1> SUFFICES ASSUME R!Init PROVE RxlInv
  OBVIOUS
<1>1. UsesInv
  BY DEF R!Init, UsesInv
<1>2. ListInv
  BY DEF R!Init, ListInv
<1>3. ChainInv
  <2> DEFINE g == [i \in Nat |-> NoNio]
  <2>1. Chain(0, g)
    BY DEF R!Init, Chain, Leaving
  <2>2. rxl_next \in [RxNio -> RxNio \cup {NoNio}] /\ g \in [Nat -> RxNio \cup {NoNio}]
    BY DEF R!Init
  <2> QED
    BY <2>1, <2>2 DEF ChainInv
<1>4. ThreadInv
  BY DEF R!Init, ThreadInv, R!Rxl
<1>5. GenInv
  BY DEF R!Init, GenInv
<1> QED
  BY Zenon, <1>1, <1>2, <1>3, <1>4, <1>5 DEF RxlInv

\* Callers that leave the lists alone.
LEMMA ListKept ==
  ASSUME ListInv, UNCHANGED <<listed, refs, r_owner, add_list, freed>>,
         \A n \in listed : n \in used[r_owner[n]] => n \in used'[r_owner[n]],
         \A i \in DOMAIN add_list : /\ r_call'[add_list[i][2]] = r_call[add_list[i][2]]
                                    /\ r_pc'[add_list[i][2]] = r_pc[add_list[i][2]],
         \A d \in Client : r_call'[d][1] = "add" /\ r_pc'[d] \in {"lock", "unlock", "push"}
                             => r_call'[d][2] \notin listed
  PROVE  ListInv'
  BY DEF ListInv

\* Callers whose removals wait as before.
LEMMA ChainKept ==
  ASSUME ChainInv, UNCHANGED <<remove_head, rxl_next>>,
         \A d \in Client, m \in RxNio : Leaving(d, m)' <=> Leaving(d, m),
         \A d \in Client, m \in RxNio : Gone(m, d) /\ Leaving(d, m) => Gone(m, d)'
  PROVE  ChainInv'
<1>1. PICK k \in Nat, g \in [Nat -> RxNio \cup {NoNio}] : Chain(k, g)
  BY DEF ChainInv
<1>2. Chain(k, g)'
  BY <1>1 DEF Chain
<1> QED
  BY <1>2 DEF ChainInv

\* Callers that leave the dedicated threads alone.
LEMMA ThreadKept ==
  ASSUME ThreadInv, UNCHANGED <<spec, listed, r_owner, add_list, freed, gen, r_current>>,
         \A d \in Client, m \in RxNio :
           spec[<<m, d>>] # "none" /\ m \in used[d] => m \in used'[d],
         \A d \in Client, m \in RxNio :
           r_call'[d] = <<"remove", m>> /\ r_pc'[d] = "done"
             => m \notin listed /\ spec[<<m, d>>] = "none"
  PROVE  ThreadInv'
  BY DEF ThreadInv, Joining

\* Callers that leave the general thread alone.
LEMMA GenKept ==
  ASSUME GenInv, UNCHANGED <<gen, ready, r_current, listed, r_owner>>,
         \A d \in Client, m \in RxNio : gen = "join" /\ Leaving(d, m) => Leaving(d, m)'
  PROVE  GenInv'
  BY DEF GenInv

\* A caller begins.
LEMMA RxlBegin ==
  ASSUME RxlInv, NEW c \in Client, NEW n \in RxNio, R!Add(c, n) \/ R!Remove(c, n)
  PROVE  RxlInv'
<1>0. /\ r_pc[c] = "idle" /\ r_pc' = [r_pc EXCEPT ![c] = R!Entry(c)]
      /\ R!Entry(c) \in {"lock", "push"}
      /\ \E op \in {"add", "remove"} :
           /\ r_call' = [r_call EXCEPT ![c] = <<op, n>>]
           /\ op = "add" => /\ \A d \in Client : n \notin used[d]
                            /\ used' = [used EXCEPT ![c] = @ \cup {n}]
           /\ op = "remove" => n \in used[c] /\ used' = used
      /\ UNCHANGED <<r_lock, add_list, remove_head, rxl_next, listed, r_owner, refs,
                     running, freed, spec, gen, ready, r_current>>
  BY DEF R!Add, R!Remove, R!At, R!Entry, R!listVars, R!specVars, R!genVars
<1>u. UsesInv /\ ListInv /\ ChainInv /\ ThreadInv /\ GenInv
  BY Zenon DEF RxlInv
<1>1. UsesInv'
  BY <1>0, <1>u DEF UsesInv
<1>c. /\ \A d \in Client : d # c => r_pc'[d] = r_pc[d] /\ r_call'[d] = r_call[d]
      /\ r_pc'[c] \in {"lock", "push"} /\ r_call'[c][2] = n
      /\ r_call'[c][1] = "add" => \A d \in Client : n \notin used[d]
      /\ \A d \in Client : used[d] \subseteq used'[d]
  BY <1>0, <1>u DEF UsesInv
<1>2. ListInv'
  <2>1. \A i \in DOMAIN add_list : /\ r_call'[add_list[i][2]] = r_call[add_list[i][2]]
                                   /\ r_pc'[add_list[i][2]] = r_pc[add_list[i][2]]
    BY <1>0, <1>c, <1>u DEF ListInv
  <2>2. \A d \in Client : r_call'[d][1] = "add" /\ r_pc'[d] \in {"lock", "unlock", "push"}
                            => r_call'[d][2] \notin listed
    BY <1>c, <1>u DEF ListInv
  <2>3. \A m \in listed : m \in used[r_owner[m]] => m \in used'[r_owner[m]]
    BY <1>c, <1>u DEF ListInv
  <2> QED
    BY Zenon, <2>1, <2>2, <2>3, <1>0, <1>u, ListKept
<1>l. \A d \in Client, m \in RxNio : Leaving(d, m)' <=> Leaving(d, m)
  BY <1>0, <1>u DEF Leaving, UsesInv
<1>g. \A d \in Client, m \in RxNio : Gone(m, d) => Gone(m, d)'
  BY <1>0 DEF Gone, Joining
<1>3. ChainInv'
  BY Zenon, <1>0, <1>u, <1>l, <1>g, ChainKept
<1>4. ThreadInv'
  <2>1. \A d \in Client, m \in RxNio :
          r_call'[d] = <<"remove", m>> /\ r_pc'[d] = "done"
            => m \notin listed /\ spec[<<m, d>>] = "none"
    BY <1>c, <1>u DEF ThreadInv
  <2> QED
    BY <2>1, <1>0, <1>c, <1>u, ThreadKept
<1>5. GenInv'
  BY Zenon, <1>0, <1>u, <1>l, GenKept
<1> QED
  BY Zenon, <1>1, <1>2, <1>3, <1>4, <1>5 DEF RxlInv

\* A caller takes or gives up its client's lock, or cannot start a thread.
LEMMA RxlMoves ==
  ASSUME RxlInv, NEW c \in Client, R!CallerLocks(c) \/ R!CallerUnlocks(c) \/ R!RxlAddFails(c)
  PROVE  RxlInv'
<1>0. /\ r_pc[c] \in {"lock", "unlock", "push"}
      /\ \E p \in {"unlock", "push", "done"} :
           r_pc' = [r_pc EXCEPT ![c] = p] /\ (p = "done" => r_call[c][1] = "add")
      /\ UNCHANGED <<r_call, used, add_list, remove_head, rxl_next, listed, r_owner, refs,
                     running, freed, spec, gen, ready, r_current>>
  BY DEF R!CallerLocks, R!CallerUnlocks, R!RxlAddFails, R!At, R!listVars, R!specVars, R!genVars
<1>u. UsesInv /\ ListInv /\ ChainInv /\ ThreadInv /\ GenInv
  BY Zenon DEF RxlInv
<1>c. /\ \A d \in Client : d # c => r_pc'[d] = r_pc[d]
      /\ r_pc'[c] \in {"unlock", "push", "done"}
      /\ r_pc'[c] = "done" => r_call[c][1] = "add"
  BY <1>0, <1>u DEF UsesInv
<1>1. UsesInv'
  BY <1>0, <1>u DEF UsesInv
<1>2. ListInv'
  <2>1. \A i \in DOMAIN add_list : r_pc'[add_list[i][2]] = r_pc[add_list[i][2]]
    BY <1>0, <1>c, <1>u DEF ListInv
  <2>2. \A d \in Client : r_call'[d][1] = "add" /\ r_pc'[d] \in {"lock", "unlock", "push"}
                            => r_call'[d][2] \notin listed
    BY <1>0, <1>c, <1>u DEF ListInv
  <2> QED
    BY <2>1, <2>2, <1>0, <1>u, ListKept
<1>l. \A d \in Client, m \in RxNio : Leaving(d, m)' <=> Leaving(d, m)
  BY <1>0, <1>c DEF Leaving
<1>g. \A d \in Client, m \in RxNio : Gone(m, d) => Gone(m, d)'
  BY <1>0 DEF Gone, Joining
<1>3. ChainInv'
  BY Zenon, <1>0, <1>u, <1>l, <1>g, ChainKept
<1>4. ThreadInv'
  <2>1. \A d \in Client, m \in RxNio :
          r_call'[d] = <<"remove", m>> /\ r_pc'[d] = "done"
            => m \notin listed /\ spec[<<m, d>>] = "none"
    BY <1>0, <1>c, <1>u DEF ThreadInv
  <2> QED
    BY <2>1, <1>0, <1>c, <1>u, ThreadKept
<1>5. GenInv'
  BY Zenon, <1>0, <1>u, <1>l, GenKept
<1> QED
  BY Zenon, <1>1, <1>2, <1>3, <1>4, <1>5 DEF RxlInv

\* A listener is put in the list of additions, and its thread starts.
LEMMA RxlAdds ==
  ASSUME RxlInv, NEW c \in Client, R!RxlAdd(c)
  PROVE  RxlInv'
<1> DEFINE n == r_call[c][2]
           r == <<n, c>>
<1>u. UsesInv /\ ListInv /\ ChainInv /\ ThreadInv /\ GenInv
  BY Zenon DEF RxlInv
<1>0. /\ r_pc[c] = "push" /\ r_pc' = [r_pc EXCEPT ![c] = "wait"]
      /\ r_call[c][1] = "add"
      /\ add_list' = <<r>> \o add_list
      /\ freed' = freed \ {r}
      /\ spec' = [spec EXCEPT ![r] = IF n \in FdNio THEN "none" ELSE "check"]
      /\ UNCHANGED <<r_call, used, remove_head, rxl_next, listed, r_owner, refs,
                     gen, ready, r_current>>
  BY DEF R!RxlAdd, R!At, R!genVars
<1>n. /\ n \in RxNio /\ n \in used[c] /\ r \in RxNio \X Client /\ r_call[c] = <<"add", n>>
      /\ n \notin listed
  BY <1>0, <1>u DEF UsesInv, ListInv
<1>c. /\ \A d \in Client : d # c => r_pc'[d] = r_pc[d]
      /\ r_pc'[c] = "wait"
  BY <1>0, <1>u DEF UsesInv
<1>s. \A m \in RxNio, d \in Client : <<m, d>> # r => spec'[<<m, d>>] = spec[<<m, d>>]
  BY <1>0, <1>u DEF ThreadInv
<1>r. r \notin freed' /\ spec'[r] \in {"none", "check"} /\ (n \in FdNio => spec'[r] = "none")
  BY <1>0, <1>n, <1>u DEF ThreadInv
<1> HIDE DEF n
<1>a. /\ add_list' \in Seq(RxNio \X Client)
      /\ DOMAIN add_list' = 1 .. Len(add_list) + 1 /\ DOMAIN add_list = 1 .. Len(add_list)
      /\ Len(add_list) \in Nat /\ add_list'[1] = r
      /\ \A i \in 1 .. Len(add_list) : add_list'[i + 1] = add_list[i]
  <2>1. add_list \in Seq(RxNio \X Client)
    BY <1>u DEF ListInv
  <2> QED
    BY <2>1, <1>0, <1>n
<1>b. \A i \in DOMAIN add_list' : i = 1 \/ (/\ i - 1 \in DOMAIN add_list
                                            /\ add_list'[i] = add_list[i - 1])
  BY <1>a
<1>1. UsesInv'
  BY <1>0, <1>u, <1>n DEF UsesInv
<1>p. \A i \in DOMAIN add_list : /\ add_list[i][2] # c /\ add_list[i] # r
  BY <1>0, <1>n, <1>u DEF ListInv
<1>2. ListInv'
  <2>1. ASSUME NEW i \in DOMAIN add_list'
        PROVE  /\ r_call'[add_list'[i][2]] = <<"add", add_list'[i][1]>>
               /\ r_pc'[add_list'[i][2]] = "wait"
               /\ add_list'[i][1] \notin listed /\ add_list'[i] \notin freed'
    <3>1. CASE i = 1
      BY <3>1, <1>a, <1>0, <1>c, <1>n, <1>r
    <3>2. CASE i # 1
      <4>1. i - 1 \in DOMAIN add_list /\ add_list'[i] = add_list[i - 1]
        BY <3>2, <1>b
      <4>2. add_list[i - 1] \in RxNio \X Client
        BY <4>1, <1>u DEF ListInv
      <4> QED
        BY <4>1, <4>2, <1>0, <1>c, <1>p, <1>u DEF ListInv
    <3> QED
      BY <3>1, <3>2
  <2>2. ASSUME NEW i \in DOMAIN add_list', NEW j \in DOMAIN add_list', add_list'[i] = add_list'[j]
        PROVE  i = j
    <3>0. i \in Nat /\ j \in Nat
      BY <1>a
    <3>1. CASE i = 1 \/ j = 1
      BY <3>1, <2>2, <1>a, <1>b, <1>p
    <3>2. CASE i # 1 /\ j # 1
      <4>1. i - 1 \in DOMAIN add_list /\ j - 1 \in DOMAIN add_list
            /\ add_list[i - 1] = add_list[j - 1]
        BY <3>2, <1>b, <2>2
      <4>2. i - 1 = j - 1
        BY <4>1, <1>u DEF ListInv
      <4> QED
        BY <4>2, <3>0
    <3> QED
      BY <3>1, <3>2
  <2>3. \A m \in listed : /\ refs[m] = 1 /\ r_owner[m] \in Client
                          /\ m \in used[r_owner[m]] /\ <<m, r_owner[m]>> \notin freed'
    BY <1>0, <1>u DEF ListInv
  <2>4. \A d \in Client : r_call[d][1] = "add" /\ r_pc'[d] \in {"lock", "unlock", "push"}
                            => r_call[d][2] \notin listed
    BY <1>c, <1>u DEF ListInv
  <2>5. /\ listed \subseteq RxNio /\ refs \in [RxNio -> Nat]
        /\ r_owner = [m \in RxNio |-> r_owner[m]] /\ freed' \subseteq RxNio \X Client
    BY <1>0, <1>u DEF ListInv
  <2> QED
    BY <2>1, <2>2, <2>3, <2>4, <2>5, <1>a, <1>0 DEF ListInv
<1>l. \A d \in Client, m \in RxNio : Leaving(d, m)' <=> Leaving(d, m)
  BY <1>0, <1>c, <1>n DEF Leaving
<1>g. \A d \in Client, m \in RxNio : Gone(m, d) /\ Leaving(d, m) => Gone(m, d)'
  <2> SUFFICES ASSUME NEW d \in Client, NEW m \in RxNio, Gone(m, d), Leaving(d, m)
               PROVE  Gone(m, d)'
    OBVIOUS
  <2>1. d # c
    BY <1>n DEF Leaving
  <2>2. spec'[<<m, d>>] = spec[<<m, d>>]
    BY <2>1, <1>s
  <2> QED
    BY <2>2, <1>0 DEF Gone, Joining
<1>3. ChainInv'
  BY Zenon, <1>0, <1>u, <1>l, <1>g, ChainKept
<1>4. ThreadInv'
  <2>1. spec' \in [RxNio \X Client -> {"none", "check", "handler", "locked"}]
    BY <1>0, <1>n, <1>u DEF ThreadInv
  <2>2. ASSUME NEW m \in RxNio, NEW d \in Client, spec'[<<m, d>>] # "none"
        PROVE  /\ m \notin FdNio /\ m \in used[d] /\ <<m, d>> \notin freed'
               /\ \/ m \in listed /\ r_owner[m] = d
                  \/ \E i \in DOMAIN add_list' : add_list'[i] = <<m, d>>
                  \/ Joining(m, d)
    <3>1. CASE <<m, d>> = r
      <4>1. m = n /\ d = c
        BY <3>1
      <4>2. 1 \in DOMAIN add_list' /\ add_list'[1] = <<m, d>>
        BY <3>1, <1>a
      <4> QED
        BY <4>1, <4>2, <1>n, <1>r, <2>2
    <3>2. CASE <<m, d>> # r
      <4>1. /\ m \notin FdNio /\ m \in used[d] /\ <<m, d>> \notin freed
            /\ \/ m \in listed /\ r_owner[m] = d
               \/ \E i \in DOMAIN add_list : add_list[i] = <<m, d>>
               \/ Joining(m, d)
        BY <3>2, <2>2, <1>s, <1>u DEF ThreadInv
      <4>2. ASSUME NEW i \in DOMAIN add_list, add_list[i] = <<m, d>>
            PROVE  i + 1 \in DOMAIN add_list' /\ add_list'[i + 1] = <<m, d>>
        BY <4>2, <1>a
      <4> QED
        BY <4>1, <4>2, <1>0
    <3> QED
      BY <3>1, <3>2
  <2>3. \A d \in Client, m \in RxNio : r_call'[d] = <<"remove", m>> /\ r_pc'[d] = "done"
          => m \notin listed' /\ spec'[<<m, d>>] = "none"
    <3> SUFFICES ASSUME NEW d \in Client, NEW m \in RxNio,
                        r_call'[d] = <<"remove", m>>, r_pc'[d] = "done"
                 PROVE  m \notin listed' /\ spec'[<<m, d>>] = "none"
      OBVIOUS
    <3>1. d # c
      BY <1>c
    <3> QED
      BY <3>1, <1>0, <1>c, <1>s, <1>u DEF ThreadInv
  <2>4. \A m, d : Joining(m, d)' <=> Joining(m, d)
    BY <1>0 DEF Joining
  <2>5. UNCHANGED <<used, listed, r_owner, FdNio>>
    BY <1>0
  <2> QED
    BY <2>1, <2>2, <2>3, <2>4, <2>5 DEF ThreadInv
<1>5. GenInv'
  BY Zenon, <1>0, <1>u, <1>l, GenKept
<1> QED
  BY Zenon, <1>1, <1>2, <1>3, <1>4, <1>5 DEF RxlInv

\* A NIO is put in the list of removals.
LEMMA RxlRemoves ==
  ASSUME RxlInv, NEW c \in Client, R!RxlRemove(c)
  PROVE  RxlInv'
<1> DEFINE n == r_call[c][2]
<1>u. UsesInv /\ ListInv /\ ChainInv /\ ThreadInv /\ GenInv
  BY Zenon DEF RxlInv
<1>0. /\ r_pc[c] = "push" /\ r_pc' = [r_pc EXCEPT ![c] = "wait"]
      /\ r_call[c][1] = "remove"
      /\ rxl_next' = [rxl_next EXCEPT ![n] = remove_head] /\ remove_head' = n
      /\ UNCHANGED <<r_call, used, add_list, listed, r_owner, refs, freed, spec,
                     gen, ready, r_current>>
  BY DEF R!RxlRemove, R!At, R!genVars, R!specVars
<1>n. n \in RxNio /\ n \in used[c] /\ r_call[c] = <<"remove", n>>
  BY <1>0, <1>u DEF UsesInv
<1>c. /\ \A d \in Client : d # c => r_pc'[d] = r_pc[d]
      /\ r_pc'[c] = "wait"
  BY <1>0, <1>u DEF UsesInv
<1> HIDE DEF n
<1>1. UsesInv'
  BY <1>0, <1>u DEF UsesInv
<1>2. ListInv'
  <2>1. \A i \in DOMAIN add_list : r_pc'[add_list[i][2]] = r_pc[add_list[i][2]]
    BY <1>0, <1>c, <1>u DEF ListInv
  <2>2. \A d \in Client : r_call'[d][1] = "add" /\ r_pc'[d] \in {"lock", "unlock", "push"}
                            => r_call'[d][2] \notin listed
    BY <1>0, <1>c, <1>u DEF ListInv
  <2> QED
    BY <2>1, <2>2, <1>0, <1>u, ListKept
<1>l. \A d \in Client, m \in RxNio : Leaving(d, m)' <=> Leaving(d, m) \/ (d = c /\ m = n)
  BY <1>0, <1>c, <1>n DEF Leaving
<1>g. \A d \in Client, m \in RxNio : Gone(m, d) => Gone(m, d)'
  BY <1>0 DEF Gone, Joining
<1>x. \A d \in Client : ~Leaving(d, n)
  <2> SUFFICES ASSUME NEW d \in Client, Leaving(d, n) PROVE FALSE
    OBVIOUS
  <2>1. r_pc[d] = "wait" /\ r_call[d] = <<"remove", n>>
    BY DEF Leaving
  <2>2. n \in used[d]
    BY <2>1, <1>u DEF UsesInv
  <2>3. d = c
    BY <2>2, <1>n, <1>u DEF UsesInv
  <2> QED
    BY <2>1, <2>3, <1>0
<1>3. ChainInv'
  <2>1. PICK k \in Nat, g \in [Nat -> RxNio \cup {NoNio}] : Chain(k, g)
    BY <1>u DEF ChainInv
  <2>2. PICK h \in [Nat -> RxNio \cup {NoNio}] : h[k + 1] = n /\ \A i \in 0..k : h[i] = g[i]
    <3>1. [g EXCEPT ![k + 1] = n] \in [Nat -> RxNio \cup {NoNio}]
      BY <1>n
    <3>2. /\ [g EXCEPT ![k + 1] = n][k + 1] = n
          /\ \A i \in 0..k : [g EXCEPT ![k + 1] = n][i] = g[i]
      OBVIOUS
    <3> QED
      BY Zenon, <3>1, <3>2
  <2>3. \A i \in 1..k : /\ g[i] \in RxNio /\ g[i] # n /\ rxl_next[g[i]] = g[i - 1]
                        /\ \E d \in Client : Leaving(d, g[i])
    BY <2>1, <1>x DEF Chain
  <2>4. remove_head \in RxNio \cup {NoNio} /\ remove_head = g[k] /\ g[0] = NoNio
    BY <2>1 DEF Chain
  <2>5. rxl_next' \in [RxNio -> RxNio \cup {NoNio}] /\ rxl_next'[n] = g[k]
        /\ \A m \in RxNio : m # n => rxl_next'[m] = rxl_next[m]
    BY <2>4, <1>0, <1>n, <1>u DEF ChainInv
  <2>6. ASSUME NEW i \in 1..k + 1
        PROVE  /\ h[i] \in RxNio /\ rxl_next'[h[i]] = h[i - 1]
               /\ \E d \in Client : Leaving(d, h[i])'
    <3>1. CASE i = k + 1
      <4>1. h[i] = n /\ h[i - 1] = g[k]
        BY <3>1, <2>2
      <4> QED
        BY <4>1, <2>5, <1>n, <1>l
    <3>2. CASE i # k + 1
      <4>1. i \in 1..k /\ i - 1 \in 0..k
        BY <3>2
      <4>2. h[i] = g[i] /\ h[i - 1] = g[i - 1]
        BY <4>1, <2>2
      <4>3. /\ g[i] \in RxNio /\ g[i] # n /\ rxl_next[g[i]] = g[i - 1]
            /\ \E d \in Client : Leaving(d, g[i])
        BY <4>1, <2>3
      <4> QED
        BY <4>2, <4>3, <2>5, <1>l
    <3> QED
      BY <3>1, <3>2
  <2>7. ASSUME NEW i \in 1..k + 1, NEW j \in 1..k + 1, h[i] = h[j] PROVE i = j
    <3>1. \A m \in 1..k + 1 : m # k + 1 => m \in 1..k /\ h[m] = g[m] /\ h[m] # n
      BY <2>2, <2>3
    <3>2. \A p, q \in 1..k : g[p] = g[q] => p = q
      BY <2>1 DEF Chain
    <3> QED
      BY <3>1, <3>2, <2>2, <2>7
  <2>8. ASSUME NEW d \in Client, NEW m \in RxNio, Leaving(d, m)'
        PROVE  (\E i \in 1..k + 1 : h[i] = m) \/ Gone(m, d)'
    <3>1. CASE d = c /\ m = n
      BY <3>1, <2>2
    <3>2. CASE Leaving(d, m)
      <4>1. (\E i \in 1..k : g[i] = m) \/ Gone(m, d)
        BY <3>2, <2>1 DEF Chain
      <4>2. \A i \in 1..k : i \in 1..k + 1 /\ h[i] = g[i]
        BY <2>2
      <4> QED
        BY <4>1, <4>2, <1>g
    <3> QED
      BY <3>1, <3>2, <2>8, <1>l
  <2>9. h[0] = NoNio /\ remove_head' = h[k + 1]
    BY <2>2, <2>4, <1>0
  <2>10. Chain(k + 1, h)'
    BY Zenon, <2>6, <2>7, <2>8, <2>9 DEF Chain
  <2>11. k + 1 \in Nat
    OBVIOUS
  <2> QED
    BY Zenon, <2>2, <2>5, <2>10, <2>11 DEF ChainInv
<1>4. ThreadInv'
  <2>1. \A d \in Client, m \in RxNio :
          r_call'[d] = <<"remove", m>> /\ r_pc'[d] = "done"
            => m \notin listed /\ spec[<<m, d>>] = "none"
    BY <1>0, <1>c, <1>u DEF ThreadInv
  <2> QED
    BY <2>1, <1>0, <1>c, <1>u, ThreadKept
<1>5. GenInv'
  BY Zenon, <1>0, <1>u, <1>l, GenKept
<1> QED
  BY Zenon, <1>1, <1>2, <1>3, <1>4, <1>5 DEF RxlInv

\* A caller finds its list empty.
LEMMA RxlDones ==
  ASSUME RxlInv, NEW c \in Client, R!RxlDone(c)
  PROVE  RxlInv'
<1>u. UsesInv /\ ListInv /\ ChainInv /\ ThreadInv /\ GenInv
  BY Zenon DEF RxlInv
<1>0. /\ gen \notin {"drain", "join"}
      /\ IF r_call[c][1] = "add" THEN add_list = <<>> ELSE remove_head = NoNio
      /\ r_pc[c] = "wait" /\ r_pc' = [r_pc EXCEPT ![c] = "done"]
      /\ UNCHANGED <<r_call, used, add_list, remove_head, rxl_next, listed, r_owner, refs,
                     freed, spec, gen, ready, r_current>>
  BY DEF R!RxlDone, R!RxqFree, R!At, R!genVars, R!specVars, R!listVars
<1>c. /\ \A d \in Client : d # c => r_pc'[d] = r_pc[d]
      /\ r_pc'[c] = "done"
  BY <1>0, <1>u DEF UsesInv
<1>1. UsesInv'
  BY <1>0, <1>u DEF UsesInv
<1>2. ListInv'
  <2>1. \A i \in DOMAIN add_list : r_pc'[add_list[i][2]] = r_pc[add_list[i][2]]
    <3> SUFFICES ASSUME NEW i \in DOMAIN add_list
                 PROVE  r_pc'[add_list[i][2]] = r_pc[add_list[i][2]]
      OBVIOUS
    <3>1. add_list[i] \in RxNio \X Client /\ r_call[add_list[i][2]][1] = "add" /\ add_list # <<>>
      <4>1. add_list \in Seq(RxNio \X Client)
        BY <1>u DEF ListInv
      <4>2. r_call[add_list[i][2]] = <<"add", add_list[i][1]>>
        BY <1>u DEF ListInv
      <4> QED
        BY <4>1, <4>2
    <3>2. add_list[i][2] # c
      BY <3>1, <1>0
    <3> QED
      BY <3>1, <3>2, <1>c
  <2>2. \A d \in Client : r_call'[d][1] = "add" /\ r_pc'[d] \in {"lock", "unlock", "push"}
                            => r_call'[d][2] \notin listed
    BY <1>0, <1>c, <1>u DEF ListInv
  <2> QED
    BY <2>1, <2>2, <1>0, <1>u, ListKept
<1>l. \A d \in Client, m \in RxNio : Leaving(d, m)' <=> Leaving(d, m) /\ d # c
  BY <1>0, <1>c DEF Leaving
<1>g. \A d \in Client, m \in RxNio : Gone(m, d) => Gone(m, d)'
  BY <1>0 DEF Gone, Joining
<1>k. PICK k \in Nat, g \in [Nat -> RxNio \cup {NoNio}] : Chain(k, g)
  BY <1>u DEF ChainInv
<1>e. r_call[c][1] = "remove" => k = 0
  <2> SUFFICES ASSUME r_call[c][1] = "remove", k # 0 PROVE FALSE
    OBVIOUS
  <2>1. g[k] = NoNio
    BY <1>0, <1>k DEF Chain
  <2>2. g[k] \in RxNio
    BY <1>k DEF Chain
  <2> QED
    BY <2>1, <2>2, WorkersAssumption DEF R!RxAssumption
<1>3. ChainInv'
  <2>1. ASSUME NEW i \in 1..k PROVE \E d \in Client : Leaving(d, g[i])'
    <3>1. PICK d \in Client : Leaving(d, g[i])
      BY <1>k DEF Chain
    <3>2. d # c
      BY <3>1, <1>e DEF Leaving
    <3>3. g[i] \in RxNio
      BY <1>k DEF Chain
    <3> QED
      BY <3>1, <3>2, <3>3, <1>l
  <2>2. Chain(k, g)'
    BY <2>1, <1>0, <1>k, <1>l, <1>g DEF Chain
  <2>3. rxl_next' \in [RxNio -> RxNio \cup {NoNio}]
    BY <1>0, <1>u DEF ChainInv
  <2> QED
    BY Zenon, <2>2, <2>3 DEF ChainInv
<1>4. ThreadInv'
  <2>1. ASSUME NEW d \in Client, NEW m \in RxNio, r_call'[d] = <<"remove", m>>, r_pc'[d] = "done"
        PROVE  m \notin listed /\ spec[<<m, d>>] = "none"
    <3>1. CASE d = c
      <4>1. Leaving(d, m) /\ k = 0
        BY <3>1, <2>1, <1>0, <1>e DEF Leaving
      <4>2. Gone(m, d)
        BY <4>1, <1>k DEF Chain
      <4> QED
        BY <4>2, <1>0 DEF Gone, Joining
    <3>2. CASE d # c
      BY <3>2, <2>1, <1>0, <1>c, <1>u DEF ThreadInv
    <3> QED
      BY <3>1, <3>2
  <2> QED
    BY <2>1, <1>0, <1>c, <1>u, ThreadKept
<1>5. GenInv'
  BY <1>0, <1>u, GenKept
<1> QED
  BY Zenon, <1>1, <1>2, <1>3, <1>4, <1>5 DEF RxlInv

\* A call returns.
LEMMA RxlReturn ==
  ASSUME RxlInv, NEW c \in Client, R!Return(c)
  PROVE  RxlInv'
<1>u. UsesInv /\ ListInv /\ ChainInv /\ ThreadInv /\ GenInv
  BY Zenon DEF RxlInv
<1>0. /\ r_pc[c] = "done" /\ r_pc' = [r_pc EXCEPT ![c] = "idle"]
      /\ used' = IF r_call[c][1] = "remove" THEN [used EXCEPT ![c] = @ \ {r_call[c][2]}] ELSE used
      /\ r_call' = [r_call EXCEPT ![c] = <<"none", NoNio>>]
      /\ UNCHANGED <<add_list, remove_head, rxl_next, listed, r_owner, refs,
                     freed, spec, gen, ready, r_current>>
  BY DEF R!Return, R!At, R!genVars, R!specVars, R!listVars
<1>c. /\ \A d \in Client : d # c => r_pc'[d] = r_pc[d] /\ r_call'[d] = r_call[d] /\ used'[d] = used[d]
      /\ r_pc'[c] = "idle" /\ used'[c] \subseteq used[c]
      /\ \A m \in used[c] : m \notin used'[c] =>
            r_call[c][1] = "remove" /\ r_call[c][2] = m
  BY <1>0, <1>u DEF UsesInv
<1>d. \A m \in used[c] : m \notin used'[c] => m \notin listed /\ spec[<<m, c>>] = "none"
  <2> SUFFICES ASSUME NEW m \in used[c], m \notin used'[c]
               PROVE  m \notin listed /\ spec[<<m, c>>] = "none"
    OBVIOUS
  <2>1. r_call[c] = <<"remove", m>> /\ m \in RxNio
    BY <1>c, <1>u DEF UsesInv
  <2> QED
    BY <2>1, <1>0, <1>u DEF ThreadInv
<1>1. UsesInv'
  <2>1. /\ r_pc' \in [Client -> {"idle", "lock", "unlock", "push", "wait", "done"}]
        /\ r_call' \in [Client -> {"none", "add", "remove"} \X (RxNio \cup {NoNio})]
        /\ used' \in [Client -> SUBSET RxNio]
    BY <1>0, <1>u DEF UsesInv
  <2>2. \A d \in Client : r_pc'[d] # "idle" => /\ r_call'[d][1] \in {"add", "remove"}
                                               /\ r_call'[d][2] \in used'[d]
    BY <1>c, <1>u DEF UsesInv
  <2>3. \A d, e \in Client : \A m \in used'[d] : m \in used'[e] => d = e
    <3>1. \A d \in Client : used'[d] \subseteq used[d]
      BY <1>c
    <3> QED
      BY <3>1, <1>u DEF UsesInv
  <2> QED
    BY <2>1, <2>2, <2>3 DEF UsesInv
<1>2. ListInv'
  <2>1. \A i \in DOMAIN add_list : /\ r_call'[add_list[i][2]] = r_call[add_list[i][2]]
                                   /\ r_pc'[add_list[i][2]] = r_pc[add_list[i][2]]
    BY <1>0, <1>c, <1>u DEF ListInv
  <2>2. \A d \in Client : r_call'[d][1] = "add" /\ r_pc'[d] \in {"lock", "unlock", "push"}
                            => r_call'[d][2] \notin listed
    BY <1>c, <1>u DEF ListInv
  <2>3. \A m \in listed : m \in used[r_owner[m]] => m \in used'[r_owner[m]]
    BY <1>c, <1>d, <1>u DEF ListInv
  <2> QED
    BY Zenon, <2>1, <2>2, <2>3, <1>0, <1>u, ListKept
<1>l. \A d \in Client, m \in RxNio : Leaving(d, m)' <=> Leaving(d, m)
  BY <1>0, <1>c DEF Leaving
<1>g. \A d \in Client, m \in RxNio : Gone(m, d) => Gone(m, d)'
  BY <1>0 DEF Gone, Joining
<1>3. ChainInv'
  BY Zenon, <1>0, <1>u, <1>l, <1>g, ChainKept
<1>4. ThreadInv'
  <2>1. \A d \in Client, m \in RxNio :
          r_call'[d] = <<"remove", m>> /\ r_pc'[d] = "done"
            => m \notin listed /\ spec[<<m, d>>] = "none"
    BY <1>c, <1>u DEF ThreadInv
  <2>2. \A d \in Client, m \in RxNio :
          spec[<<m, d>>] # "none" /\ m \in used[d] => m \in used'[d]
    BY <1>c, <1>d
  <2> QED
    BY Zenon, <2>1, <2>2, <1>0, <1>u, ThreadKept
<1>5. GenInv'
  BY Zenon, <1>0, <1>u, <1>l, GenKept
<1> QED
  BY Zenon, <1>1, <1>2, <1>3, <1>4, <1>5 DEF RxlInv

\* The general thread puts a listener in its list.
LEMMA RxlDrainAdd ==
  ASSUME RxlInv, R!DrainAdd
  PROVE  RxlInv'
<1>u. UsesInv /\ ListInv /\ ChainInv /\ ThreadInv /\ GenInv
  BY Zenon DEF RxlInv
<1>a. /\ add_list \in Seq(RxNio \X Client) /\ add_list # <<>>
      /\ listed \subseteq RxNio /\ refs \in [RxNio -> Nat]
      /\ r_owner = [m \in RxNio |-> r_owner[m]]
  BY <1>u DEF R!DrainAdd, ListInv
<1>r. PICK r \in RxNio \X Client : r = Head(add_list) /\ 1 \in DOMAIN add_list /\ r = add_list[1]
  BY <1>a
<1>n. PICK n \in RxNio, c \in Client : r = <<n, c>>
  BY <1>r
<1>p. /\ r_call[c] = <<"add", n>> /\ r_pc[c] = "wait" /\ n \notin listed /\ r \notin freed
      /\ n \in used[c]
  <2>1. r_call[c] = <<"add", n>> /\ r_pc[c] = "wait" /\ n \notin listed /\ r \notin freed
    <3>1. r[1] = n /\ r[2] = c
      BY <1>n
    <3>2. /\ r_call[r[2]] = <<"add", r[1]>> /\ r_pc[r[2]] = "wait"
          /\ r[1] \notin listed /\ r \notin freed
      BY Zenon, <1>r, <1>u DEF ListInv
    <3> QED
      BY <3>1, <3>2
  <2> QED
    BY <2>1, <1>u DEF UsesInv
<1>0. /\ gen = "drain" /\ gen' = "drain"
      /\ refs' = [refs EXCEPT ![n] = 1] /\ listed' = listed \cup {n}
      /\ r_owner' = [r_owner EXCEPT ![n] = c]
      /\ add_list' = Tail(add_list)
      /\ r_call' = r_call /\ r_pc' = r_pc /\ used' = used
      /\ remove_head' = remove_head /\ rxl_next' = rxl_next /\ freed' = freed
      /\ spec' = spec /\ ready' = ready /\ r_current' = r_current
  BY <1>r, <1>n, <1>p DEF R!DrainAdd, R!GenAt, R!callVars
<1>o. r_owner'[n] = c /\ \A m \in RxNio : m # n => r_owner'[m] = r_owner[m]
  BY <1>0, <1>a
<1>b. /\ add_list' \in Seq(RxNio \X Client) /\ DOMAIN add_list' = 1 .. Len(add_list) - 1
      /\ DOMAIN add_list = 1 .. Len(add_list) /\ Len(add_list) \in Nat
      /\ \A i \in DOMAIN add_list' : i + 1 \in DOMAIN add_list /\ add_list'[i] = add_list[i + 1]
  BY <1>0, <1>a
<1>e. \A d \in Client : n \in used[d] => d = c
  BY <1>p, <1>u DEF UsesInv
<1>q. \A i \in DOMAIN add_list' : add_list'[i][1] # n
  <2> SUFFICES ASSUME NEW i \in DOMAIN add_list', add_list'[i][1] = n PROVE FALSE
    OBVIOUS
  <2>1. i + 1 \in DOMAIN add_list /\ add_list'[i] = add_list[i + 1] /\ i \in Nat /\ i # 0
    BY <1>b
  <2>2. PICK d \in Client : add_list[i + 1] = <<n, d>>
    BY <2>1, <1>a
  <2>3. r_call[d] = <<"add", n>> /\ r_pc[d] = "wait"
    <3>1. add_list[i + 1][1] = n /\ add_list[i + 1][2] = d
      BY <2>2
    <3>2. /\ r_call[add_list[i + 1][2]] = <<"add", add_list[i + 1][1]>>
          /\ r_pc[add_list[i + 1][2]] = "wait"
      BY Zenon, <2>1, <1>u DEF ListInv
    <3> QED
      BY <3>1, <3>2
  <2>4. n \in used[d]
    BY <2>3, <1>u DEF UsesInv
  <2>5. add_list[i + 1] = add_list[1]
    BY <2>2, <2>4, <1>e, <1>r, <1>n
  <2>6. i + 1 = 1
    BY <2>1, <2>5, <1>r, <1>u DEF ListInv
  <2> QED
    BY <2>1, <2>6
<1>1. UsesInv'
  BY <1>0, <1>u DEF UsesInv
<1>2. ListInv'
  <2>1. ASSUME NEW i \in DOMAIN add_list'
        PROVE  /\ r_call'[add_list'[i][2]] = <<"add", add_list'[i][1]>>
               /\ r_pc'[add_list'[i][2]] = "wait"
               /\ add_list'[i][1] \notin listed' /\ add_list'[i] \notin freed'
    <3>1. i + 1 \in DOMAIN add_list /\ add_list'[i] = add_list[i + 1]
      BY <1>b
    <3> QED
      BY <3>1, <1>0, <1>q, <1>u DEF ListInv
  <2>2. ASSUME NEW i \in DOMAIN add_list', NEW j \in DOMAIN add_list', add_list'[i] = add_list'[j]
        PROVE  i = j
    <3>1. i + 1 \in DOMAIN add_list /\ j + 1 \in DOMAIN add_list /\ i \in Nat /\ j \in Nat
          /\ add_list[i + 1] = add_list[j + 1]
      BY <1>b, <2>2
    <3>2. i + 1 = j + 1
      BY <3>1, <1>u DEF ListInv
    <3> QED
      BY <3>1, <3>2
  <2>3. ASSUME NEW m \in listed'
        PROVE  /\ refs'[m] = 1 /\ r_owner'[m] \in Client
               /\ m \in used[r_owner'[m]] /\ <<m, r_owner'[m]>> \notin freed
    <3>1. CASE m = n
      BY <3>1, <1>0, <1>o, <1>p, <1>n, <1>a
    <3>2. CASE m # n
      BY <3>2, <1>0, <1>o, <1>a, <1>u DEF ListInv
    <3> QED
      BY <3>1, <3>2
  <2>4. \A d \in Client : r_call[d][1] = "add" /\ r_pc[d] \in {"lock", "unlock", "push"}
                            => r_call[d][2] \notin listed'
    <3> SUFFICES ASSUME NEW d \in Client, r_call[d][1] = "add",
                        r_pc[d] \in {"lock", "unlock", "push"}
                 PROVE  r_call[d][2] \notin listed'
      OBVIOUS
    <3>1. r_call[d][2] \notin listed /\ r_call[d][2] \in used[d] /\ d # c
      BY <1>p, <1>u DEF ListInv, UsesInv
    <3> QED
      BY <3>1, <1>e, <1>0
  <2>5. /\ listed' \subseteq RxNio /\ refs' \in [RxNio -> Nat]
        /\ r_owner' = [m \in RxNio |-> r_owner'[m]] /\ freed' \subseteq RxNio \X Client
    BY <1>0, <1>a, <1>u DEF ListInv
  <2> QED
    BY <2>1, <2>2, <2>3, <2>4, <2>5, <1>b, <1>0 DEF ListInv
<1>l. \A d \in Client, m \in RxNio : Leaving(d, m)' <=> Leaving(d, m)
  BY <1>0 DEF Leaving
<1>g. \A d \in Client, m \in RxNio : Gone(m, d) /\ Leaving(d, m) => Gone(m, d)'
  <2> SUFFICES ASSUME NEW d \in Client, NEW m \in RxNio, Gone(m, d), Leaving(d, m)
               PROVE  Gone(m, d)'
    OBVIOUS
  <2>1. m \in used[d] /\ d # c
    BY <1>p, <1>u DEF UsesInv, Leaving
  <2>2. m # n
    BY <2>1, <1>e
  <2> QED
    BY <2>2, <1>0, <1>o DEF Gone, Joining
<1>3. ChainInv'
  BY Zenon, <1>0, <1>u, <1>l, <1>g, ChainKept
<1>4. ThreadInv'
  <2>1. spec' \in [RxNio \X Client -> {"none", "check", "handler", "locked"}]
    BY <1>0, <1>u DEF ThreadInv
  <2>2. ASSUME NEW m \in RxNio, NEW d \in Client, spec'[<<m, d>>] # "none"
        PROVE  /\ m \notin FdNio /\ m \in used[d] /\ <<m, d>> \notin freed'
               /\ \/ m \in listed' /\ r_owner'[m] = d
                  \/ \E i \in DOMAIN add_list' : add_list'[i] = <<m, d>>
    <3>1. /\ m \notin FdNio /\ m \in used[d] /\ <<m, d>> \notin freed
          /\ \/ m \in listed /\ r_owner[m] = d
             \/ \E i \in DOMAIN add_list : add_list[i] = <<m, d>>
      BY <2>2, <1>0, <1>u DEF ThreadInv, Joining
    <3>2. CASE m = n
      BY <3>1, <3>2, <1>0, <1>o, <1>e
    <3>3. CASE m # n /\ m \in listed /\ r_owner[m] = d
      BY <3>1, <3>3, <1>0, <1>o
    <3>4. ASSUME m # n, NEW i \in DOMAIN add_list, add_list[i] = <<m, d>>
          PROVE  \E j \in DOMAIN add_list' : add_list'[j] = <<m, d>>
      <4>1. i # 1
        BY <3>4, <1>r, <1>n
      <4>2. i - 1 \in DOMAIN add_list' /\ (i - 1) + 1 = i
        BY <4>1, <1>b
      <4>3. add_list'[i - 1] = add_list[i]
        BY <4>2, <1>b
      <4> QED
        BY <4>2, <4>3, <3>4
    <3> QED
      BY <3>1, <3>2, <3>3, <3>4, <1>0
  <2>3. \A d \in Client, m \in RxNio : r_call'[d] = <<"remove", m>> /\ r_pc'[d] = "done"
          => m \notin listed' /\ spec'[<<m, d>>] = "none"
    <3> SUFFICES ASSUME NEW d \in Client, NEW m \in RxNio,
                        r_call[d] = <<"remove", m>>, r_pc[d] = "done"
                 PROVE  m \notin listed' /\ spec[<<m, d>>] = "none"
      BY <1>0
    <3>1. m \in used[d] /\ d # c /\ m \notin listed /\ spec[<<m, d>>] = "none"
      BY <1>p, <1>u DEF UsesInv, ThreadInv
    <3> QED
      BY <3>1, <1>e, <1>0
  <2>4. used' = used
    BY <1>0
  <2> QED
    BY <2>1, <2>2, <2>3, <2>4 DEF ThreadInv
<1>5. GenInv'
  BY <1>0, <1>u DEF GenInv
<1> QED
  BY Zenon, <1>1, <1>2, <1>3, <1>4, <1>5 DEF RxlInv

\* The general thread takes a listener out of its list.
LEMMA RxlDrainRemove ==
  ASSUME RxlInv, R!DrainRemove
  PROVE  RxlInv'
<1>u. UsesInv /\ ListInv /\ ChainInv /\ ThreadInv /\ GenInv
  BY Zenon DEF RxlInv
<1>k. PICK k \in Nat, g \in [Nat -> RxNio \cup {NoNio}] : Chain(k, g)
  BY <1>u DEF ChainInv
<1>z. k # 0 /\ k - 1 \in Nat /\ k \in 1..k
  BY <1>k DEF R!DrainRemove, Chain
<1>n. PICK n \in RxNio : n = g[k] /\ n = remove_head /\ rxl_next[n] = g[k - 1]
  BY <1>k, <1>z DEF Chain
<1>c. PICK c \in Client : Leaving(c, n)
  BY <1>k, <1>z, <1>n DEF Chain
<1>p. n \in used[c] /\ r_call[c] = <<"remove", n>> /\ r_pc[c] = "wait"
  BY <1>c, <1>u DEF UsesInv, Leaving
<1>e. \A d \in Client : n \in used[d] => d = c
  BY <1>p, <1>u DEF UsesInv
<1>q. n \in listed => r_owner[n] = c /\ refs[n] = 1
  BY <1>e, <1>u DEF ListInv
<1>0. /\ gen = "drain" /\ add_list = <<>>
      /\ remove_head' = g[k - 1] /\ rxl_next' = rxl_next
      /\ r_call' = r_call /\ r_pc' = r_pc /\ used' = used
      /\ add_list' = add_list /\ r_owner' = r_owner /\ ready' = ready
      /\ spec' = spec
  BY <1>n DEF R!DrainRemove, R!callVars, R!specVars
<1>m. /\ listed' = listed \ {n}
      /\ \/ /\ n \notin listed /\ refs' = refs /\ freed' = freed
            /\ gen' = gen /\ r_current' = r_current
         \/ /\ n \in listed /\ n \in FdNio /\ refs' = [refs EXCEPT ![n] = 0]
            /\ freed' = freed \cup {<<n, c>>} /\ gen' = gen /\ r_current' = r_current
         \/ /\ n \in listed /\ n \notin FdNio /\ refs' = [refs EXCEPT ![n] = 0]
            /\ freed' = freed /\ gen' = "join" /\ r_current' = n
  BY <1>n, <1>q DEF R!DrainRemove, R!specVars
<1>f. /\ \A m \in RxNio, d \in Client : <<m, d>> # <<n, c>> \/ n \notin FdNio \/ n \notin listed
           => (<<m, d>> \in freed' <=> <<m, d>> \in freed)
      /\ \A m \in RxNio : m # n => refs'[m] = refs[m]
      /\ refs' \in [RxNio -> Nat]
  BY <1>m, <1>u DEF ListInv
<1>1. UsesInv'
  BY <1>0, <1>u DEF UsesInv
<1>2. ListInv'
  <2>1. ASSUME NEW m \in listed'
        PROVE  /\ refs'[m] = 1 /\ r_owner[m] \in Client
               /\ m \in used[r_owner[m]] /\ <<m, r_owner[m]>> \notin freed'
    <3>1. m \in listed /\ m # n /\ m \in RxNio
      BY <1>m, <1>u DEF ListInv
    <3>2. /\ refs[m] = 1 /\ r_owner[m] \in Client
          /\ m \in used[r_owner[m]] /\ <<m, r_owner[m]>> \notin freed
      BY <3>1, <1>u DEF ListInv
    <3> QED
      BY <3>1, <3>2, <1>f
  <2>2. DOMAIN add_list' = {} /\ add_list' \in Seq(RxNio \X Client)
    BY <1>0
  <2>3. \A d \in Client : r_call[d][1] = "add" /\ r_pc[d] \in {"lock", "unlock", "push"}
                            => r_call[d][2] \notin listed'
    BY <1>m, <1>u DEF ListInv
  <2>4. /\ listed' \subseteq RxNio /\ r_owner = [m \in RxNio |-> r_owner[m]]
        /\ freed' \subseteq RxNio \X Client
    BY <1>m, <1>u DEF ListInv
  <2> QED
    BY <2>1, <2>2, <2>3, <2>4, <1>f, <1>0 DEF ListInv
<1>l. \A d \in Client, m \in RxNio : Leaving(d, m)' <=> Leaving(d, m)
  BY <1>0 DEF Leaving
<1>g. \A d \in Client, m \in RxNio : Gone(m, d) => Gone(m, d)'
  BY <1>0, <1>m DEF Gone, Joining
<1>h. Gone(n, c)'
  <2>1. n \notin listed'
    BY <1>m
  <2>2. CASE gen' = "join" /\ r_current' = n /\ n \in listed
    BY <2>1, <2>2, <1>q, <1>0 DEF Gone, Joining
  <2>3. CASE n \notin listed \/ n \in FdNio
    <3>1. spec[<<n, c>>] = "none"
      BY <2>3, <1>0, <1>u DEF ThreadInv, Joining
    <3> QED
      BY <3>1, <2>1, <1>0 DEF Gone
  <2> QED
    BY <2>2, <2>3, <1>m
<1>3. ChainInv'
  <2>1. \A i \in 1..k - 1 : i \in 1..k
    BY <1>z
  <2>2. \A i \in 1..k - 1 : /\ g[i] \in RxNio /\ rxl_next'[g[i]] = g[i - 1]
                            /\ \E d \in Client : Leaving(d, g[i])'
    BY <2>1, <1>k, <1>l, <1>0 DEF Chain
  <2>3. \A i, j \in 1..k - 1 : g[i] = g[j] => i = j
    BY <2>1, <1>k DEF Chain
  <2>4. ASSUME NEW d \in Client, NEW m \in RxNio, Leaving(d, m)'
        PROVE  (\E i \in 1..k - 1 : g[i] = m) \/ Gone(m, d)'
    <3>1. CASE m = n
      <4>1. d = c
        BY <3>1, <2>4, <1>e, <1>l, <1>u DEF UsesInv, Leaving
      <4> QED
        BY <3>1, <4>1, <1>h
    <3>2. CASE m # n
      <4>1. (\E i \in 1..k : g[i] = m) \/ Gone(m, d)
        BY <2>4, <1>l, <1>k DEF Chain
      <4>2. \A i \in 1..k : i # k => i \in 1..k - 1
        BY <1>z
      <4> QED
        BY <4>1, <4>2, <3>2, <1>n, <1>g
    <3> QED
      BY <3>1, <3>2
  <2>5. g[0] = NoNio /\ remove_head' = g[k - 1]
    BY <1>k, <1>0 DEF Chain
  <2>6. Chain(k - 1, g)'
    BY Zenon, <2>2, <2>3, <2>4, <2>5 DEF Chain
  <2>7. rxl_next' \in [RxNio -> RxNio \cup {NoNio}]
    BY <1>0, <1>u DEF ChainInv
  <2> QED
    BY Zenon, <2>6, <2>7, <1>z DEF ChainInv
<1>4. ThreadInv'
  <2>1. spec' \in [RxNio \X Client -> {"none", "check", "handler", "locked"}]
    BY <1>0, <1>u DEF ThreadInv
  <2>2. ASSUME NEW m \in RxNio, NEW d \in Client, spec[<<m, d>>] # "none"
        PROVE  /\ m \notin FdNio /\ m \in used[d] /\ <<m, d>> \notin freed'
               /\ \/ m \in listed' /\ r_owner'[m] = d
                  \/ Joining(m, d)'
    <3>1. /\ m \notin FdNio /\ m \in used[d] /\ <<m, d>> \notin freed
          /\ m \in listed /\ r_owner[m] = d
      BY <2>2, <1>0, <1>u DEF ThreadInv, Joining
    <3>2. <<m, d>> \notin freed'
      BY <3>1, <1>m
    <3>3. CASE m = n
      BY <3>1, <3>2, <3>3, <1>m, <1>0 DEF Joining
    <3>4. CASE m # n
      BY <3>1, <3>2, <3>4, <1>m, <1>0
    <3> QED
      BY <3>3, <3>4
  <2>3. \A d \in Client, m \in RxNio : r_call[d] = <<"remove", m>> /\ r_pc[d] = "done"
          => m \notin listed' /\ spec[<<m, d>>] = "none"
    BY <1>m, <1>u DEF ThreadInv
  <2>4. used' = used /\ spec' = spec /\ r_call' = r_call /\ r_pc' = r_pc
    BY <1>0
  <2> QED
    BY <2>1, <2>2, <2>3, <2>4 DEF ThreadInv
<1>5. GenInv'
  <2>1. ready = {} /\ ready' = {}
    BY <1>0, <1>u DEF GenInv
  <2>2. gen' \in {"drain", "join"}
    BY <1>0, <1>m
  <2>3. gen' = "join" => /\ r_current' \in RxNio \ listed' /\ r_owner'[r_current'] \in Client
                         /\ Leaving(r_owner[n], n) /\ r_current' = n
    BY <1>0, <1>m, <1>q, <1>c
  <2>4. gen' = "join" => Leaving(r_owner[r_current], r_current)'
    BY <2>3, <1>0 DEF Leaving
  <2> QED
    BY <2>1, <2>2, <2>3, <2>4 DEF GenInv
<1> QED
  BY Zenon, <1>1, <1>2, <1>3, <1>4, <1>5 DEF RxlInv

\* The general thread's dedicated thread has ended.
LEMMA RxlJoin ==
  ASSUME RxlInv, R!GenJoin
  PROVE  RxlInv'
<1>u. UsesInv /\ ListInv /\ ChainInv /\ ThreadInv /\ GenInv
  BY Zenon DEF RxlInv
<1>n. PICK n \in RxNio, c \in Client :
        n = r_current /\ c = r_owner[n] /\ n \notin listed /\ Leaving(c, n)
  BY <1>u DEF R!GenJoin, R!GenAt, GenInv
<1>0. /\ gen = "join" /\ gen' = "drain" /\ spec[<<n, c>>] = "none"
      /\ freed' = freed \cup {<<n, c>>} /\ r_current' = NoNio
      /\ r_call' = r_call /\ r_pc' = r_pc /\ used' = used
      /\ add_list' = add_list /\ remove_head' = remove_head /\ rxl_next' = rxl_next
      /\ listed' = listed /\ r_owner' = r_owner /\ refs' = refs
      /\ spec' = spec /\ ready' = ready
  BY <1>n DEF R!GenJoin, R!GenAt, R!callVars, R!listVars
<1>1. UsesInv'
  BY <1>0, <1>u DEF UsesInv
<1>2. ListInv'
  <2>1. ASSUME NEW m \in listed
        PROVE  /\ refs[m] = 1 /\ r_owner[m] \in Client
               /\ m \in used[r_owner[m]] /\ <<m, r_owner[m]>> \notin freed'
    <3>1. m # n
      BY <1>n
    <3> QED
      BY <3>1, <1>0, <1>u DEF ListInv
  <2>2. ASSUME NEW i \in DOMAIN add_list
        PROVE  /\ r_call[add_list[i][2]] = <<"add", add_list[i][1]>>
               /\ r_pc[add_list[i][2]] = "wait"
               /\ add_list[i][1] \notin listed /\ add_list[i] \notin freed'
    <3>1. /\ r_call[add_list[i][2]] = <<"add", add_list[i][1]>>
          /\ r_pc[add_list[i][2]] = "wait"
          /\ add_list[i][1] \notin listed /\ add_list[i] \notin freed
      BY Zenon, <1>u DEF ListInv
    <3>2. r_call[c] = <<"remove", n>>
      BY <1>n DEF Leaving
    <3>3. add_list[i] # <<n, c>>
      BY <3>1, <3>2
    <3> QED
      BY <3>1, <3>3, <1>0
  <2>4. freed' \subseteq RxNio \X Client
    BY <1>0, <1>u DEF ListInv
  <2>3. /\ listed \subseteq RxNio /\ refs \in [RxNio -> Nat]
        /\ r_owner = [m \in RxNio |-> r_owner[m]]
        /\ add_list \in Seq(RxNio \X Client)
        /\ \A i, j \in DOMAIN add_list : add_list[i] = add_list[j] => i = j
        /\ \A d \in Client : r_call[d][1] = "add" /\ r_pc[d] \in {"lock", "unlock", "push"}
                               => r_call[d][2] \notin listed
    BY Zenon, <1>u DEF ListInv
  <2> QED
    BY <2>1, <2>2, <2>3, <2>4, <1>0 DEF ListInv
<1>l. \A d \in Client, m \in RxNio : Leaving(d, m)' <=> Leaving(d, m)
  BY <1>0 DEF Leaving
<1>j. \A d \in Client, m \in RxNio : Joining(m, d) => m = n /\ d = c
  BY <1>n DEF Joining
<1>g. \A d \in Client, m \in RxNio : Gone(m, d) /\ Leaving(d, m) => Gone(m, d)'
  BY <1>0, <1>j DEF Gone
<1>3. ChainInv'
  BY Zenon, <1>0, <1>u, <1>l, <1>g, ChainKept
<1>4. ThreadInv'
  <2>1. ASSUME NEW m \in RxNio, NEW d \in Client, spec[<<m, d>>] # "none"
        PROVE  /\ m \notin FdNio /\ m \in used[d] /\ <<m, d>> \notin freed'
               /\ \/ m \in listed /\ r_owner[m] = d
                  \/ \E i \in DOMAIN add_list : add_list[i] = <<m, d>>
    <3>1. <<m, d>> # <<n, c>>
      BY <2>1, <1>0
    <3> QED
      BY <2>1, <3>1, <1>0, <1>j, <1>u DEF ThreadInv
  <2>2. /\ spec \in [RxNio \X Client -> {"none", "check", "handler", "locked"}]
        /\ \A d \in Client, m \in RxNio :
             r_call[d] = <<"remove", m>> /\ r_pc[d] = "done"
               => m \notin listed /\ spec[<<m, d>>] = "none"
    BY Zenon, <1>u DEF ThreadInv
  <2> QED
    BY <2>1, <2>2, <1>0 DEF ThreadInv
<1>5. GenInv'
  BY <1>0, <1>u DEF GenInv
<1> QED
  BY Zenon, <1>1, <1>2, <1>3, <1>4, <1>5 DEF RxlInv

\* The general thread goes round, selects and calls handlers.
LEMMA RxlGen ==
  ASSUME RxlInv, R!GenTop \/ R!DrainDone \/ R!GenSelect \/ R!GenDispatch \/ R!GenHandler \/ R!GenUnlock
  PROVE  RxlInv'
<1>u. UsesInv /\ ListInv /\ ChainInv /\ ThreadInv /\ GenInv
  BY Zenon DEF RxlInv
<1>0. /\ UNCHANGED <<r_call, r_pc, used, add_list, remove_head, rxl_next, listed, r_owner,
                     refs, freed, spec>>
      /\ gen # "join" /\ gen' # "join"
  BY DEF R!GenTop, R!DrainDone, R!GenSelect, R!GenDispatch, R!GenHandler, R!GenUnlock,
     R!GenAt, R!callVars, R!listVars, R!specVars
<1>1. UsesInv'
  BY <1>0, <1>u DEF UsesInv
<1>2. ListInv'
  BY <1>0, <1>u DEF ListInv
<1>j. \A d \in Client, m \in RxNio : ~Joining(m, d) /\ ~Joining(m, d)'
  BY <1>0 DEF Joining
<1>l. \A d \in Client, m \in RxNio : Leaving(d, m)' <=> Leaving(d, m)
  BY <1>0 DEF Leaving
<1>g. \A d \in Client, m \in RxNio : Gone(m, d) => Gone(m, d)'
  BY <1>0, <1>j DEF Gone
<1>3. ChainInv'
  BY Zenon, <1>0, <1>u, <1>l, <1>g, ChainKept
<1>4. ThreadInv'
  BY <1>0, <1>j, <1>u DEF ThreadInv
<1>5. GenInv'
  <2>1. CASE R!GenTop \/ R!DrainDone
    BY <2>1, <1>0, <1>u DEF R!GenTop, R!DrainDone, R!GenAt, GenInv
  <2>2. CASE R!GenSelect
    BY <2>2, <1>0, <1>u DEF R!GenSelect, R!GenAt, GenInv
  <2>3. CASE R!GenDispatch
    BY <2>3, <1>0, <1>u DEF R!GenDispatch, R!GenAt, GenInv
  <2>4. CASE R!GenHandler \/ R!GenUnlock
    BY <2>4, <1>0, <1>u DEF R!GenHandler, R!GenUnlock, R!GenAt, GenInv
  <2> QED
    BY <2>1, <2>2, <2>3, <2>4
<1> QED
  BY Zenon, <1>1, <1>2, <1>3, <1>4, <1>5 DEF RxlInv

\* A dedicated thread works or ends.
LEMMA RxlSpec ==
  ASSUME RxlInv, NEW r \in RxNio \X Client, R!SpecThread(r)
  PROVE  RxlInv'
<1>u. UsesInv /\ ListInv /\ ChainInv /\ ThreadInv /\ GenInv
  BY Zenon DEF RxlInv
<1>0. /\ UNCHANGED <<r_call, r_pc, used, add_list, remove_head, rxl_next, listed, r_owner,
                     refs, freed, gen, ready, r_current>>
      /\ spec[r] # "none"
      /\ \E a \in {"none", "check", "handler", "locked"} : spec' = [spec EXCEPT ![r] = a]
  BY DEF R!SpecThread, R!SpecCheck, R!SpecHandler, R!SpecUnlock, R!SpecAt,
     R!callVars, R!listVars, R!genVars
<1>s. /\ spec' \in [RxNio \X Client -> {"none", "check", "handler", "locked"}]
      /\ \A m \in RxNio, d \in Client :
           spec'[<<m, d>>] # "none" => spec[<<m, d>>] # "none"
  BY <1>0, <1>u DEF ThreadInv
<1>1. UsesInv'
  BY <1>0, <1>u DEF UsesInv
<1>2. ListInv'
  BY <1>0, <1>u DEF ListInv
<1>j. \A d \in Client, m \in RxNio : Joining(m, d)' <=> Joining(m, d)
  BY <1>0 DEF Joining
<1>l. \A d \in Client, m \in RxNio : Leaving(d, m)' <=> Leaving(d, m)
  BY <1>0 DEF Leaving
<1>g. \A d \in Client, m \in RxNio : Gone(m, d) => Gone(m, d)'
  BY <1>0, <1>j, <1>s DEF Gone
<1>3. ChainInv'
  BY Zenon, <1>0, <1>u, <1>l, <1>g, ChainKept
<1>4. ThreadInv'
  BY <1>0, <1>j, <1>s, <1>u DEF ThreadInv
<1>5. GenInv'
  BY Zenon, <1>0, <1>u, <1>l, GenKept
<1> QED
  BY Zenon, <1>1, <1>2, <1>3, <1>4, <1>5 DEF RxlInv

\* A step of the receive listeners.
LEMMA RxlStepInv == RxlInv /\ R!Next => RxlInv'
<1> SUFFICES ASSUME RxlInv, R!Next PROVE RxlInv'
  OBVIOUS
<1>1. ASSUME NEW c \in Client, R!Caller(c) PROVE RxlInv'
  BY Zenon, <1>1, RxlMoves, RxlAdds, RxlRemoves, RxlDones, RxlReturn DEF R!Caller
<1>2. CASE R!Gen
  BY Zenon, <1>2, RxlDrainAdd, RxlDrainRemove, RxlJoin, RxlGen DEF R!Gen
<1> QED
  BY Zenon, <1>1, <1>2, RxlBegin, RxlSpec DEF R!Next, R!Rxl

\* The invariant is made of these variables only.
LEMMA RxlRests == RxlInv /\ UNCHANGED rxlVars => RxlInv'
<1> SUFFICES ASSUME RxlInv, UNCHANGED rxlVars PROVE RxlInv'
  OBVIOUS
<1>u. UsesInv /\ ListInv /\ ChainInv /\ ThreadInv /\ GenInv
  BY Zenon DEF RxlInv
<1>0. UNCHANGED <<r_call, r_pc, used, add_list, remove_head, rxl_next, listed,
                  r_owner, refs, freed, spec, gen, ready, r_current>>
  BY Zenon DEF rxlVars
<1>1. UsesInv'
  BY <1>0, <1>u DEF UsesInv
<1>2. ListInv'
  BY <1>0, <1>u DEF ListInv
<1>l. \A d \in Client, m \in RxNio : Leaving(d, m)' <=> Leaving(d, m)
  BY <1>0 DEF Leaving
<1>j. \A d \in Client, m \in RxNio : Joining(m, d)' <=> Joining(m, d)
  BY <1>0 DEF Joining
<1>g. \A d \in Client, m \in RxNio : Gone(m, d) => Gone(m, d)'
  BY <1>0, <1>j DEF Gone
<1>3. ChainInv'
  BY Zenon, <1>0, <1>u, <1>l, <1>g, ChainKept
<1>4. ThreadInv'
  BY <1>0, <1>j, <1>u DEF ThreadInv
<1>5. GenInv'
  BY Zenon, <1>0, <1>u, <1>l, GenKept
<1> QED
  BY Zenon, <1>1, <1>2, <1>3, <1>4, <1>5 DEF RxlInv

\* What it says of the handlers.
LEMMA RxlSafe == RxlInv => R!HandlerOwned /\ R!ListenerAlive
<1> SUFFICES ASSUME RxlInv PROVE R!HandlerOwned /\ R!ListenerAlive
  OBVIOUS
<1>u. ListInv /\ ThreadInv /\ GenInv
  BY Zenon DEF RxlInv
<1>1. ASSUME NEW r \in R!Handling
      PROVE  r \in RxNio \X Client /\ r[1] \in used[r[2]] /\ r \notin freed
  <2>1. CASE r \in RxNio \X Client /\ spec[r] # "none"
    <3>1. PICK n \in RxNio, c \in Client : r = <<n, c>>
      BY <2>1
    <3>2. n \in used[c] /\ <<n, c>> \notin freed
      BY <3>1, <2>1, <1>u DEF ThreadInv
    <3> QED
      BY <3>1, <3>2
  <2>2. CASE gen \in {"handler", "locked"} /\ r = <<r_current, r_owner[r_current]>>
    <3>1. r_current \in listed
      BY <2>2, <1>u DEF GenInv
    <3> QED
      BY <3>1, <2>2, <1>u DEF ListInv
  <2> QED
    BY <2>1, <2>2, <1>1 DEF R!Handling, R!Rxl
<1>2. R!HandlerOwned
  BY <1>1 DEF R!HandlerOwned
<1>3. ASSUME NEW r \in freed PROVE spec[r] = "none" /\ r \notin R!Handling
  <2>1. r \notin R!Handling
    BY <1>1
  <2>2. PICK n \in RxNio, c \in Client : r = <<n, c>>
    BY <1>3, <1>u DEF ListInv
  <2>3. spec[<<n, c>>] = "none"
    BY <2>2, <1>3, <1>u DEF ThreadInv
  <2> QED
    BY <2>1, <2>2, <2>3
<1> QED
  BY <1>2, <1>3 DEF R!ListenerAlive

-----------------------------------------------------------------------------
(* The three together.                                                     *)

\* No component relies on another.
WorkersInv == UdpInv /\ PtaskInv /\ RxlInv

\* The invariant at the start.
LEMMA WorkersInitial == WorkersInit => WorkersInv
  BY Zenon, UdpInit, PtaskInit, RxlInit DEF WorkersInit, WorkersInv

\* A step of one component leaves the others as they are.
LEMMA WorkersStep ==
  WorkersInv /\ [WorkersNext]_<<at, vars, taskVars, rxlVars>> => WorkersInv'
<1> SUFFICES ASSUME WorkersInv, [WorkersNext]_<<at, vars, taskVars, rxlVars>>
             PROVE  WorkersInv'
  OBVIOUS
<1>u. UdpInv /\ PtaskInv /\ RxlInv
  BY DEF WorkersInv
<1>1. CASE UdpStep
  <2>1. Next /\ UNCHANGED taskVars /\ UNCHANGED rxlVars
    BY <1>1 DEF UdpStep
  <2> QED
    BY <2>1, <1>u, UdpStepInv, PtaskRests, RxlRests DEF WorkersInv
<1>2. CASE PtaskStep
  <2>1. P!Next /\ UNCHANGED vars /\ UNCHANGED rxlVars
    BY <1>2 DEF PtaskStep
  <2> QED
    BY <2>1, <1>u, UdpRests, PtaskStepInv, RxlRests DEF WorkersInv
<1>3. CASE RxlStep
  <2>1. R!Next /\ UNCHANGED vars /\ UNCHANGED taskVars
    BY <1>3 DEF RxlStep
  <2> QED
    BY <2>1, <1>u, UdpRests, PtaskRests, RxlStepInv DEF WorkersInv
<1>4. CASE UNCHANGED <<at, vars, taskVars, rxlVars>>
  <2>1. UNCHANGED vars /\ UNCHANGED taskVars /\ UNCHANGED rxlVars
    BY <1>4
  <2> QED
    BY <2>1, <1>u, UdpRests, PtaskRests, RxlRests DEF WorkersInv
<1> QED
  BY <1>1, <1>2, <1>3, <1>4 DEF WorkersNext

\* The invariant holds in every behaviour.
LEMMA WorkersInvariance == WorkersSpec => []WorkersInv
  BY WorkersInitial, WorkersStep, PTL DEF WorkersSpec

\* No thread calls back for an owner that has removed its listener or task:
\* a receive handler's client uses the NIO, a swept task's device has not
\* removed it, and no listener is freed while its thread or the list has it.
THEOREM WorkersCallbacksOwned == WorkersSpec => []CallbacksOwned
<1>1. WorkersInv => CallbacksOwned
  BY UdpSafe, PtaskSafe, RxlSafe DEF WorkersInv, CallbacksOwned
<1> QED
  BY <1>1, WorkersInvariance, PTL

\* An active listener has exactly one receive operation and a running
\* scheduler exactly one sweep, however starts, stops and calls interleave.
THEOREM WorkersOnePending == WorkersSpec => []OnePending
<1>1. WorkersInv => OnePending
  BY UdpSafe, PtaskSafe DEF WorkersInv, OnePending
<1> QED
  BY <1>1, WorkersInvariance, PTL
=============================================================================
